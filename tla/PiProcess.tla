----------------------------- MODULE PiProcess -----------------------------
(***************************************************************************)
(* The wrapper of the child process: src/runtime/pi-process.ts, with the   *)
(* decoder and the classifier of the lines of stdout in src/runtime/rpc.ts.*)
(* pi writes a stream of characters that Node hands over in chunks cut     *)
(* anywhere; its exit, the end of its stdout and the answers of the        *)
(* wrapper's timers are turns of their own and come in any order: the exit *)
(* event may precede the last chunks.                                      *)
(*                                                                         *)
(* Stream is what pi writes when it lives long enough: "lf", "cr", and     *)
(* pieces of records.                                                      *)
(***************************************************************************)
EXTENDS Naturals, Sequences, SequencesExt

CONSTANTS
  Stream,     \* what pi writes on its stdout
  Places,     \* where each record of Stream begins and ends
  Responses,  \* the records that are responses, the others are events
  MaxCommands \* bound on the commands that are sent

BeginOf(k) == IF k \in DOMAIN Places THEN Places[k][1] ELSE Len(Stream) + 1
EndOf(k) == IF k \in DOMAIN Places THEN Places[k][2] ELSE 0
Records == [k \in DOMAIN Places |-> SubSeq(Stream, BeginOf(k), EndOf(k))]

\* Between two records, where 0 is the beginning of Stream.
Gap(k) == (EndOf(k) + 1)..(BeginOf(k + 1) - 1)

\* pi writes JSONL: one object a line, with no line end in it, after it LF or
\* CR LF, maybe empty lines, and maybe no end of the last line.  What is cut
\* off an object is not one.
ASSUME StreamAssumption ==
  /\ Stream \in Seq(Range(Stream))
  /\ Places \in Seq((DOMAIN Stream) \X (DOMAIN Stream))
  /\ \A k \in DOMAIN Places :
       /\ BeginOf(k) <= EndOf(k) /\ Stream[EndOf(k)] # "cr"
       /\ \A j \in BeginOf(k)..EndOf(k) : Stream[j] # "lf"
       /\ \A j \in BeginOf(k)..(EndOf(k) - 1) :
            SubSeq(Stream, BeginOf(k), j) \notin Range(Records)
  /\ \A k \in 0..Len(Places) :
       /\ EndOf(k) < BeginOf(k + 1)
       /\ \A j \in Gap(k) :
            \/ Stream[j] = "lf"
            \/ Stream[j] = "cr" /\ (j = Len(Stream) \/ Stream[j + 1] = "lf")
       /\ k \in 1..(Len(Places) - 1) => \E j \in Gap(k) : Stream[j] = "lf"
ASSUME MaxAssumption == MaxCommands \in Nat

VARIABLES
  child,    \* "none", "up", or how it ended: "code", "signal", "spawn"
  exitSeen, \* the exit event was emitted, with child's exitCode or signalCode
  killed,   \* child.kill was called (child.killed)
  sigkill,  \* SIGKILL is on its way to the process group
  stdin,    \* stdin is open
  sent,     \* the number of commands written
  written,  \* the length of what pi has written of Stream
  read,     \* the length of what was handed to the decoder
  ended,    \* the end of stdout was handed over
  buffer,   \* JsonlDecoder.buffer
  lines,    \* what handleLine emitted
  stopper,  \* where stop() is
  late      \* stop() was called after the exit event

childVars == <<child, exitSeen, killed, sigkill, stdin, sent, written, read,
               ended, buffer, lines, stopper, late>>

proc == <<child, exitSeen, killed, sigkill, stdin, sent, stopper, late>>
output == <<written, read, ended, buffer, lines>>

PiInit ==
  /\ child = "none" /\ exitSeen = FALSE /\ killed = FALSE /\ sigkill = FALSE
  /\ stdin = FALSE /\ sent = 0
  /\ written = 0 /\ read = 0 /\ ended = FALSE
  /\ buffer = <<>> /\ lines = <<>>
  /\ stopper = "idle" /\ late = FALSE

-----------------------------------------------------------------------------
(* rpc.ts.                                                                 *)

Chomp(line) ==
  IF line # <<>> /\ Last(line) = "cr" THEN Front(line) ELSE line

\* parsePiOutputLine: what is not a whole record does not parse.
Kind(line) ==
  IF line \notin Range(Records) THEN "invalid"
  ELSE IF line \in Responses THEN "response" ELSE "event"

\* handleLine, unless the line is empty.
Handled(line) ==
  IF line = <<>> THEN <<>> ELSE << [line |-> line, kind |-> Kind(line)] >>

\* One character more: only LF ends a line.
Scanned(decoder, char) ==
  IF char = "lf"
  THEN [rest |-> <<>>, lines |-> decoder.lines \o Handled(Chomp(decoder.rest))]
  ELSE [decoder EXCEPT !.rest = Append(@, char)]

Scan(decoder, chunk) ==
  LET after[k \in 0..Len(chunk)] ==
        IF k = 0 THEN decoder ELSE Scanned(after[k - 1], chunk[k])
  IN  after[Len(chunk)]

\* Mutant of Push: a chunk starts a new line.
PushAfresh(chunk) == Scan([rest |-> <<>>, lines |-> lines], chunk)

\* push: what is left of the chunks before comes first.
Push(chunk) == Scan([rest |-> buffer, lines |-> lines], chunk)

-----------------------------------------------------------------------------
(* start() and the handlers it registers.                                  *)

StartPi ==
  /\ child = "none"
  /\ child' = "up" /\ stdin' = TRUE
  /\ UNCHANGED <<exitSeen, killed, sigkill, sent, stopper, late, output>>

\* spawn fails: the error event stands for the exit event.
SpawnFails ==
  /\ child = "none"
  /\ child' = "spawn" /\ exitSeen' = TRUE
  /\ UNCHANGED <<killed, sigkill, stdin, sent, stopper, late, output>>

Data ==
  \E n \in (read + 1)..written :
    LET decoder == Push(SubSeq(Stream, read + 1, n))
    IN  /\ lines' = decoder.lines /\ buffer' = decoder.rest
        /\ read' = n
        /\ UNCHANGED <<written, ended, proc>>

StdoutEnd ==
  /\ child \in {"code", "signal"} /\ read = written /\ ~ended
  /\ ended' = TRUE
  /\ lines' = lines \o Handled(Chomp(buffer))
  /\ buffer' = <<>>
  /\ UNCHANGED <<written, read, proc>>

ExitEvent ==
  /\ child \in {"code", "signal"} /\ ~exitSeen
  /\ exitSeen' = TRUE
  /\ UNCHANGED <<child, killed, sigkill, stdin, sent, stopper, late, output>>

-----------------------------------------------------------------------------
(* send, kill and stop.  A death by a signal leaves exitCode null.         *)

HasExitCode == exitSeen /\ child \in {"code", "spawn"}

Running == child # "none" /\ ~HasExitCode /\ ~killed

\* prompt, steer, followUp: write or throw.
Send ==
  /\ Running /\ sent < MaxCommands
  /\ sent' = sent + 1
  /\ UNCHANGED <<child, exitSeen, killed, sigkill, stdin, stopper, late, output>>

\* Mutant: kill takes a child that was sent a signal for gone.
KillsUnlessKilled == Running

\* SIGKILL to the group, or to the child alone when that fails.
Kills == child \notin {"none", "spawn"} /\ ~HasExitCode

Kill ==
  /\ Kills
  /\ sigkill' = TRUE
  /\ UNCHANGED <<child, exitSeen, killed, stdin, sent, stopper, late, output>>

\* A child that has an exit code is gone; otherwise stdin is closed.
Stop ==
  /\ stopper = "idle"
  /\ IF child = "none" \/ HasExitCode
     THEN stopper' = "returned" /\ UNCHANGED <<stdin, late>>
     ELSE /\ stopper' = "stdin" /\ stdin' = FALSE
          /\ late' = exitSeen
  /\ UNCHANGED <<child, exitSeen, killed, sigkill, sent, output>>

\* The listener of stop() on the exit event, from wherever stop() waits.
StopExited ==
  /\ stopper \in {"stdin", "term", "kill"} /\ exitSeen /\ ~late
  /\ stopper' = "returned"
  /\ UNCHANGED <<child, exitSeen, killed, sigkill, stdin, sent, late, output>>

\* SIGTERM; child.killed stays as it is when the child has gone.
StdinGraceOver ==
  /\ stopper = "stdin"
  /\ stopper' = "term" /\ killed' = (killed \/ ~exitSeen)
  /\ UNCHANGED <<child, exitSeen, sigkill, stdin, sent, late, output>>

SigtermGraceOver ==
  /\ stopper = "term"
  /\ stopper' = "kill"
  /\ sigkill' = (sigkill \/ Kills)
  /\ UNCHANGED <<child, exitSeen, killed, stdin, sent, late, output>>

-----------------------------------------------------------------------------
(* pi.                                                                     *)

PiWrites ==
  /\ child = "up" /\ written < Len(Stream)
  /\ written' = written + 1
  /\ UNCHANGED <<read, ended, buffer, lines, proc>>

\* It ends by itself, on the end of stdin or on SIGTERM, with all it had to
\* write written or not, or is killed by a signal of whatever origin.
PiEnds(how) ==
  /\ child = "up"
  /\ child' = how
  /\ UNCHANGED <<exitSeen, killed, sigkill, stdin, sent, stopper, late, output>>

PiKilled ==
  /\ child = "up" /\ sigkill
  /\ child' = "signal"
  /\ UNCHANGED <<exitSeen, killed, sigkill, stdin, sent, stopper, late, output>>

PiNext ==
  \/ StartPi \/ SpawnFails \/ Data \/ StdoutEnd \/ ExitEvent
  \/ Send \/ Kill \/ Stop \/ StopExited \/ StdinGraceOver \/ SigtermGraceOver
  \/ PiWrites \/ PiKilled
  \/ \E how \in {"code", "signal"} : PiEnds(how)

PiSpec == PiInit /\ [][PiNext]_childVars

\* Timers fire, Node hands over what there is, and SIGKILL kills.  Nothing is
\* asked of pi.
PiFairness ==
  /\ WF_childVars(Data) /\ WF_childVars(StdoutEnd) /\ WF_childVars(ExitEvent)
  /\ WF_childVars(StopExited) /\ WF_childVars(StdinGraceOver) /\ WF_childVars(SigtermGraceOver)
  /\ WF_childVars(PiKilled)

PiFairSpec == PiSpec /\ PiFairness

-----------------------------------------------------------------------------
(* However the stream is cut into chunks and whenever pi dies, the lines   *)
(* that are emitted are its records, whole, once each and in order; only   *)
(* the last line of a pi that died in the middle of it is not a record, it *)
(* is the beginning of the next one and comes out as invalid.              *)
LinesAreRecords ==
  LET cut == lines # <<>> /\ Last(lines).kind = "invalid"
      n == IF cut THEN Len(lines) - 1 ELSE Len(lines)
  IN  /\ n <= Len(Records)
      /\ \A k \in 1..n : lines[k].line = Records[k] /\ lines[k].kind # "invalid"
      /\ cut => /\ ended /\ n < Len(Records)
                /\ IsPrefix(Last(lines).line, Records[n + 1])
      /\ written = Len(Stream) /\ ended => n = Len(Records)

(* stop() returns whatever pi does, and then its exit has been seen: the   *)
(* end of stdin, SIGTERM and SIGKILL follow one another.  The exception is *)
(* a stop() called after pi died by a signal, see StopAlwaysReturns.       *)
StopReturns ==
  (stopper = "stdin" /\ ~late) ~> (stopper = "returned" /\ exitSeen)

(* The comment of stop(): if pi does not end within the grace, SIGTERM and *)
(* SIGKILL follow, which end it.  After a death by a signal exitCode stays *)
(* null, and stop() waits for an exit event that has passed.               *)
StopAlwaysReturns == (stopper = "stdin") ~> (stopper = "returned")
=============================================================================
