------------------------------- MODULE Workdir -------------------------------
(***************************************************************************)
(* The Workdir of one sessionKey, its archive, and the SessionRecord with  *)
(* the /new marker (src/state/agent/copy.ts, src/runtime/prepare.ts,       *)
(* src/dispatch/commands.ts, and the calls of dispatcher.ts and session.ts *)
(* that use them).                                                         *)
(*                                                                         *)
(* A Workdir holds the transcript, session.jsonl, and one work file.  A    *)
(* copy removes its destination and then writes it, file by file.  The     *)
(* lease is Dispatcher's; here it only says who may start, and what a pi   *)
(* that exits leaves behind goes on without it.                            *)
(***************************************************************************)
EXTENDS Naturals

CONSTANTS
  Process,     \* runner processes, each with a Workdir of its own
  ChannelMode, \* session.mode "channel" with an idle or a size limit
  MaxStart,    \* bound on the starts of the Session
  MaxTurn,     \* bound on the turns of all of them
  MaxNew,      \* bound on the /new commands
  Faults,      \* what may go wrong, see FaultKind
  None

FaultKind ==
  {"crash", \* the runner dies
   "exit",  \* pi exits while the Session runs or flushes
   "early", \* pi exits while start writes the record
   "fold",  \* a turn timeout or a refused command
   "clear"} \* clearRotateMarker fails, which is only logged

ASSUME BoundsAssumption == MaxStart \in Nat /\ MaxTurn \in Nat /\ MaxNew \in Nat
ASSUME FaultsAssumption == Faults \subseteq FaultKind
ASSUME ModeAssumption == ChannelMode \in BOOLEAN

File == {"session", "work"}

\* A transcript: the start it began with, and the version of the work file that
\* its last turn left.  A work file: the turn that wrote it.  A SessionRecord.
Work == Nat \cup {None}
Transcript == [began : Nat \ {0}, work : Work]
Record == [marker : Nat, startedAt : Nat]

ASSUME NoneAssumption ==
  None \notin Process \cup File \cup Nat \cup Transcript \cup Record

VARIABLES
  archive,  \* the files of the archive, None for one that is not there
  local,    \* the files of each process's Workdir
  record,   \* the SessionRecord, or None: the marker, and startedAt
  holder,   \* the process whose Session, or /new, has the lease
  job,      \* what it is doing
  copying,  \* the files it has still to copy
  gap,      \* the one of them that has been removed already, or None
  got,      \* the record it has read
  fresh,    \* freshTranscript
  clearing, \* clearRotateMarker: "idle", "due", "read"
  seen,     \* the record that one has read
  orphan,   \* a flush that goes on after its Session left, or None
  stray,    \* a record that such a start has yet to write, or None
  starts, turns, news, \* counters
  \* history
  cut,      \* the starts before the last accepted /new
  undone,   \* the last /new may have been undone: see OldIsBack and StrayPut
  torn      \* a flush broke off at a work file, or went on without the lease

files == <<archive, local>>
control == <<record, holder>>
task == <<job, copying, gap, got, fresh>>
clear == <<clearing, seen>>
left == <<orphan, stray>>
counters == <<starts, turns, news>>
history == <<cut, undone, torn>>
vars == <<files, control, task, clear, left, counters, history>>

Flush == [proc : Process, copying : SUBSET File, gap : File \cup {None}]
Directory == [session : Transcript \cup {None}, work : Work]
Empty == [session |-> None, work |-> None]

\* In "run" pi is at rest, in "turn" it has worked on a prompt.
Job == {"free", "new", "newRead", "read", "restore", "put", "putRead",
        "run", "turn", "flush", "end", "endRead"}

Init ==
  /\ archive = Empty /\ local = [p \in Process |-> Empty]
  /\ record = None /\ holder = None
  /\ job = "free" /\ copying = {} /\ gap = None /\ got = None /\ fresh = FALSE
  /\ clearing = "idle" /\ seen = None
  /\ orphan = None /\ stray = None
  /\ starts = 0 /\ turns = 0 /\ news = 0
  /\ cut = 0 /\ undone = FALSE /\ torn = FALSE

(* SessionStore: a record is read and replaced as a whole. *)
GetRecord == record
PutRecord(r) == record' = r

Present(dir) == {f \in File : dir[f] # None}
HasMarker(r) == r # None /\ r.marker # 0

-----------------------------------------------------------------------------
(* copyRegularEntry, in its two steps.                                     *)

Removed(dir, f) == [dir EXCEPT ![f] = None]

\* A source that has gone meanwhile copies nothing.
Copied(dir, f, src) == [dir EXCEPT ![f] = src[f]]

\* Mutant of FlushNext: the files as readdir has them.
FlushNextAny(todo) == todo

\* flush: the transcript is the last.
FlushNext(todo) == IF todo = {"session"} THEN todo ELSE todo \ {"session"}

-----------------------------------------------------------------------------
(* handleNewCommand.                                                       *)

LeaseIsFree == holder = None

\* The lease is refused while a Session holds it, and so is the command.
NewAcquire(p) ==
  /\ LeaseIsFree /\ news < MaxNew
  /\ holder' = p /\ job' = "new" /\ news' = news + 1
  /\ UNCHANGED <<files, record, copying, gap, got, fresh, clear, left, starts, turns, history>>

NewRead ==
  /\ job = "new"
  /\ got' = GetRecord /\ job' = "newRead"
  /\ UNCHANGED <<files, control, copying, gap, fresh, clear, left, counters, history>>

\* The command is answered: the next start begins a new transcript.
NewWrite ==
  /\ job = "newRead"
  /\ PutRecord([marker |-> news, startedAt |-> IF got = None THEN 0 ELSE got.startedAt])
  /\ cut' = starts /\ undone' = (orphan # None)
  /\ holder' = None /\ job' = "free" /\ got' = None
  /\ UNCHANGED <<files, copying, gap, fresh, clear, left, counters, torn>>

-----------------------------------------------------------------------------
(* startOrResumeSession and prepareWorkdir.                                *)

Acquire(p) ==
  /\ LeaseIsFree /\ starts < MaxStart
  /\ holder' = p /\ starts' = starts + 1 /\ job' = "read"
  /\ UNCHANGED <<files, record, copying, gap, got, fresh, clear, left, turns, news, history>>

\* sessions.get, and restore's readdir: without a transcript there is nothing
\* to restore.
ReadRecord ==
  /\ job = "read"
  /\ got' = GetRecord
  /\ copying' = IF archive.session = None THEN {} ELSE Present(archive)
  /\ job' = "restore"
  /\ UNCHANGED <<files, control, gap, fresh, clear, left, counters, history>>

\* What was left in the Workdir and is not in the archive stays.  readdir has
\* no order.
RestoreFile ==
  /\ job = "restore"
  /\ \/ /\ gap = None /\ gap' \in copying
        /\ local' = [local EXCEPT ![holder] = Removed(local[holder], gap')]
        /\ UNCHANGED copying
     \/ /\ gap # None /\ gap' = None
        /\ local' = [local EXCEPT ![holder] = Copied(local[holder], gap, archive)]
        /\ copying' = copying \ {gap}
  /\ UNCHANGED <<archive, control, job, got, fresh, clear, left, counters, history>>

\* The marker in any mode; the idle time and the size in channel mode.
RotationIsDue(manual, limit) == manual \/ (ChannelMode /\ limit)

\* rotateTranscript renames session.jsonl in the Workdir.
Rotate ==
  /\ job = "restore" /\ copying = {}
  /\ \E limit \in BOOLEAN :
       LET dir == local[holder]
           due == RotationIsDue(HasMarker(got), limit /\ (got # None \/ dir.session # None))
       IN  /\ local' = IF due THEN [local EXCEPT ![holder] = Removed(dir, "session")] ELSE local
           /\ fresh' = (due \/ got = None)
  /\ clearing' = IF HasMarker(got) THEN "due" ELSE "idle"
  /\ job' = "put"
  /\ UNCHANGED <<archive, control, copying, gap, got, seen, left, counters, history>>

\* Mutant of Put: the marker is not carried over.
PutLosesMarker(r) ==
  [marker |-> 0, startedAt |-> IF fresh \/ r = None THEN starts ELSE r.startedAt]

\* #putRecord: what it writes over the record it has read.
Put(r) ==
  [marker |-> IF r = None THEN 0 ELSE r.marker,
   startedAt |-> IF fresh \/ r = None THEN starts ELSE r.startedAt]

PutRead ==
  /\ job \in {"put", "end"}
  /\ got' = GetRecord
  /\ job' = IF job = "put" THEN "putRead" ELSE "endRead"
  /\ UNCHANGED <<files, control, copying, gap, fresh, clear, left, counters, history>>

\* start goes on to the first prompt, and then to clearRotateMarker.
PutWrite ==
  /\ job = "putRead"
  /\ PutRecord(Put(got)) /\ got' = None /\ job' = "run"
  /\ UNCHANGED <<files, holder, copying, gap, fresh, clear, left, counters, history>>

\* Mutant of MayClear: clear before start has written the record.
MayClearEarly == job \notin {"free", "new", "newRead", "read", "restore"}

\* clearRotateMarker comes after start().
MayClear == job \in {"run", "turn", "flush", "end", "endRead"}

ClearRead ==
  /\ clearing = "due" /\ MayClear
  /\ \/ clearing' = IF HasMarker(GetRecord) THEN "read" ELSE "idle"
     \/ "clear" \in Faults /\ clearing' = "idle"
  /\ seen' = IF clearing' = "read" THEN GetRecord ELSE None
  /\ UNCHANGED <<files, control, task, left, counters, history>>

ClearWrite ==
  /\ clearing = "read"
  /\ PutRecord([seen EXCEPT !.marker = 0])
  /\ clearing' = "idle" /\ seen' = None
  /\ UNCHANGED <<files, holder, task, left, counters, history>>

-----------------------------------------------------------------------------
(* Turns and flushes.                                                      *)

\* pi appends to the transcript and may write the work file.
Turn ==
  /\ job \in {"run", "turn"} /\ turns < MaxTurn
  /\ job' = "turn" /\ turns' = turns + 1
  /\ \E edits \in BOOLEAN :
       LET dir == local[holder]
           work == IF edits THEN turns + 1 ELSE dir.work
           began == IF dir.session = None THEN starts ELSE dir.session.began
       IN  local' = [local EXCEPT ![holder] =
             [session |-> [began |-> began, work |-> work], work |-> work]]
  /\ UNCHANGED <<archive, control, copying, gap, got, fresh, clear, left, starts, news, history>>

\* agent_end comes after a turn, so pi has written a transcript.
FlushBegin ==
  /\ job = "turn" /\ job' = "flush"
  /\ copying' = Present(local[holder])
  /\ UNCHANGED <<files, control, gap, got, fresh, clear, left, counters, history>>

FlushFile ==
  /\ job = "flush"
  /\ \/ /\ gap = None /\ gap' \in FlushNext(copying)
        /\ archive' = Removed(archive, gap')
        /\ UNCHANGED copying
     \/ /\ gap # None /\ gap' = None
        /\ archive' = Copied(archive, gap, local[holder])
        /\ copying' = copying \ {gap}
  /\ UNCHANGED <<local, control, job, got, fresh, clear, left, counters, history>>

\* The next turn, or the end of the Session after the linger.
Flushed ==
  /\ job = "flush" /\ copying = {}
  /\ job' \in {"run", "end"}
  /\ UNCHANGED <<files, control, copying, gap, got, fresh, clear, left, counters, history>>

\* The record's endedAt, stop, release.
End ==
  /\ job = "endRead" /\ clearing = "idle"
  /\ PutRecord(Put(got))
  /\ holder' = None /\ job' = "free" /\ got' = None /\ fresh' = FALSE
  /\ UNCHANGED <<files, copying, gap, clear, left, counters, history>>

-----------------------------------------------------------------------------
(* Abnormal ends: none of them flushes.                                    *)

\* Whether the old transcript is what the next start will find although the
\* marker has been cleared.
OldIsBack ==
  /\ job \in {"run", "turn", "flush", "end", "endRead"} /\ ~HasMarker(record)
  /\ cut > 0 /\ (archive.session # None => archive.session.began <= cut)

Abandon ==
  /\ holder' = None /\ job' = "free" /\ copying' = {} /\ gap' = None
  /\ got' = None /\ fresh' = FALSE /\ clearing' = "idle" /\ seen' = None
  /\ undone' = (undone \/ OldIsBack \/ orphan' # None)
  /\ UNCHANGED cut

\* #abnormalShutdown.
Fold ==
  /\ "fold" \in Faults /\ job \in {"run", "turn"} /\ clearing = "idle"
  /\ UNCHANGED <<files, record, left, counters, torn>>
  /\ Abandon

\* The exit handler releases at once; a flush that was under way goes on.
Exit ==
  /\ "exit" \in Faults /\ clearing = "idle"
  /\ \/ job \in {"run", "turn"} /\ UNCHANGED <<orphan, torn>>
     \/ /\ job = "flush" /\ orphan = None
        /\ orphan' = [proc |-> holder, copying |-> copying, gap |-> gap]
        /\ torn' = TRUE
  /\ Abandon
  /\ UNCHANGED <<files, record, stray, counters>>

OrphanFlush ==
  /\ orphan # None
  /\ \/ /\ orphan.copying = {} /\ orphan' = None
        /\ UNCHANGED archive
     \/ /\ orphan.gap = None
        /\ \E f \in FlushNext(orphan.copying) :
             /\ orphan' = [orphan EXCEPT !.gap = f]
             /\ archive' = Removed(archive, f)
     \/ /\ orphan.gap # None
        /\ orphan' = [orphan EXCEPT !.copying = @ \ {orphan.gap}, !.gap = None]
        /\ archive' = Copied(archive, orphan.gap, local[orphan.proc])
  /\ UNCHANGED <<local, control, task, clear, stray, counters, history>>

\* start is between the two calls of #putRecord when the exit handler runs.
EarlyExit ==
  /\ "early" \in Faults /\ job = "putRead" /\ stray = None
  /\ stray' = Put(got)
  /\ UNCHANGED <<files, record, orphan, counters, torn>>
  /\ Abandon

StrayPut ==
  /\ stray # None
  /\ PutRecord(stray) /\ stray' = None /\ undone' = TRUE
  /\ UNCHANGED <<files, holder, task, clear, orphan, counters, cut, torn>>

\* The runner dies; its lease lapses.  Its Workdir may go with it.
Crash ==
  /\ "crash" \in Faults /\ job # "free"
  /\ \/ UNCHANGED local
     \/ local' = [local EXCEPT ![holder] = Empty]
  /\ torn' = (torn \/ (job = "flush" /\ gap = "work"))
  /\ orphan' = IF orphan # None /\ orphan.proc = holder THEN None ELSE orphan
  /\ UNCHANGED <<archive, record, stray, counters>>
  /\ Abandon

Next ==
  \/ \E p \in Process : NewAcquire(p) \/ Acquire(p)
  \/ NewRead \/ NewWrite
  \/ ReadRecord \/ RestoreFile \/ Rotate \/ PutRead \/ PutWrite
  \/ ClearRead \/ ClearWrite
  \/ Turn \/ FlushBegin \/ FlushFile \/ Flushed \/ End
  \/ Fold \/ Exit \/ OrphanFlush \/ EarlyExit \/ StrayPut \/ Crash

Spec == Init /\ [][Next]_vars

-----------------------------------------------------------------------------

\* Types, of the files and the record foremost.
TypeOK ==
  /\ archive \in Directory /\ local \in [Process -> Directory]
  /\ {record, got, seen, stray} \subseteq Record \cup {None}
  /\ holder \in Process \cup {None} /\ job \in Job
  /\ copying \subseteq File /\ gap \in File \cup {None} /\ fresh \in BOOLEAN
  /\ clearing \in {"idle", "due", "read"}
  /\ orphan \in Flush \cup {None}
  /\ starts \in 0..MaxStart /\ turns \in 0..MaxTurn /\ news \in 0..MaxNew
  /\ cut \in 0..MaxStart /\ undone \in BOOLEAN /\ torn \in BOOLEAN

\* The archived transcript never speaks of a work file newer than the archived
\* one: it is copied last, and whatever an abnormal end left in the Workdir was
\* not written by a later turn.  Excepted is a flush torn at a work file.
TranscriptNotAhead ==
  archive.session # None /\ archive.session.work # None /\ archive.work # None
    => archive.session.work <= archive.work \/ torn

\* state.md section 5.1 of a flush that breaks off: a transcript in the archive
\* has the work files it speaks of beside it.
TranscriptHasFiles ==
  job # "flush" /\ archive.session # None /\ archive.session.work # None
    => archive.work # None /\ archive.session.work <= archive.work

\* session-model.md section 5.1: once /new was answered, no Session continues a
\* transcript from before it, through failed starts, crashes of a start and
\* other processes.  Excepted is the end described at undone.
NewCutsTranscript ==
  job \in {"run", "turn", "flush", "end"} /\ local[holder].session # None
    => local[holder].session.began > cut \/ undone

\* session-model.md section 5.1: the marker of an accepted /new goes only when
\* a start has rotated the transcript for it.
MarkerIsConsumed ==
  [][HasMarker(record) /\ ~HasMarker(record') =>
       (clearing = "read" /\ record.marker <= seen.marker) \/ undone']_vars
=============================================================================
