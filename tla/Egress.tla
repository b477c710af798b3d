------------------------------- MODULE Egress -------------------------------
(***************************************************************************)
(* The Egress: the router with one FIFO queue per progress key             *)
(* (src/egress/router.ts), the progress notice of a Session                *)
(* (src/session/progress.ts) and the places where a Session calls them     *)
(* (src/session/session.ts), over a chat whose posts and updates may fail. *)
(*                                                                         *)
(* Sessions follow each other; what is left of an ended one (a reply whose *)
(* files are being resolved, a steer that resumes) runs beside the next.   *)
(* A task of a queue takes one step per network call.  The text of a       *)
(* progress notice is the count of tool calls it shows.                    *)
(***************************************************************************)
EXTENDS Naturals, Sequences

CONSTANTS
  Key,          \* thread keys
  Unknown,      \* thread keys that no message has registered
  SessionKey,
  Dest,         \* places a message can be posted to
  None,
  MaxSessions, MaxTurns, MaxReplies, MaxParts, MaxTools, MaxQueue, \* bounds
  Faults        \* what may go wrong, see FaultKind

FaultKind ==
  {"update", "post", \* chat.update, chat.postMessage fail
   "end",            \* the Session does not end by itself
   "steer"}          \* a steer resumes after the end of the Session

ASSUME KeyAssumption == Unknown \subseteq Key /\ SessionKey \in Key \ Unknown
ASSUME BoundAssumption ==
  {MaxSessions, MaxTurns, MaxReplies, MaxParts, MaxTools, MaxQueue} \subseteq Nat
ASSUME NoneAssumption == None \notin Dest /\ None \notin Nat
ASSUME FaultsAssumption == Faults \subseteq FaultKind

Session == 1..MaxSessions
Turn == 1..MaxTurns
Known == Key \ Unknown

VARIABLES
  dest,    \* destinations: what register has stored
  queue,   \* queues: the tasks of each progress key
  sentParts, \* parts that the reply at the head of a queue has sent
  msgId,   \* progressMessageIds
  closed,  \* progressClosed
  chat,    \* the messages of the chat, in the order of their posts
  ses,     \* the Sessions with their ProgressNotice
  turns,   \* progress.reset calls
  replies, \* calls of the reply tool, and notices
  \* history
  ran,     \* progress keys and turns of the replies that were run
  strayed  \* keys that a Session used and does not clear when it ends

vars == <<dest, queue, sentParts, msgId, closed, chat, ses, turns, replies,
          ran, strayed>>
router == <<dest, sentParts, msgId, closed, chat, ran>>

Phase == {"none", "starting", "busy", "idle", "closing", "stopping", "ended"}
Outcome == {"delivered", "failed", "unknown"}
ReplyRec ==
  [by : Session, to : Key, files : BOOLEAN, parts : 1..MaxParts,
   turn : 0..MaxTurns, state : {"resolving", "queued"} \cup Outcome]
Task ==
  [do : {"tick"}, by : Session, turn : Turn, shows : 0..MaxTools]
    \cup [do : {"reply"}, reply : 1..MaxReplies]
    \cup [do : {"clear", "open"}]
Message ==
  [kind : {"progress"}, key : Key, by : Session, turn : Turn, shows : 0..MaxTools]
    \cup [kind : {"reply"}, reply : 1..MaxReplies, part : 1..MaxParts]

Init ==
  /\ dest \in [Key -> Dest \cup {None}]
  /\ \A k \in Key : dest[k] = None <=> k \in Unknown
  /\ queue = [k \in Key |-> <<>>] /\ sentParts = [k \in Key |-> 0]
  /\ msgId = [k \in Key |-> None] /\ closed = {} /\ chat = <<>>
  /\ ses = [s \in Session |->
              [phase |-> "none", key |-> SessionKey, timer |-> FALSE, turn |-> 0,
               tools |-> 0, last |-> None, steering |-> FALSE]]
  /\ turns = 0 /\ replies = <<>> /\ ran = {} /\ strayed = {}

Enqueue(k, task) ==
  /\ Len(queue[k]) < MaxQueue
  /\ queue' = [queue EXCEPT ![k] = Append(@, task)]

-----------------------------------------------------------------------------
(* The Session and its progress notice.                                    *)

\* reset: the key of a new turn, a new timer, and the path opened again.
Reset(s, k, phase) ==
  /\ turns < MaxTurns /\ turns' = turns + 1
  /\ ses' = [ses EXCEPT ![s].key = k, ![s].timer = TRUE, ![s].last = None,
                        ![s].turn = turns + 1, ![s].phase = phase,
                        ![s].steering = FALSE]
  /\ Enqueue(k, [do |-> "open"])

\* A Session starts when the one before it has left the registry.
Start(s) ==
  /\ ses[s].phase = "none"
  /\ \A t \in 1..(s - 1) : ses[t].phase = "ended"
  /\ ses' = [ses EXCEPT ![s].phase = "starting"]
  /\ UNCHANGED <<router, queue, turns, replies, strayed>>

\* start and promptPending: a turn, with the key of its first message.
BeginTurn(s, k) ==
  /\ ses[s].phase \in {"starting", "idle"}
  /\ Reset(s, k, "busy")
  /\ strayed' = IF ses[s].phase = "idle" /\ k # ses[s].key
                THEN strayed \cup {ses[s].key} ELSE strayed
  /\ UNCHANGED <<router, replies>>

\* steerPending finds the Session running and drains.
SteerBegins(s) ==
  /\ ses[s].phase = "busy" /\ ~ses[s].steering /\ turns < MaxTurns
  /\ ses' = [ses EXCEPT ![s].steering = TRUE]
  /\ UNCHANGED <<router, queue, turns, replies, strayed>>

\* It does not look again whether the Session still runs.
Steer(s) ==
  /\ ses[s].steering
  /\ ses[s].phase \in {"busy", "idle"} \/ "steer" \in Faults
  /\ Reset(s, ses[s].key, ses[s].phase)
  /\ strayed' = IF ses[s].phase \in {"closing", "stopping", "ended"}
                THEN strayed \cup {ses[s].key} ELSE strayed
  /\ UNCHANGED <<router, replies>>

\* tool_execution_start of another tool than reply.
ToolStart(s) ==
  /\ ses[s].phase = "busy" /\ ses[s].tools < MaxTools
  /\ ses' = [ses EXCEPT ![s].tools = @ + 1]
  /\ UNCHANGED <<router, queue, turns, replies, strayed>>

\* The interval; a text that was sent is not sent again.
Tick(s) ==
  /\ ses[s].timer /\ ses[s].tools # ses[s].last
  /\ ses' = [ses EXCEPT ![s].last = ses[s].tools]
  /\ Enqueue(ses[s].key, [do |-> "tick", by |-> s, turn |-> ses[s].turn,
                          shows |-> ses[s].tools])
  /\ UNCHANGED <<router, turns, replies, strayed>>

\* The key of a reply is that of the progress at the time it is enqueued.
Hand(s, r) == Enqueue(ses[s].key, [do |-> "reply", reply |-> r])

\* tool_execution_end of reply: files are resolved before the reply is handed
\* over, and may all be refused.
Reply(s, to, files, parts) ==
  /\ ses[s].phase \in {"busy", "closing", "stopping"}
  /\ Len(replies) < MaxReplies
  /\ replies' = Append(replies,
       [by |-> s, to |-> to, files |-> files, parts |-> parts,
        turn |-> IF files THEN 0 ELSE ses[s].turn,
        state |-> IF files THEN "resolving" ELSE "queued"])
  /\ IF files THEN UNCHANGED queue ELSE Hand(s, Len(replies) + 1)
  /\ UNCHANGED <<router, ses, turns, strayed>>

FilesResolved(r) ==
  /\ replies[r].state = "resolving"
  /\ LET s == replies[r].by
     IN  /\ \E kept \in BOOLEAN :
              replies' = [replies EXCEPT ![r].state = "queued", ![r].files = kept,
                                         ![r].turn = ses[s].turn]
         /\ Hand(s, r)
  /\ UNCHANGED <<router, ses, turns, strayed>>

\* agent_end stops the timer.
TurnEnds(s) ==
  /\ ses[s].phase = "busy"
  /\ ses' = [ses EXCEPT ![s].phase = "idle", ![s].timer = FALSE]
  /\ UNCHANGED <<router, queue, turns, replies, strayed>>

\* Mutant of ClearAllTimers: the interval of the progress is forgotten.
ClearAllTimersButProgress(s, phase) == ses' = [ses EXCEPT ![s].phase = phase]

ClearAllTimers(s, phase) ==
  ses' = [ses EXCEPT ![s].phase = phase, ![s].timer = FALSE]

\* The orderly end, the exit of pi; abort and a refused renew stop pi after it.
End(s) ==
  /\ \/ ses[s].phase = "idle" /\ ClearAllTimers(s, "ended")
     \/ /\ "end" \in Faults /\ ses[s].phase \in {"starting", "busy", "idle"}
        /\ \E to \in {"stopping", "ended"} : ClearAllTimers(s, to)
  /\ Enqueue(ses[s].key, [do |-> "clear"])
  /\ UNCHANGED <<router, turns, replies, strayed>>

PiStopped(s) ==
  /\ ses[s].phase = "stopping"
  /\ ses' = [ses EXCEPT ![s].phase = "ended"]
  /\ UNCHANGED <<router, queue, turns, replies, strayed>>

\* abnormalShutdown sends a notice to the key of the Session ...
Shutdown(s) ==
  /\ "end" \in Faults /\ ses[s].phase = "busy"
  /\ Len(replies) < MaxReplies
  /\ ClearAllTimers(s, "closing")
  /\ replies' = Append(replies,
       [by |-> s, to |-> SessionKey, files |-> FALSE, parts |-> 1,
        turn |-> ses[s].turn, state |-> "queued"])
  /\ Hand(s, Len(replies) + 1)
  /\ UNCHANGED <<router, turns, strayed>>

\* ... and goes on when it is settled.
CloseNotified(s) ==
  /\ ses[s].phase = "closing"
  /\ \A r \in DOMAIN replies : replies[r].by = s => replies[r].state \in Outcome
  /\ ses' = [ses EXCEPT ![s].phase = "ended"]
  /\ Enqueue(ses[s].key, [do |-> "clear"])
  /\ UNCHANGED <<router, turns, replies, strayed>>

-----------------------------------------------------------------------------
(* The router.                                                             *)

Pop(k) == queue' = [queue EXCEPT ![k] = Tail(@)]
Is(k, do) == queue[k] # <<>> /\ Head(queue[k]).do = do

\* chat.update and chat.postMessage, each with whether it succeeded; a call that
\* failed had no effect.
Update(id, message, ok) ==
  IF ok THEN chat' = [chat EXCEPT ![id] = message]
  ELSE "update" \in Faults /\ UNCHANGED chat

Post(message, ok) ==
  IF ok THEN chat' = Append(chat, message)
  ELSE "post" \in Faults /\ UNCHANGED chat

\* Mutant of Forgotten: clearProgress opens the path and keeps the message id.
ForgottenNot(k) == msgId

Forgotten(k) == [msgId EXCEPT ![k] = None]

\* clearProgress and reopenProgress.
Clear(k) ==
  /\ Is(k, "clear") /\ Pop(k)
  /\ msgId' = Forgotten(k) /\ closed' = closed \ {k}
  /\ UNCHANGED <<dest, sentParts, chat, ses, turns, replies, ran, strayed>>

Open(k) ==
  /\ Is(k, "open") /\ Pop(k)
  /\ closed' = closed \ {k}
  /\ UNCHANGED <<dest, sentParts, msgId, chat, ses, turns, replies, ran, strayed>>

\* notifyProgressNow.
Notify(k) ==
  /\ Is(k, "tick") /\ Pop(k)
  /\ LET t == Head(queue[k])
         notice == [kind |-> "progress", key |-> k, by |-> t.by, turn |-> t.turn,
                    shows |-> t.shows]
     IN  \/ /\ k \in closed \/ dest[k] = None
            /\ UNCHANGED <<chat, msgId>>
         \/ /\ k \notin closed /\ dest[k] # None /\ msgId[k] # None
            /\ \E ok \in BOOLEAN : Update(msgId[k], notice, ok)
            /\ UNCHANGED msgId
         \/ /\ k \notin closed /\ dest[k] # None /\ msgId[k] = None
            /\ \E ok \in BOOLEAN :
                 /\ Post(notice, ok)
                 /\ msgId' = IF ok THEN [msgId EXCEPT ![k] = Len(chat) + 1] ELSE msgId
  /\ UNCHANGED <<dest, sentParts, closed, ses, turns, replies, ran, strayed>>

\* Mutant of Closes: a reply to an unknown key leaves the path open.
ClosesKnown(k, to) == IF dest[to] = None THEN closed ELSE closed \cup {k}

\* deliverNow closes the path before it looks at the destination.
Closes(k, to) == closed \cup {k}

\* Mutant of Consumed: the progress message stays known after the reply.
ConsumedNot(k) == msgId

Consumed(k) == [msgId EXCEPT ![k] = None]

\* The reply at the head is over, and the queue goes on also when it failed; a
\* success stops the timer of its Session.
Settle(k, r, outcome) ==
  /\ Pop(k) /\ sentParts' = [sentParts EXCEPT ![k] = 0]
  /\ replies' = [replies EXCEPT ![r].state = outcome]
  /\ ses' = IF outcome = "failed" THEN ses
            ELSE [ses EXCEPT ![replies[r].by].timer = FALSE]

\* Mutant of LastPart: one part too many.
LastPartLate(k, r) == sentParts[k] = replies[r].parts

LastPart(k, r) == sentParts[k] + 1 = replies[r].parts

\* What follows a part that was sent.
Sent(k, r) ==
  IF LastPart(k, r) THEN Settle(k, r, "delivered")
  ELSE /\ sentParts' = [sentParts EXCEPT ![k] = @ + 1]
       /\ UNCHANGED <<queue, replies, ses>>

\* tryUpdateProgress applies to a first part without files, and to a progress
\* message at the reply's own destination.
MayOverwrite(k, r) ==
  /\ sentParts[k] = 0
  /\ ~replies[r].files \/ replies[r].parts > 1
  /\ msgId[k] # None /\ dest[k] = dest[replies[r].to]

\* The part is posted, or the reply is given up.
PostPart(k, r, part) ==
  \/ Post(part, TRUE) /\ Sent(k, r)
  \/ Post(part, FALSE) /\ Settle(k, r, "failed")

\* deliverNow, one part of it.
Deliver(k) ==
  /\ Is(k, "reply")
  /\ LET r == Head(queue[k]).reply
         to == replies[r].to
         part == [kind |-> "reply", reply |-> r, part |-> sentParts[k] + 1]
     IN  /\ closed' = IF sentParts[k] = 0 THEN Closes(k, to) ELSE closed
         /\ ran' = ran \cup {<<k, replies[r].turn>>}
         /\ \/ /\ dest[to] = None
               /\ Settle(k, r, "unknown") /\ UNCHANGED <<chat, msgId>>
            \/ /\ dest[to] # None /\ MayOverwrite(k, r)
               /\ Update(msgId[k], part, TRUE)
               /\ msgId' = Consumed(k) /\ Sent(k, r)
            \/ /\ dest[to] # None
               /\ MayOverwrite(k, r) => "update" \in Faults
               /\ PostPart(k, r, part) /\ UNCHANGED msgId
  /\ UNCHANGED <<dest, turns, strayed>>

Run(k) == Clear(k) \/ Open(k) \/ Notify(k) \/ Deliver(k)

Work(s) ==
  \/ Start(s) \/ SteerBegins(s) \/ Steer(s) \/ ToolStart(s) \/ Tick(s)
  \/ TurnEnds(s) \/ End(s) \/ PiStopped(s) \/ Shutdown(s) \/ CloseNotified(s)
  \/ \E k \in Known : BeginTurn(s, k)
  \/ \E to \in Key, files \in BOOLEAN, parts \in 1..MaxParts : Reply(s, to, files, parts)

Next ==
  \/ \E s \in Session : Work(s)
  \/ \E r \in DOMAIN replies : FilesResolved(r)
  \/ \E k \in Key : Run(k)

Spec == Init /\ [][Next]_vars

-----------------------------------------------------------------------------

TypeOK ==
  /\ dest \in [Key -> Dest \cup {None}]
  /\ queue \in [Key -> Seq(Task)] /\ sentParts \in [Key -> 0..MaxParts]
  /\ \A k \in Key : msgId[k] \in DOMAIN chat \cup {None}
  /\ closed \subseteq Key /\ chat \in Seq(Message)
  /\ ses \in [Session ->
       [phase : Phase, key : Known, timer : BOOLEAN, turn : 0..MaxTurns,
        tools : 0..MaxTools, last : 0..MaxTools \cup {None}, steering : BOOLEAN]]
  /\ turns \in 0..MaxTurns /\ replies \in Seq(ReplyRec) /\ Len(replies) <= MaxReplies
  /\ ran \subseteq Key \X (0..MaxTurns) /\ strayed \subseteq Key

\* A progress notice is the only thing the router edits: what a reply wrote
\* stays as it is, whatever runs later under any key.
ReplyStays ==
  [][\A m \in DOMAIN chat : chat[m].kind = "reply" => chat'[m] = chat[m]]_vars

\* ingress-egress.md section 8: once a reply has run, no progress of the same
\* turn is written under its key any more, unless a steer resumed after the end.
NoTickAfterReply ==
  [][\A m \in DOMAIN chat' :
       /\ chat'[m].kind = "progress"
       /\ m \in DOMAIN chat => chat[m] # chat'[m]
       => \/ <<chat'[m].key, chat'[m].turn>> \notin ran
          \/ chat'[m].key \in strayed]_vars

\* router.ts, clearProgress: a Session does not write into a progress message
\* of an earlier one, except under a key that one left behind.
UpdatesOwn ==
  [][\A m \in DOMAIN chat :
       /\ chat[m].kind = "progress" /\ chat'[m] # chat[m]
       /\ chat'[m].kind = "progress"
       => chat'[m].by = chat[m].by \/ chat[m].key \in strayed]_vars

\* An ended Session shows no progress again, unless a steer resumed after it.
QuietAfterEnd ==
  \A s \in Session :
    ses[s].phase = "ended" /\ ses[s].timer => ses[s].key \in strayed

\* ingress-egress.md section 8: a progress message left at a thread is
\* collected by the next reply (without files) to that thread.
LeftIsCollected ==
  [][\A r \in DOMAIN replies :
       /\ replies[r].state # "delivered" /\ replies'[r].state = "delivered"
       /\ ~replies[r].files
       => msgId'[replies[r].to] = None]_vars
=============================================================================
