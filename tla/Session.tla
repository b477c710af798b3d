------------------------------- MODULE Session -------------------------------
(***************************************************************************)
(* One Session of one sessionKey, from the lease to its removal from the   *)
(* registry: src/session/session.ts with the calls that drive it in        *)
(* src/dispatch/dispatcher.ts (trySteerExisting, startOrResumeSession).    *)
(*                                                                         *)
(* The runner is single-threaded, so an action is the code between two     *)
(* awaits; the handlers run as interleaved tasks.  A store read is split   *)
(* from the continuation that uses it.  pi and its two pipes are external: *)
(* a command takes effect when written, an event is in flight until the    *)
(* runner handles it.                                                      *)
(*                                                                         *)
(* Abstracted: the order of items inside a drain (TLC tries them all), the *)
(* reactions and notices themselves (their awaits are kept where state is  *)
(* held across them), turnEpoch (only "has it moved since agent_end" is    *)
(* ever read), and the SessionRecord.                                      *)
(***************************************************************************)
EXTENDS Naturals

CONSTANTS
  Item,      \* dedupe ids of the messages of this Session
  Trigger,   \* the message the Session was started for
  Faults     \* what may go wrong, see FaultKind

FaultKind ==
  {"crash",    \* pi exits by itself
   "signal",   \* pi is killed by a signal the runner did not send
   "timeout",  \* a turn outlasts turnTimeoutMs
   "reject",   \* pi answers a command with success: false
   "flush",    \* workdirStore.flush or sharedStore.flush throws
   "store",    \* a Control State call on the normal path throws
   "start",    \* prepareWorkdir, buildSpawnOptions or the spawn throws
   "steal"}    \* the lease lapses before a renew and another process takes it

ASSUME TriggerAssumption == Trigger \in Item
ASSUME FaultsAssumption == Faults \subseteq FaultKind
\* The tasks are named by the item whose event they handle, or "start", "end".
ASSUME TaskNamesAssumption == Item \cap {"start", "end"} = {}

VARIABLES
  \* Control State
  seen,           \* ids the Inbox has ever accepted
  unacked,        \* ids that drain returns
  lease,          \* the row: "ours", "free", "next" (a later holder with the
                  \* same token), "stolen" (a later holder with another one)
  \* Session
  state,          \* #state
  disposed,       \* #disposed: no longer in the Dispatcher's map
  prompted,       \* #promptedIds
  moved,          \* #turnEpoch differs from onAgentEnd's snapshot
  armed,          \* the timers that are set: #turnTimeoutTimer, the interval of
                  \* ProgressNotice, #renewTimer
  \* pi
  pi,             \* "none", "idle", "busy", "dead" (it exited), "killed" (by a
                  \* signal: child.exitCode stays null)
  turn,           \* items in pi's current turn
  queued,         \* items steered into an idle pi: they wait for a prompt
  endEvent,       \* an agent_end on its way: "none", "retry", "final"
  rejected,       \* a success: false response on its way
  exited,         \* the exit event of pi has been handled
  \* tasks
  pc, todo, batch,  \* the delivery tasks: where they are, items drained and
                    \* not yet claimed, items they will send
  ackSet,         \* toAck of onAgentEnd
  lingered,       \* onAgentEnd is past its sleep
  closing,        \* abnormalShutdown, by cause: where it is
  closeAck,       \* its toAck
  exitAck,        \* ids the exit handler is still to ack
  exitRelease,    \* the exit handler is still to release
  renewLost,      \* the handler of a refused renew: where it is
  \* history
  got,            \* got[i]: deliveries of i to pi, counted up to 2
  claimed,        \* ids ever put in promptedIds
  flushMark       \* promptedIds when the last flush was started

store == <<seen, unacked, lease>>
piVars == <<pi, turn, queued, endEvent, rejected>>
tasks == <<pc, todo, batch>>
endVars == <<ackSet, lingered, flushMark>>
closeVars == <<closing, closeAck>>
exitVars == <<exited, exitAck, exitRelease>>
core == <<state, disposed, prompted, moved>>
endings == <<endVars, closeVars, exitVars, renewLost>>
history == <<got, claimed>>
vars == <<store, core, armed, piVars, tasks, endings, history>>

Task == Item \cup {"start", "end"}
Cause == {"timeout", "reject"}
Timer == {"turn", "progress", "renew"}

StartPc == {"prepare", "read", "filter", "claim", "put",
            "abort", "stop", "stopHangs", "release", "done"}
EndPc == {"idle", "flush", "ack", "read", "filter", "claim", "linger",
          "put", "stop", "stopHangs", "release", "dispose", "failed"}
SteerPc == {"idle", "enqueue", "touch", "read", "filter", "claim", "done"}

FlagTypes ==
  /\ disposed \in BOOLEAN /\ moved \in BOOLEAN /\ rejected \in BOOLEAN
  /\ exited \in BOOLEAN /\ lingered \in BOOLEAN /\ exitRelease \in BOOLEAN

DataTypes ==
  /\ seen \subseteq Item /\ unacked \subseteq seen
  /\ lease \in {"ours", "free", "next", "stolen"}
  /\ state \in {"starting", "running", "lingering", "stopping"}
  /\ prompted \subseteq Item
  /\ armed \subseteq Timer
  /\ pi \in {"none", "idle", "busy", "dead", "killed"}
  /\ turn \subseteq Item /\ queued \subseteq Item
  /\ endEvent \in {"none", "retry", "final"}
  /\ pc \in [Task -> StartPc \cup EndPc \cup SteerPc]
  /\ todo \in [Task -> SUBSET Item] /\ batch \in [Task -> SUBSET Item]
  /\ ackSet \subseteq Item /\ flushMark \subseteq Item
  /\ closing \in [Cause -> {"idle", "notify", "ack", "release", "kill"}]
  /\ closeAck \in [Cause -> SUBSET Item]
  /\ exitAck \subseteq Item
  /\ renewLost \in {"no", "refused", "stop", "stopHangs", "done"}
  /\ got \in [Item -> 0..2]
  /\ claimed \subseteq Item

\* Every variable has its type, and what is unacked has been accepted.
TypeOK == FlagTypes /\ DataTypes

\* The Dispatcher has enqueued the trigger, taken the lease and put the new
\* Session into its map; more items may be waiting in the Inbox.
Init ==
  /\ seen \in {S \in SUBSET Item : Trigger \in S}
  /\ unacked = seen
  /\ lease = "ours"
  /\ state = "starting"
  /\ disposed = FALSE
  /\ prompted = {}
  /\ moved = FALSE
  /\ armed = {}
  /\ pi = "none" /\ turn = {} /\ queued = {}
  /\ endEvent = "none" /\ rejected = FALSE /\ exited = FALSE
  /\ pc = [t \in Task |-> IF t = "start" THEN "prepare" ELSE "idle"]
  /\ todo = [t \in Task |-> {}] /\ batch = [t \in Task |-> {}]
  /\ ackSet = {} /\ lingered = FALSE /\ flushMark = {}
  /\ closing = [c \in Cause |-> "idle"]
  /\ closeAck = [c \in Cause |-> {}]
  /\ exitAck = {} /\ exitRelease = FALSE
  /\ renewLost = "no"
  /\ got = [i \in Item |-> 0]
  /\ claimed = {}

-----------------------------------------------------------------------------
(* Pieces the handlers share.                                              *)

\* leases.release(this.#lease): it deletes any row with our token.
ReleaseLease == lease' = IF lease \in {"ours", "next"} THEN "free" ELSE lease

\* The same where a failure ends nothing: it is logged or it is the last step.
ReleaseOrThrow == ReleaseLease \/ ("store" \in Faults /\ UNCHANGED lease)

ClearAllTimers == armed' = {}

Gone == pi \in {"dead", "killed"}

\* PiProcess.running: pi was spawned and child.exitCode is null.  It stays null
\* for a pi that died of a signal.
ProcessRunning == pi # "none" /\ ~(exited /\ pi = "dead")

\* Where a task that calls proc.stop() waits.  stop() returns on an exitCode
\* and otherwise waits for the next exit event, of which there is none when pi
\* was killed and its exit has been handled.
StopLabel == IF exited /\ pi = "killed" THEN "stopHangs" ELSE "stop"

\* Mutant of ArmTurn: resetTurnTimeout is forgotten.
ArmTurnUntimed ==
  /\ moved' = TRUE
  /\ armed' = armed \cup {"progress"}

\* Every send arms the turn timeout and the progress interval first.
ArmTurn ==
  /\ moved' = TRUE
  /\ armed' = armed \cup {"turn", "progress"}

CountDelivery(B) ==
  got' = [i \in Item |-> IF i \in B /\ got[i] < 2 THEN got[i] + 1 ELSE got[i]]

\* proc.prompt(B): starts a turn in an idle pi, is refused by a busy one.
PiPrompt(B) ==
  /\ rejected' = (rejected \/ pi = "busy")
  /\ IF pi = "idle"
     THEN pi' = "busy" /\ turn' = B \cup queued /\ queued' = {} /\ CountDelivery(B)
     ELSE UNCHANGED <<pi, turn, queued, got>>
  /\ UNCHANGED endEvent

\* proc.steer(B): joins the running turn; an idle pi only queues it.
PiSteer(B) ==
  \/ /\ pi = "busy"
     /\ turn' = turn \cup B
     /\ CountDelivery(B)
     /\ UNCHANGED <<pi, queued, endEvent, rejected>>
  \/ /\ pi = "idle"
     /\ queued' = queued \cup B
     /\ CountDelivery(B)
     /\ UNCHANGED <<pi, turn, endEvent, rejected>>
  \/ /\ Gone
     /\ UNCHANGED <<piVars, got>>

Goto(t, label) == pc' = [pc EXCEPT ![t] = label]

\* The task is over: it keeps nothing.
Finish(t, label) ==
  /\ Goto(t, label)
  /\ todo' = [todo EXCEPT ![t] = {}]
  /\ batch' = [batch EXCEPT ![t] = {}]

-----------------------------------------------------------------------------
(* The delivery loop: drain, drop what is prompted already, then take the  *)
(* rest one by one (beginTurnMessage awaits a reaction for each).          *)

\* inbox.drain() answers.
DrainRead(t) ==
  /\ pc[t] = "read"
  /\ Goto(t, "filter")
  /\ todo' = [todo EXCEPT ![t] = unacked]
  /\ UNCHANGED <<store, core, armed, piVars, batch, endings, history>>

DrainThrows(t) ==
  /\ "store" \in Faults
  /\ pc[t] = "read"
  /\ Finish(t, CASE t = "start" -> "abort" [] t = "end" -> "failed" [] OTHER -> "done")
  /\ UNCHANGED <<store, core, armed, piVars, endings, history>>

Pending(t) == todo[t] \ prompted

Claim(i) ==
  /\ prompted' = prompted \cup {i}
  /\ claimed' = claimed \cup {i}

\* The continuation of drain, up to the first reaction.
FilterAndClaim(t) ==
  /\ pc[t] = "filter"
  /\ \E i \in Pending(t) :
       /\ Claim(i)
       /\ todo' = [todo EXCEPT ![t] = Pending(t) \ {i}]
  /\ batch' = [batch EXCEPT ![t] = Pending(t)]
  /\ Goto(t, "claim")
  /\ UNCHANGED <<store, state, disposed, moved, armed, piVars, endings, got>>

\* The next item: it is not compared with promptedIds again.
ClaimNext(t) ==
  /\ pc[t] = "claim"
  /\ \E i \in todo[t] :
       /\ Claim(i)
       /\ todo' = [todo EXCEPT ![t] = @ \ {i}]
  /\ UNCHANGED <<store, state, disposed, moved, armed, piVars, pc, batch,
                 endings, got>>

ReadyToSend(t) == pc[t] = "claim" /\ todo[t] = {}

-----------------------------------------------------------------------------
(* Session.start, and the end of startOrResumeSession.                     *)

\* After the preparation of the workdir: spawn, up to the await of the drain.
StartSpawn ==
  /\ pc["start"] = "prepare"
  /\ Goto("start", "read")
  /\ pi' = "idle"
  /\ state' = "running"
  /\ armed' = armed \cup {"renew"}
  /\ UNCHANGED <<store, disposed, prompted, moved,
                 turn, queued, endEvent, rejected, todo, batch, endings,
                 history>>

StartThrows ==
  /\ "start" \in Faults
  /\ pc["start"] = "prepare"
  /\ Goto("start", "abort")
  /\ UNCHANGED <<store, core, armed, piVars, todo, batch, endings, history>>

\* Nothing left to drain: fall back to the trigger, prompted or not.
StartFallback ==
  /\ pc["start"] = "filter"
  /\ Pending("start") = {}
  /\ Claim(Trigger)
  /\ Goto("start", "claim")
  /\ todo' = [todo EXCEPT !["start"] = {}]
  /\ batch' = [batch EXCEPT !["start"] = {Trigger}]
  /\ UNCHANGED <<store, state, disposed, moved, armed, piVars, endings, got>>

\* The first prompt.  send() throws when the exit of pi was already seen.
StartPrompt ==
  /\ ReadyToSend("start")
  /\ ArmTurn
  /\ IF ProcessRunning
     THEN PiPrompt(batch["start"]) /\ Finish("start", "put")
     ELSE Finish("start", "abort") /\ UNCHANGED <<piVars, got>>
  /\ UNCHANGED <<store, state, disposed, prompted, endings, claimed>>

StartPut ==
  /\ pc["start"] = "put"
  /\ \/ Goto("start", "done")
     \/ "store" \in Faults /\ Goto("start", "abort")
  /\ UNCHANGED <<store, core, armed, piVars, todo, batch, endings, history>>

\* session.abort(): leave the map, stop the timers, then stop pi.
AbortStart ==
  /\ pc["start"] = "abort"
  /\ Goto("start", IF ProcessRunning THEN StopLabel ELSE "release")
  /\ disposed' = TRUE
  /\ ClearAllTimers
  /\ UNCHANGED <<store, state, prompted, moved, piVars, todo, batch, endings,
                 history>>

AbortStopped ==
  /\ pc["start"] = "stop"
  /\ exited
  /\ Goto("start", "release")
  /\ UNCHANGED <<store, core, armed, piVars, todo, batch, endings, history>>

AbortRelease ==
  /\ pc["start"] = "release"
  /\ Goto("start", "done")
  /\ ReleaseOrThrow
  /\ UNCHANGED <<seen, unacked, core, armed, piVars, todo, batch, endings,
                 history>>

Start ==
  \/ StartSpawn \/ StartThrows \/ DrainRead("start") \/ DrainThrows("start")
  \/ FilterAndClaim("start") \/ ClaimNext("start") \/ StartFallback \/ StartPrompt \/ StartPut
  \/ AbortStart \/ AbortStopped \/ AbortRelease

-----------------------------------------------------------------------------
(* trySteerExisting and Session.steerPending, for the event of item i.     *)

\* Mutant of Accept: the id is not kept for the dedupe.
AcceptForgetful(i) == unacked' = unacked \cup {i} /\ UNCHANGED seen

Accept(i) == seen' = seen \cup {i} /\ unacked' = unacked \cup {i}

\* The event finds the Session in the map and asks for the enqueue.
Find(i) ==
  /\ pc[i] = "idle"
  /\ i \notin seen
  /\ ~disposed
  /\ Goto(i, "enqueue")
  /\ UNCHANGED <<store, core, armed, piVars, todo, batch, endings, history>>

\* The Inbox accepts the item, whatever has become of the Session.
Enqueue(i) ==
  /\ pc[i] = "enqueue"
  /\ Accept(i)
  /\ Goto(i, "touch")
  /\ UNCHANGED <<lease, core, armed, piVars, todo, batch, endings, history>>

\* dispatchTriggered: the event looked for the Session before it was in the
\* map and finds it there after its own enqueue, so it does not steer.
EnqueueOnly(i) ==
  /\ pc[i] = "idle"
  /\ i \notin seen
  /\ ~disposed
  /\ Accept(i)
  /\ Goto(i, "done")
  /\ UNCHANGED <<lease, core, armed, piVars, todo, batch, endings, history>>

\* After touchLatest: only a running turn is steered.
CheckRunning(i) ==
  /\ pc[i] = "touch"
  /\ Goto(i, IF state = "running" /\ ProcessRunning THEN "read" ELSE "done")
  /\ UNCHANGED <<store, core, armed, piVars, todo, batch, endings, history>>

SteerNothing(i) ==
  /\ pc[i] = "filter"
  /\ Pending(i) = {}
  /\ Finish(i, "done")
  /\ UNCHANGED <<store, core, armed, piVars, endings, history>>

\* The steer, after the last reaction; #state is not looked at again.
Steer(i) ==
  /\ ReadyToSend(i)
  /\ ArmTurn
  /\ IF ProcessRunning THEN PiSteer(batch[i]) ELSE UNCHANGED <<piVars, got>>
  /\ Finish(i, "done")
  /\ UNCHANGED <<store, state, disposed, prompted, endings, claimed>>

Event(i) ==
  \/ Enqueue(i) \/ CheckRunning(i) \/ DrainRead(i) \/ DrainThrows(i) \/ FilterAndClaim(i)
  \/ ClaimNext(i) \/ SteerNothing(i) \/ Steer(i)

-----------------------------------------------------------------------------
(* onAgentEnd.                                                             *)

\* Mutant of AgentEndRetry: a retried agent_end ends the turn as well.
AgentEndRetryEnds ==
  /\ endEvent = "retry"
  /\ endEvent' = "final"
  /\ UNCHANGED <<store, core, armed, pi, turn, queued, rejected, tasks, endings,
                 history>>

\* A retried agent_end is passed over.
AgentEndRetry ==
  /\ endEvent = "retry"
  /\ endEvent' = "none"
  /\ UNCHANGED <<store, core, armed, pi, turn, queued, rejected, tasks,
                 endings, history>>

\* The final agent_end, up to the await of the flush.
AgentEnd ==
  /\ endEvent = "final"
  /\ endEvent' = "none"
  /\ armed' = armed \ (IF disposed THEN {"progress"} ELSE {"turn", "progress"})
  /\ IF disposed
     THEN UNCHANGED <<state, moved, pc, endVars>>
     ELSE /\ moved' = FALSE
          /\ state' = "lingering"
          /\ Goto("end", "flush")
          /\ ackSet' = prompted
          /\ flushMark' = prompted
          /\ lingered' = FALSE
  /\ UNCHANGED <<store, disposed, prompted, pi, turn, queued,
                 rejected, todo, batch, closeVars, exitVars, renewLost,
                 history>>

Flush ==
  /\ pc["end"] = "flush"
  /\ \/ Goto("end", "ack")
     \/ "flush" \in Faults /\ Goto("end", "failed")
  /\ UNCHANGED <<store, core, armed, piVars, todo, batch, endings, history>>

\* Mutant of AckTurn: acks what promptedIds holds now, not the snapshot.
AckTurnCurrent ==
  /\ pc["end"] = "ack"
  /\ Goto("end", "read")
  /\ unacked' = unacked \ prompted
  /\ prompted' = {}
  /\ ackSet' = {}
  /\ UNCHANGED <<seen, lease, state, disposed, moved, armed, piVars, todo, batch,
                 lingered, flushMark, closeVars, exitVars, renewLost, history>>

\* Mutant of AckTurn: promptedIds is cleared instead of losing the acked ids.
AckTurnClears ==
  /\ pc["end"] = "ack"
  /\ Goto("end", "read")
  /\ unacked' = unacked \ ackSet
  /\ prompted' = {}
  /\ ackSet' = {}
  /\ UNCHANGED <<seen, lease, state, disposed, moved, armed, piVars, todo, batch,
                 lingered, flushMark, closeVars, exitVars, renewLost, history>>

\* Mutant of AckTurn: acks all that the Inbox holds.
AckTurnEverything ==
  /\ pc["end"] = "ack"
  /\ Goto("end", "read")
  /\ unacked' = {}
  /\ prompted' = prompted \ ackSet
  /\ ackSet' = {}
  /\ UNCHANGED <<seen, lease, state, disposed, moved, armed, piVars, todo, batch,
                 lingered, flushMark, closeVars, exitVars, renewLost, history>>

AckTurn ==
  /\ pc["end"] = "ack"
  /\ \/ /\ unacked' = unacked \ ackSet
        /\ prompted' = prompted \ ackSet
        /\ ackSet' = {}
        /\ Goto("end", "read")
     \/ /\ "store" \in Faults /\ ackSet # {}
        /\ Goto("end", "failed")
        /\ UNCHANGED <<unacked, prompted, ackSet>>
  /\ UNCHANGED <<seen, lease, state, disposed, moved, armed, piVars, todo,
                 batch, lingered, flushMark, closeVars, exitVars, renewLost,
                 history>>

\* promptPending found nothing.  A steer meanwhile leaves the end of the
\* Session to that turn's agent_end; otherwise linger once, then stop.
NothingPending ==
  /\ pc["end"] = "filter"
  /\ Pending("end") = {}
  /\ Finish("end", IF moved THEN "idle" ELSE IF lingered THEN "put" ELSE "linger")
  /\ state' = IF ~moved /\ lingered THEN "stopping" ELSE state
  /\ UNCHANGED <<store, disposed, prompted, moved, armed, piVars, endings,
                 history>>

LingerOver ==
  /\ pc["end"] = "linger"
  /\ lingered' = TRUE
  /\ Goto("end", IF disposed THEN "idle" ELSE "read")
  /\ UNCHANGED <<store, core, armed, piVars, todo, batch, ackSet, flushMark,
                 closeVars, exitVars, renewLost, history>>

\* promptPending starts the next turn in the same process.
PromptNext ==
  /\ ReadyToSend("end")
  /\ ArmTurn
  /\ state' = "running"
  /\ IF ProcessRunning
     THEN PiPrompt(batch["end"])
     ELSE UNCHANGED <<piVars, got>>
  /\ Finish("end", "idle")
  /\ UNCHANGED <<store, disposed, prompted, endings, claimed>>

EndPut ==
  /\ pc["end"] = "put"
  /\ \/ Goto("end", StopLabel)
     \/ "store" \in Faults /\ Goto("end", "failed")
  /\ UNCHANGED <<store, core, armed, piVars, todo, batch, endings, history>>

\* Mutant of EndStopped: the exit of pi is not awaited.
EndStoppedEarly ==
  /\ pc["end"] = "stop"
  /\ Goto("end", "release")
  /\ ClearAllTimers
  /\ UNCHANGED <<store, core, piVars, todo, batch, endings, history>>

\* proc.stop() has seen the exit.
EndStopped ==
  /\ pc["end"] = "stop"
  /\ exited
  /\ Goto("end", "release")
  /\ ClearAllTimers
  /\ UNCHANGED <<store, core, piVars, todo, batch, endings, history>>

EndRelease ==
  /\ pc["end"] = "release"
  /\ \/ Goto("end", "dispose") /\ ReleaseLease
     \/ "store" \in Faults /\ Goto("end", "failed") /\ UNCHANGED lease
  /\ UNCHANGED <<seen, unacked, core, armed, piVars, todo, batch, endings,
                 history>>

EndDispose ==
  /\ pc["end"] = "dispose"
  /\ Goto("end", "idle")
  /\ disposed' = TRUE
  /\ UNCHANGED <<store, state, prompted, moved, armed, piVars, todo, batch,
                 endings, history>>

End ==
  \/ AgentEndRetry \/ AgentEnd \/ Flush \/ AckTurn \/ DrainRead("end")
  \/ DrainThrows("end") \/ FilterAndClaim("end") \/ ClaimNext("end") \/ NothingPending \/ LingerOver
  \/ PromptNext \/ EndPut \/ EndStopped \/ EndRelease \/ EndDispose

-----------------------------------------------------------------------------
(* abnormalShutdown: the turn timeout and the refused command.             *)

Shutdown(c) ==
  IF disposed
  THEN UNCHANGED <<state, closing>>
  ELSE /\ state' = "stopping"
       /\ closing' = [closing EXCEPT ![c] = "notify"]

TurnTimeout ==
  /\ "timeout" \in Faults
  /\ "turn" \in armed
  /\ closing["timeout"] = "idle"
  /\ armed' = IF disposed THEN armed \ {"turn"} ELSE {}
  /\ Shutdown("timeout")
  /\ UNCHANGED <<store, disposed, prompted, moved, piVars, tasks, endVars,
                 closeAck, exitVars, renewLost, history>>

CommandFailed ==
  /\ rejected
  /\ closing["reject"] = "idle"
  /\ rejected' = FALSE
  /\ armed' = IF disposed THEN armed ELSE {}
  /\ Shutdown("reject")
  /\ UNCHANGED <<store, disposed, prompted, moved, pi, turn, queued, endEvent,
                 tasks, endVars, closeAck, exitVars, renewLost, history>>

\* Notice, progress and reactions are out; now the ids to give up are taken.
CloseNotified(c) ==
  /\ closing[c] = "notify"
  /\ closing' = [closing EXCEPT ![c] = "ack"]
  /\ closeAck' = [closeAck EXCEPT ![c] = prompted]
  /\ UNCHANGED <<store, core, armed, piVars, tasks, endVars, exitVars,
                 renewLost, history>>

\* An ack whose failure is logged and passed over.
AckOrThrow(S) ==
  unacked' = unacked \ S \/ ("store" \in Faults /\ UNCHANGED unacked)

CloseAck(c) ==
  /\ closing[c] = "ack"
  /\ closing' = [closing EXCEPT ![c] = "release"]
  /\ closeAck' = [closeAck EXCEPT ![c] = {}]
  /\ AckOrThrow(closeAck[c])
  /\ UNCHANGED <<seen, lease, core, armed, piVars, tasks, endVars, exitVars,
                 renewLost, history>>

CloseRelease(c) ==
  /\ closing[c] = "release"
  /\ closing' = [closing EXCEPT ![c] = "kill"]
  /\ ReleaseOrThrow
  /\ UNCHANGED <<seen, unacked, core, armed, piVars, tasks, endVars, closeAck,
                 exitVars, renewLost, history>>

\* Mutant of CloseKill: dispose() is left to the exit handler.
CloseKillOnly(c) ==
  /\ closing[c] = "kill"
  /\ closing' = [closing EXCEPT ![c] = "idle"]
  /\ pi' = IF pi \in {"idle", "busy"} THEN "killed" ELSE pi
  /\ UNCHANGED <<store, core, armed, turn, queued, endEvent, rejected, tasks,
                 endVars, closeAck, exitVars, renewLost, history>>

\* kill() and dispose() follow the release without an await.
CloseKill(c) ==
  /\ closing[c] = "kill"
  /\ closing' = [closing EXCEPT ![c] = "idle"]
  /\ pi' = IF pi \in {"idle", "busy"} THEN "killed" ELSE pi
  /\ disposed' = TRUE
  /\ UNCHANGED <<store, state, prompted, moved, armed, turn, queued, endEvent,
                 rejected, tasks, endVars, closeAck, exitVars, renewLost,
                 history>>

Close(c) ==
  CloseNotified(c) \/ CloseAck(c) \/ CloseRelease(c) \/ CloseKill(c)

-----------------------------------------------------------------------------
(* The exit event, the renew timer, and the world outside.                 *)

\* An exit nobody asked for ends the Session; ack and release are not awaited.
PiExit ==
  /\ Gone
  /\ ~exited
  /\ exited' = TRUE
  /\ IF ~disposed /\ state # "stopping"
     THEN /\ disposed' = TRUE
          /\ ClearAllTimers
          /\ exitAck' = prompted
          /\ exitRelease' = TRUE
     ELSE UNCHANGED <<disposed, armed, exitAck, exitRelease>>
  /\ UNCHANGED <<store, state, prompted, moved, piVars, tasks, endVars,
                 closeVars, renewLost, history>>

ExitAck ==
  /\ exitAck # {}
  /\ AckOrThrow(exitAck)
  /\ exitAck' = {}
  /\ UNCHANGED <<seen, lease, core, armed, piVars, tasks, endVars, closeVars,
                 exited, exitRelease, renewLost, history>>

ExitRelease ==
  /\ exitRelease
  /\ ReleaseOrThrow
  /\ exitRelease' = FALSE
  /\ UNCHANGED <<seen, unacked, core, armed, piVars, tasks, endVars,
                 closeVars, exited, exitAck, renewLost, history>>

\* renew() answers false; the answer is on its way.
RenewAsk ==
  /\ "renew" \in armed
  /\ ~disposed
  /\ lease # "ours"
  /\ renewLost = "no"
  /\ renewLost' = "refused"
  /\ UNCHANGED <<store, core, armed, piVars, tasks, endVars, closeVars,
                 exitVars, history>>

\* The refusal: no flush, no ack, no release.
RenewRefused ==
  /\ renewLost = "refused"
  /\ IF disposed
     THEN renewLost' = "done" /\ UNCHANGED <<state, disposed, armed>>
     ELSE /\ state' = "stopping"
          /\ disposed' = TRUE
          /\ ClearAllTimers
          /\ renewLost' = IF ProcessRunning THEN StopLabel ELSE "done"
  /\ UNCHANGED <<store, prompted, moved, piVars, tasks, endVars, closeVars,
                 exitVars, history>>

RenewStopped ==
  /\ renewLost = "stop"
  /\ exited
  /\ renewLost' = "done"
  /\ UNCHANGED <<store, core, armed, piVars, tasks, endVars, closeVars,
                 exitVars, history>>

StopRequested ==
  pc["end"] = "stop" \/ pc["start"] = "stop" \/ renewLost = "stop"

\* proc.stop(): pi ends on the closed stdin, a SIGTERM or a SIGKILL.
PiStop ==
  /\ StopRequested
  /\ pi \in {"idle", "busy"}
  /\ pi' = "dead"
  /\ UNCHANGED <<store, core, armed, turn, queued, endEvent, rejected, tasks,
                 endings, history>>

PiTurnEnds ==
  /\ pi = "busy"
  /\ endEvent = "none"
  /\ \/ endEvent' = "final" /\ pi' = "idle" /\ turn' = {}
     \/ endEvent' = "retry" /\ UNCHANGED <<pi, turn>>
  /\ UNCHANGED <<store, core, armed, queued, rejected, tasks, endings,
                 history>>

PiRejects ==
  /\ "reject" \in Faults
  /\ pi = "busy"
  /\ rejected' = TRUE
  /\ pi' = "idle" /\ turn' = {}
  /\ UNCHANGED <<store, core, armed, queued, endEvent, tasks, endings,
                 history>>

PiCrash ==
  /\ pi \in {"idle", "busy"}
  /\ \/ "crash" \in Faults /\ pi' = "dead"
     \/ "signal" \in Faults /\ pi' = "killed"
  /\ UNCHANGED <<store, core, armed, turn, queued, endEvent, rejected, tasks,
                 endings, history>>

\* The lease row changes hands: after our release, or after it lapsed.
NextHolder ==
  /\ \/ lease = "free" /\ lease' = "next"
     \/ "steal" \in Faults /\ lease = "ours" /\ lease' = "stolen"
  /\ UNCHANGED <<seen, unacked, core, armed, piVars, tasks, endings, history>>

Runner ==
  \/ Start
  \/ \E i \in Item : Event(i)
  \/ End
  \/ TurnTimeout \/ CommandFailed \/ \E c \in Cause : Close(c)
  \/ PiExit \/ ExitAck \/ ExitRelease
  \/ RenewAsk \/ RenewRefused \/ RenewStopped

Environment ==
  \/ \E i \in Item : Find(i) \/ EnqueueOnly(i)
  \/ PiStop \/ PiTurnEnds \/ PiRejects \/ PiCrash \/ NextHolder

Next == Runner \/ Environment

Spec == Init /\ [][Next]_vars

\* The runner's tasks and armed timers get their turn, and a pi that is being
\* stopped exits (it is killed in the end).  Nothing is assumed of how long a
\* turn takes or of what arrives.
Fairness ==
  /\ WF_vars(Start) /\ WF_vars(End)
  /\ \A i \in Item : WF_vars(Event(i))
  /\ \A c \in Cause : WF_vars(Close(c))
  /\ WF_vars(TurnTimeout) /\ WF_vars(CommandFailed)
  /\ WF_vars(PiExit) /\ WF_vars(ExitAck) /\ WF_vars(ExitRelease)
  /\ WF_vars(RenewAsk) /\ WF_vars(RenewRefused) /\ WF_vars(RenewStopped)
  /\ WF_vars(PiStop)

FairSpec == Spec /\ Fairness

-----------------------------------------------------------------------------
(* What holds.                                                             *)

\* An item pi has been given and the Inbox still returns is in promptedIds, so
\* no drain that starts now hands it out again (#promptedIds against the
\* non-destructive drain, over interleaved steers, acks and retries).
ReceivedIsRemembered ==
  \A i \in unacked : got[i] > 0 => i \in prompted

\* Only items some delivery took are ever acked: what arrived meanwhile, or
\* was only enqueued, stays for the next drain, whichever of the four ack
\* paths ran.
OnlyClaimedIsAcked == seen \ unacked \subseteq claimed

\* onAgentEnd acks nothing that was claimed after its flush began ("ack
\* follows the flush it belongs to"), however many steers ran in between.
AckFollowsFlush ==
  [][AckTurn => unacked \ unacked' \subseteq flushMark]_vars

\* The life of each item, as ItemLifecycle states it.
StatusOf ==
  [i \in Item |-> IF i \notin seen THEN "new"
                  ELSE IF i \notin unacked THEN "done"
                  ELSE IF i \in prompted THEN "taken" ELSE "waiting"]

Lifecycle == INSTANCE ItemLifecycle WITH status <- StatusOf

\* The Session implements ItemLifecycle: over all interleavings of start,
\* steers, agent_end, the shutdowns and the exit handler, no item is given
\* back, acked before it was taken, or acked twice.
LifecycleSpec == Lifecycle!Spec

\* The runner never prompts a pi that is in a turn, which pi refuses and the
\* Session answers by shutting down: start and the continuations of onAgentEnd
\* exclude each other, and a retried agent_end starts none.
NoPromptWhileBusy == \A t \in {"start", "end"} : ReadyToSend(t) => pi # "busy"

\* A turn pi is working on is covered by the turn timeout until the Session
\* is on its way out.
BusyTurnIsTimed ==
  pi = "busy" /\ ~disposed /\ state # "stopping" => "turn" \in armed

\* While pi lives the Session keeps its lease: the orderly end, the rollback of
\* start and the exit handler release it after the exit of pi, so that the next
\* holder never shares the Workdir with our pi.  abnormalShutdown alone
\* releases first and kills right after it.
AliveUnderLease ==
  pi \in {"idle", "busy"} /\ lease \in {"free", "next"} =>
    \E c \in Cause : closing[c] = "kill"

\* The Session always leaves the registry.
AlwaysDisposed == <>disposed

-----------------------------------------------------------------------------
(* What the documents say and the code does not keep.                      *)

\* message-dispatch.md: prompted and steered ids are excluded from the drain.
DeliveredOnce == \A i \in Item : got[i] < 2

\* message-dispatch.md: nothing is missed.  When pi is gone, no item that was
\* acked is still waiting in the queue of its steers.
NothingMissed == Gone => (seen \ unacked) \cap queued = {}

\* state.md: a failed flush is not acked and the next run picks the input up,
\* which takes an end of this run.
FlushFailureEndsRun == (pc["end"] = "failed") ~> disposed

\* state.md: a release never deletes the lease of a later holder.
NeverReleasesAnother == [][lease = "next" => lease' = "next"]_vars

=============================================================================
