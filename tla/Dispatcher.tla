----------------------------- MODULE Dispatcher -----------------------------
(***************************************************************************)
(* The Dispatchers of several runner processes that share Control State,   *)
(* for one sessionKey (src/dispatch/dispatcher.ts, with the pipeline stage *)
(* of src/gate/evaluate.ts that calls it).  An action is the code between  *)
(* two awaits of one event's handling.                                     *)
(*                                                                         *)
(* A Session is reduced to what a Dispatcher sees of it: where it is, what *)
(* it has taken and when it releases; Session.tla has its inside.  A lease *)
(* lapses only when its holder died; Session.tla and LeaseStore.tla treat  *)
(* the lapse under a live holder.  Time is abstracted: a debounce timer    *)
(* fires at any moment.                                                    *)
(***************************************************************************)
EXTENDS Naturals

CONSTANTS
  Process,   \* runner processes
  Item,      \* messages of the key, by dedupe id
  Debounced, \* those that wait for the debounce timer: the channel has a
             \* debounceSec and they do not mention the bot
  None,      \* no item
  Faults     \* what may go wrong, see FaultKind

FaultKind ==
  {"start",   \* the start of a Session throws
   "exit",    \* pi exits by itself
   "fold",    \* abnormalShutdown: a turn timeout or a refused command
   "disable", \* the channel is disabled while a debounce timer runs
   "crash"}   \* a runner process dies and comes back

ASSUME DebouncedAssumption == Debounced \subseteq Item
ASSUME NoneAssumption == None \notin Item
ASSUME FaultsAssumption == Faults \subseteq FaultKind
ASSUME LeaseAssumption == Process \cap {"free", "lapsing"} = {}

VARIABLES
  \* Control State
  seen,       \* ids the Inbox has ever accepted
  unacked,    \* ids that drain returns
  lease,      \* its holder, "free", or "lapsing": the holder died
  \* of each process
  session,    \* the Session in the registry (#sessions)
  trigger,    \* the item a starting Session was created for
  prompted,   \* its #promptedIds
  owes,       \* processes of which a Session that left the registry has yet
              \* to release
  givenUp,    \* items such a Session has yet to ack
  pending,    \* trigger of the debounce timer (pendingDispatches), or None
  acquiring,  \* triggers whose startOrResumeSession awaits the lease
  pc,         \* pc[p][i]: where p is with the event of message i
  stale,      \* events that hold a Session which left the registry meanwhile
  \* history
  late        \* items left in the Inbox by a step that counted on a drain
              \* which was not to come, or by a fault

inbox == <<seen, unacked>>
sessionVars == <<session, trigger, prompted>>
leftovers == <<owes, givenUp>>
vars == <<inbox, lease, sessionVars, leftovers, pending, acquiring, pc, stale, late>>

\* "stopping" is past its last drain, "released" only awaits its dispose().
Stage == {"none", "starting", "running", "lingering", "stopping", "released"}

\* "offer": enqueue for the Session found in the registry is in flight;
\* "offered": so is touchLatest; "gate": the gate is being evaluated or the
\* enqueue after it is in flight; "touch": so is the touchLatest after that.
Place == {"idle", "offer", "offered", "gate", "touch"}

Init ==
  /\ seen = {} /\ unacked = {} /\ lease = "free"
  /\ session = [p \in Process |-> "none"]
  /\ trigger = [p \in Process |-> None]
  /\ prompted = [p \in Process |-> {}]
  /\ owes = {} /\ givenUp = [p \in Process |-> {}]
  /\ pending = [p \in Process |-> None]
  /\ acquiring = [p \in Process |-> {}]
  /\ pc = [p \in Process |-> [i \in Item |-> "idle"]]
  /\ stale = [p \in Process |-> {}]
  /\ late = {}

-----------------------------------------------------------------------------
(* Who will still drain the Inbox.                                         *)

\* A Session that drains again before it stops.
Draining(p) == session[p] \in {"starting", "running", "lingering"}

\* A Session that holds the registry or the lease and drains no more.
PastDrain ==
  \/ \E p \in Process : session[p] \in {"stopping", "released"}
  \/ owes # {}
  \/ lease = "lapsing"

\* The event of i at p ends here, leaving the items to somebody's drain.
LeaveToDrain(p, i) ==
  late' = IF (i \in stale[p] \/ PastDrain) /\ ~\E q \in Process : Draining(q)
          THEN late \cup unacked ELSE late

Goto(p, i, place) == pc' = [pc EXCEPT ![p][i] = place]

\* Mutant of Accept: the id is not kept for the dedupe.
AcceptForgetful(i) == unacked' = unacked \cup {i} /\ UNCHANGED seen

Accept(i) == seen' = seen \cup {i} /\ unacked' = unacked \cup {i}

-----------------------------------------------------------------------------
(* handle, admit, trySteerExisting and dispatchTriggered.                  *)

\* A message arrives, for the first time or again.
Receive(p, i) ==
  /\ pc[p][i] = "idle"
  /\ Goto(p, i, IF session[p] = "none" THEN "gate" ELSE "offer")
  /\ stale' = [stale EXCEPT ![p] = @ \ {i}]
  /\ UNCHANGED <<inbox, lease, sessionVars, leftovers, pending, acquiring, late>>

GateDrops(p, i) ==
  /\ pc[p][i] = "gate"
  /\ Goto(p, i, "idle")
  /\ UNCHANGED <<inbox, lease, sessionVars, leftovers, pending, acquiring, stale, late>>

\* The Inbox answers an enqueue: a duplicate ends the event.
Enqueue(p, i) ==
  /\ \/ /\ i \in seen /\ pc[p][i] \in {"offer", "gate"}
        /\ Goto(p, i, "idle")
        /\ UNCHANGED inbox
     \/ /\ i \notin seen /\ pc[p][i] = "offer"
        /\ Goto(p, i, "offered")
        /\ Accept(i)
     \/ /\ i \notin seen /\ pc[p][i] = "gate"
        /\ Goto(p, i, "touch")
        /\ Accept(i)
  /\ UNCHANGED <<lease, sessionVars, leftovers, pending, acquiring, stale, late>>

\* trySteerExisting after touchLatest: a running Session takes what is there.
Steer(p, i) ==
  /\ pc[p][i] = "offered"
  /\ i \notin stale[p] /\ session[p] = "running"
  /\ Goto(p, i, "idle")
  /\ prompted' = [prompted EXCEPT ![p] = @ \cup unacked]
  /\ UNCHANGED <<inbox, lease, session, trigger, leftovers, pending, acquiring,
                 stale, late>>

\* Any other Session only finds the item in its Inbox.
SteerNot(p, i) ==
  /\ pc[p][i] = "offered"
  /\ i \in stale[p] \/ session[p] # "running"
  /\ Goto(p, i, "idle")
  /\ LeaveToDrain(p, i)
  /\ UNCHANGED <<inbox, lease, sessionVars, leftovers, pending, acquiring, stale>>

\* dispatchTriggered after touchLatest: a Session appeared meanwhile.
LeaveToSession(p, i) ==
  /\ pc[p][i] = "touch"
  /\ session[p] # "none"
  /\ Goto(p, i, "idle")
  /\ LeaveToDrain(p, i)
  /\ UNCHANGED <<inbox, lease, sessionVars, leftovers, pending, acquiring, stale>>

\* scheduleDebouncedDispatch: a timer that runs is set again, for this event.
Schedule(p, i) ==
  /\ pc[p][i] = "touch"
  /\ session[p] = "none" /\ i \in Debounced
  /\ Goto(p, i, "idle")
  /\ pending' = [pending EXCEPT ![p] = i]
  /\ UNCHANGED <<inbox, lease, sessionVars, leftovers, acquiring, stale, late>>

\* Mutant of StartNow: returns when it has cleared a timer.
StartNowReturns(p, i) ==
  /\ pc[p][i] = "touch"
  /\ session[p] = "none" /\ i \notin Debounced
  /\ Goto(p, i, "idle")
  /\ pending' = [pending EXCEPT ![p] = None]
  /\ acquiring' = IF pending[p] # None THEN acquiring
                  ELSE [acquiring EXCEPT ![p] = @ \cup {i}]
  /\ UNCHANGED <<inbox, lease, sessionVars, leftovers, stale, late>>

\* clearPendingDispatch and startOrResumeSession, up to the acquire.
StartNow(p, i) ==
  /\ pc[p][i] = "touch"
  /\ session[p] = "none" /\ i \notin Debounced
  /\ Goto(p, i, "idle")
  /\ pending' = [pending EXCEPT ![p] = None]
  /\ acquiring' = [acquiring EXCEPT ![p] = @ \cup {i}]
  /\ UNCHANGED <<inbox, lease, sessionVars, leftovers, stale, late>>

Handle(p, i) ==
  \/ Enqueue(p, i) \/ Steer(p, i) \/ SteerNot(p, i) \/ LeaveToSession(p, i)
  \/ Schedule(p, i) \/ StartNow(p, i)

\* fireDebouncedDispatch.
TimerFires(p) ==
  /\ pending[p] # None
  /\ pending' = [pending EXCEPT ![p] = None]
  /\ \/ /\ session[p] = "none"
        /\ acquiring' = [acquiring EXCEPT ![p] = @ \cup {pending[p]}]
        /\ UNCHANGED late
     \/ /\ session[p] # "none"
        /\ LeaveToDrain(p, pending[p])
        /\ UNCHANGED acquiring
     \/ /\ "disable" \in Faults /\ session[p] = "none"
        /\ late' = late \cup unacked
        /\ UNCHANGED acquiring
  /\ UNCHANGED <<inbox, lease, sessionVars, leftovers, pc, stale>>

\* Mutant of Acquired: a null from acquire is not noticed.
AcquiredUnchecked(p, i) ==
  /\ i \in acquiring[p]
  /\ session[p] = "none"
  /\ acquiring' = [acquiring EXCEPT ![p] = @ \ {i}]
  /\ lease' = p
  /\ session' = [session EXCEPT ![p] = "starting"]
  /\ trigger' = [trigger EXCEPT ![p] = i]
  /\ UNCHANGED <<inbox, prompted, leftovers, pending, pc, stale, late>>

\* startOrResumeSession once the lease is ours: the Session is registered.
Acquired(p, i) ==
  /\ i \in acquiring[p]
  /\ lease = "free" /\ session[p] = "none"
  /\ acquiring' = [acquiring EXCEPT ![p] = @ \ {i}]
  /\ lease' = p
  /\ session' = [session EXCEPT ![p] = "starting"]
  /\ trigger' = [trigger EXCEPT ![p] = i]
  /\ UNCHANGED <<inbox, prompted, leftovers, pending, pc, stale, late>>

\* The lease is held; or it is ours, and given back at once, because another
\* event registered a Session while we waited.
NotAcquired(p, i) ==
  /\ i \in acquiring[p]
  /\ lease # "free" \/ session[p] # "none"
  /\ acquiring' = [acquiring EXCEPT ![p] = @ \ {i}]
  /\ LeaveToDrain(p, i)
  /\ UNCHANGED <<inbox, lease, sessionVars, leftovers, pending, pc, stale>>

-----------------------------------------------------------------------------
(* The Session, as far as the Dispatchers can tell.                        *)

\* dispose(): the registry forgets the Session, events that found it do not.
Leave(p) ==
  /\ session' = [session EXCEPT ![p] = "none"]
  /\ trigger' = [trigger EXCEPT ![p] = None]
  /\ prompted' = [prompted EXCEPT ![p] = {}]
  /\ stale' = [stale EXCEPT ![p] = {i \in Item : pc[p][i] \in {"offer", "offered"}}]

\* The first prompt: what is unacked, or the trigger when there is nothing.
FirstPrompt(p) ==
  /\ session[p] = "starting"
  /\ session' = [session EXCEPT ![p] = "running"]
  /\ trigger' = [trigger EXCEPT ![p] = None]
  /\ prompted' = [prompted EXCEPT ![p] = IF unacked = {} THEN {trigger[p]} ELSE unacked]
  /\ UNCHANGED <<inbox, lease, leftovers, pending, acquiring, pc, stale, late>>

\* abort(), then the release.
StartFails(p) ==
  /\ "start" \in Faults
  /\ session[p] = "starting"
  /\ Leave(p)
  /\ owes' = owes \cup {p}
  /\ late' = late \cup unacked
  /\ UNCHANGED <<inbox, lease, givenUp, pending, acquiring, pc>>

\* agent_end: flush and ack.
TurnEnds(p) ==
  /\ session[p] = "running"
  /\ session' = [session EXCEPT ![p] = "lingering"]
  /\ unacked' = unacked \ prompted[p]
  /\ prompted' = [prompted EXCEPT ![p] = {}]
  /\ UNCHANGED <<seen, lease, trigger, leftovers, pending, acquiring, pc, stale, late>>

\* promptPending, right after the ack or at the end of the linger.
NextTurn(p) ==
  /\ session[p] = "lingering"
  /\ unacked # {}
  /\ session' = [session EXCEPT ![p] = "running"]
  /\ prompted' = [prompted EXCEPT ![p] = unacked]
  /\ UNCHANGED <<inbox, lease, trigger, leftovers, pending, acquiring, pc, stale, late>>

\* Mutant of LingerOver: the Inbox is not looked at again.
LingerOverBlind(p) ==
  /\ session[p] = "lingering"
  /\ session' = [session EXCEPT ![p] = "stopping"]
  /\ UNCHANGED <<inbox, lease, trigger, prompted, leftovers, pending, acquiring,
                 pc, stale, late>>

LingerOver(p) ==
  /\ session[p] = "lingering"
  /\ unacked = {}
  /\ session' = [session EXCEPT ![p] = "stopping"]
  /\ UNCHANGED <<inbox, lease, trigger, prompted, leftovers, pending, acquiring, pc,
                 stale, late>>

\* abnormalShutdown: the prompted items are given up, the others stay.
Fold(p) ==
  /\ "fold" \in Faults
  /\ session[p] = "running"
  /\ session' = [session EXCEPT ![p] = "stopping"]
  /\ unacked' = unacked \ prompted[p]
  /\ prompted' = [prompted EXCEPT ![p] = {}]
  /\ late' = late \cup unacked'
  /\ UNCHANGED <<seen, lease, trigger, leftovers, pending, acquiring, pc, stale>>

ReleaseLease(p) ==
  /\ session[p] = "stopping"
  /\ session' = [session EXCEPT ![p] = "released"]
  /\ lease' = "free"
  /\ UNCHANGED <<inbox, trigger, prompted, leftovers, pending, acquiring, pc, stale, late>>

Dispose(p) ==
  /\ session[p] = "released"
  /\ Leave(p)
  /\ UNCHANGED <<inbox, lease, leftovers, pending, acquiring, pc, late>>

\* The exit handler disposes at once; ack and release are not awaited.
PiExits(p) ==
  /\ "exit" \in Faults
  /\ session[p] \in {"running", "lingering"}
  /\ Leave(p)
  /\ owes' = owes \cup {p}
  /\ givenUp' = [givenUp EXCEPT ![p] = @ \cup prompted[p]]
  /\ late' = late \cup (unacked \ prompted[p])
  /\ UNCHANGED <<inbox, lease, pending, acquiring, pc>>

ReleaseOwed(p) ==
  /\ p \in owes
  /\ owes' = owes \ {p}
  /\ lease' = "free"
  /\ UNCHANGED <<inbox, sessionVars, givenUp, pending, acquiring, pc, stale, late>>

AckOwed(p) ==
  /\ givenUp[p] # {}
  /\ givenUp' = [givenUp EXCEPT ![p] = {}]
  /\ unacked' = unacked \ givenUp[p]
  /\ UNCHANGED <<seen, lease, sessionVars, owes, pending, acquiring, pc, stale, late>>

SessionStep(p) ==
  \/ FirstPrompt(p) \/ TurnEnds(p) \/ NextTurn(p) \/ LingerOver(p)
  \/ ReleaseLease(p) \/ Dispose(p)

ExitStep(p) == ReleaseOwed(p) \/ AckOwed(p)

\* The process dies and is started again: only Control State survives.
Crash(p) ==
  /\ "crash" \in Faults
  /\ session' = [session EXCEPT ![p] = "none"]
  /\ trigger' = [trigger EXCEPT ![p] = None]
  /\ prompted' = [prompted EXCEPT ![p] = {}]
  /\ owes' = owes \ {p}
  /\ givenUp' = [givenUp EXCEPT ![p] = {}]
  /\ pending' = [pending EXCEPT ![p] = None]
  /\ acquiring' = [acquiring EXCEPT ![p] = {}]
  /\ pc' = [pc EXCEPT ![p] = [i \in Item |-> "idle"]]
  /\ stale' = [stale EXCEPT ![p] = {}]
  /\ lease' = IF lease = p THEN "lapsing" ELSE lease
  /\ late' = late \cup unacked
  /\ UNCHANGED inbox

\* The TTL of a dead holder's lease runs out.
Lapse ==
  /\ lease = "lapsing"
  /\ lease' = "free"
  /\ UNCHANGED <<inbox, sessionVars, leftovers, pending, acquiring, pc, stale, late>>

Next ==
  \/ \E p \in Process, i \in Item :
       \/ Receive(p, i) \/ GateDrops(p, i) \/ Handle(p, i)
       \/ Acquired(p, i) \/ NotAcquired(p, i)
  \/ \E p \in Process :
       \/ TimerFires(p) \/ SessionStep(p) \/ ExitStep(p)
       \/ StartFails(p) \/ Fold(p) \/ PiExits(p) \/ Crash(p)
  \/ Lapse

Spec == Init /\ [][Next]_vars

\* Handlers and timers run, and a Session moves on: a start ends, a turn is
\* ended by the turn timeout at the latest, a stopping Session stops.
Fairness ==
  /\ \A p \in Process, i \in Item :
       WF_vars(Handle(p, i)) /\ WF_vars(Acquired(p, i) \/ NotAcquired(p, i))
  /\ \A p \in Process : WF_vars(TimerFires(p)) /\ WF_vars(SessionStep(p))
  /\ \A p \in Process : WF_vars(ReleaseOwed(p)) /\ WF_vars(AckOwed(p))
  /\ WF_vars(Lapse)

FairSpec == Spec /\ Fairness

-----------------------------------------------------------------------------

\* Types; what is unacked was accepted, a starting Session has its trigger.
TypeOK ==
  /\ seen \subseteq Item /\ unacked \subseteq seen /\ late \subseteq Item
  /\ lease \in Process \cup {"free", "lapsing"}
  /\ session \in [Process -> Stage]
  /\ trigger \in [Process -> Item \cup {None}]
  /\ \A p \in Process : session[p] = "starting" => trigger[p] \in Item
  /\ prompted \in [Process -> SUBSET Item]
  /\ owes \subseteq Process /\ givenUp \in [Process -> SUBSET Item]
  /\ pending \in [Process -> Item \cup {None}]
  /\ acquiring \in [Process -> SUBSET Item]
  /\ pc \in [Process -> [Item -> Place]]
  /\ stale \in [Process -> SUBSET Item]

Holding(p) ==
  session[p] \in {"starting", "running", "lingering", "stopping"} \/ p \in owes

\* message-dispatch.md section 6: the Sessions of a key exclude each other, over
\* all processes, a process's own former Session and its restarts included.
OneSessionPerKey ==
  \A p, q \in Process : Holding(p) /\ Holding(q) => p = q

\* No wake-up is lost: while an item waits in no turn, somebody is about to
\* drain the Inbox - a Session, a debounce timer, a start that awaits the lease
\* or an event on its way there - unless the item was left to a Session past
\* its last drain, or a fault ended the run that should have taken it.
WaitingHasWaker ==
  \A i \in unacked \ late :
    \/ \E p \in Process : Draining(p) \/ pending[p] # None \/ acquiring[p] # {}
    \/ \E p \in Process : i \in givenUp[p]
    \/ \E p \in Process, j \in Item : pc[p][j] \in {"offered", "touch"}

\* Each accepted item gets through its turn, with the same exception.
EventuallyAcked ==
  \A i \in Item : i \in unacked ~> i \notin unacked \/ i \in late

\* message-dispatch.md section 8: what was acked is not processed again.
AckedNotRerun ==
  [][\A p \in Process : prompted'[p] \ prompted[p] \subseteq unacked]_vars

\* message-dispatch.md section 5: nothing is missed, because every wake-up that
\* is dropped leaves its item to a drain that comes.
NothingLeftBehind == \A i \in Item : i \in unacked ~> i \notin unacked

=============================================================================
