------------------------------ MODULE Affinity ------------------------------
(***************************************************************************)
(* The choice of the Session for the events of one channel in thread mode  *)
(* with affinity.scope "channel", and the debounce of its start            *)
(* (src/dispatch/dispatcher.ts, src/dispatch/policy.ts).  The key of a     *)
(* thread is its root post.  An action is the code between two awaits of   *)
(* one event's handling; the store answers at the start of the action that *)
(* uses the answer, except where the code keeps the answer (snap).         *)
(*                                                                         *)
(* A Session is its entry in the registry: its lease, its Inbox and its    *)
(* inside are in Dispatcher and Session.  The process is up to date with   *)
(* its timers: no tick passes one that is due.                             *)
(***************************************************************************)
EXTENDS Naturals

CONSTANTS
  Post,        \* posts at the channel's top level; also the keys
  Reply,       \* posts in a thread
  Reaction,    \* reactions to top-level posts that the gate lets through
  RootOf,      \* the post a reply or a reaction belongs to
  Mentioning,  \* events that mention the bot: not debounced
  DebounceSec, \* session.affinity.debounceSec, in ticks
  Window,      \* session.affinity.windowSec, in ticks
  MaxTime,     \* bound on the clock
  Faults,      \* what may go wrong, see FaultKind
  None

FaultKind ==
  {"store",   \* resolve, bind or touchLatest fails, which is only logged
   "restart"} \* the runner dies and comes back

Event == Post \cup Reply \cup Reaction

ASSUME EventAssumption ==
  /\ Post \cap Reply = {} /\ Post \cap Reaction = {} /\ Reply \cap Reaction = {}
  /\ RootOf \in [Reply \cup Reaction -> Post]
  /\ Mentioning \subseteq Post \cup Reply
  /\ None \notin Post \cup Nat
ASSUME TimeAssumption ==
  DebounceSec \in Nat /\ Window \in Nat /\ MaxTime \in Nat
ASSUME FaultsAssumption == Faults \subseteq FaultKind

VARIABLES
  now,
  \* Control State
  bound,    \* thread to Session: ThreadStore.bind
  latest,   \* the channel's latest Session and its last activity
  \* the Dispatcher
  live,     \* keys in the registry
  ending,   \* keys whose Session left it and is yet to be marked as ended
  due,      \* when the debounce timer of a key fires, or None
  first,    \* firstPendingAtMs of that timer
  \* each event
  pc,       \* where its handling is
  key,      \* its sessionKey so far
  snap,     \* the latest Session it has read
  \* history
  home,     \* the key under which an event was enqueued, or None
  active,   \* last activity of each key, or None
  raced,    \* replies and reactions that chose a key before the root post was
            \* enqueued, or without an answer of the store
  rebound   \* threads bound by another event than their root post

store == <<bound, latest>>
registry == <<live, ending>>
timers == <<due, first>>
history == <<home, active, raced, rebound>>
vars == <<now, store, registry, timers, pc, key, snap, history>>

Time == 0..MaxTime
NoLatest == [key |-> None, at |-> 0]
Latest == [key : Post \cup {None}, at : Time]

Place == {"new", "fetched", "deliver", "latest", "decide", "bind",
          "offer", "offered", "enqueue", "touch", "done"}

\* Mutant of Derived: a reaction is taken for a post.
DerivedOwnId(e) == IF e \in Reply THEN RootOf[e] ELSE e

\* sessionKeyOf in thread mode; materializeReaction gives a reaction the id of
\* the post it is on.
Derived(e) == IF e \in Post THEN e ELSE RootOf[e]

Init ==
  /\ now = 0
  /\ bound = [k \in Post |-> None] /\ latest = NoLatest
  /\ live = {} /\ ending = {}
  /\ due = [k \in Post |-> None] /\ first = [k \in Post |-> 0]
  /\ pc = [e \in Event |-> "new"]
  /\ key = [e \in Event |-> Derived(e)]
  /\ snap = [e \in Event |-> NoLatest]
  /\ home = [e \in Event |-> None] /\ active = [k \in Post |-> None]
  /\ raced = {} /\ rebound = {}

Goto(e, place) == pc' = [pc EXCEPT ![e] = place]

-----------------------------------------------------------------------------
(* computeDispatchDelayMs.                                                 *)

\* Mutant of Least: the later of the two.
LeastSwapped(a, b) == IF a < b THEN b ELSE a

Least(a, b) == IF a < b THEN a ELSE b

DispatchDelay(at, since) ==
  LET slideUntil == at + DebounceSec
      hardCapUntil == since + 3 * DebounceSec
      until == Least(slideUntil, hardCapUntil)
  IN  IF until > at THEN until - at ELSE 0

-----------------------------------------------------------------------------
(* The Gate stage: selectSession, delivery to a running Session, the gate. *)
(* An event that the gate drops changes nothing and stays where it is.     *)

\* A reaction is judged before its key is known; then its post is fetched.
JudgeReaction(e) ==
  /\ e \in Reaction /\ pc[e] = "new"
  /\ Goto(e, "fetched")
  /\ UNCHANGED <<now, store, registry, timers, key, snap, history>>

\* selectSession: the thread's binding, or the derived key when there is none
\* or the store fails.
SelectSession(e) ==
  /\ pc[e] = IF e \in Reaction THEN "fetched" ELSE "new"
  /\ LET root == Derived(e)
         Choose(k, missed) ==
           /\ key' = [key EXCEPT ![e] = k]
           /\ raced' = IF e # root /\ (missed \/ home[root] = None)
                       THEN raced \cup {e} ELSE raced
     IN  \/ Choose(IF bound[root] = None THEN root ELSE bound[root], FALSE)
         \/ "store" \in Faults /\ Choose(root, TRUE)
  /\ Goto(e, "deliver")
  /\ UNCHANGED <<now, store, registry, timers, snap, home, active, rebound>>

\* trySteerExisting: is there a Session?  Otherwise the gate is next, for a
\* message, and resolveAffinityTarget, which looks only at events without a
\* threadTs.
Deliver(e) ==
  /\ pc[e] = "deliver"
  /\ Goto(e, IF key[e] \in live THEN "offer"
             ELSE IF e \in Reply THEN "enqueue" ELSE "latest")
  /\ UNCHANGED <<now, store, registry, timers, key, snap, history>>

-----------------------------------------------------------------------------
(* dispatchTriggered.                                                      *)

ReadLatest(e) ==
  /\ pc[e] = "latest"
  /\ snap' = [snap EXCEPT ![e] = latest]
  /\ Goto(e, "decide")
  /\ UNCHANGED <<now, store, registry, timers, key, history>>

\* Mutant of WithinWindow: any Session of the channel will do.
WithinWindowAlways(l) == TRUE

\* The activity of a Session that ended, or of one whose end was not recorded.
\* markLatestEnded writes endedAt and lastActiveAt alike, so one time is kept.
WithinWindow(l) == now - l.at <= Window

\* resolveAffinityTarget, after its read.
Joins(e) ==
  LET l == snap[e]
  IN  /\ l.key \notin {None, key[e]}
      /\ l.key \in live \/ due[l.key] # None \/ WithinWindow(l)

Decide(e) ==
  /\ pc[e] = "decide"
  /\ \/ Joins(e) /\ Goto(e, "bind") /\ UNCHANGED snap
     \/ ~Joins(e) /\ Goto(e, "enqueue") /\ snap' = [snap EXCEPT ![e] = NoLatest]
  /\ UNCHANGED <<now, store, registry, timers, key, history>>

\* Mutant of BindThread: the joined thread is not recorded.
BindThreadNever(k, target) == UNCHANGED bound

BindThread(k, target) == bound' = [bound EXCEPT ![k] = target]

\* bindThread records the key the event came with, which for an event of a
\* joined thread is not the key of its own thread.
Join(e) ==
  /\ pc[e] = "bind"
  /\ LET target == snap[e].key
     IN  /\ \/ /\ BindThread(key[e], target)
               /\ rebound' = IF key[e] = e THEN rebound
                             ELSE rebound \cup {key[e]}
               /\ UNCHANGED raced
            \/ /\ "store" \in Faults
               /\ raced' = raced \cup {r \in Reply \cup Reaction : RootOf[r] = Derived(e)}
               /\ UNCHANGED <<bound, rebound>>
         /\ key' = [key EXCEPT ![e] = target]
         /\ Goto(e, IF target \in live THEN "offer" ELSE "enqueue")
  /\ snap' = [snap EXCEPT ![e] = NoLatest]
  /\ UNCHANGED <<now, latest, registry, timers, home, active>>

\* Each item is new here: a redelivery is in Dispatcher and FirestoreInbox.
Enqueue(e) ==
  /\ pc[e] \in {"offer", "enqueue"}
  /\ home' = [home EXCEPT ![e] = key[e]]
  /\ Goto(e, IF pc[e] = "offer" THEN "offered" ELSE "touch")
  /\ UNCHANGED <<now, store, registry, timers, key, snap, active, raced, rebound>>

TouchLatest(e) ==
  /\ active' = [active EXCEPT ![key[e]] = now]
  /\ \/ latest' = [key |-> key[e], at |-> now]
     \/ "store" \in Faults /\ UNCHANGED latest

\* The end of trySteerExisting; the steer is in Session.
Offered(e) ==
  /\ pc[e] = "offered"
  /\ TouchLatest(e)
  /\ Goto(e, "done")
  /\ UNCHANGED <<now, bound, registry, timers, key, snap, home, raced, rebound>>

\* scheduleDebouncedDispatch.
Schedule(k) ==
  LET since == IF due[k] = None THEN now ELSE first[k]
  IN  /\ due' = [due EXCEPT ![k] = now + DispatchDelay(now, since)]
      /\ first' = [first EXCEPT ![k] = since]

\* clearPendingDispatch, also what a timer does before it fires.
ClearPending(k) ==
  due' = [due EXCEPT ![k] = None] /\ first' = [first EXCEPT ![k] = 0]

\* The end of dispatchTriggered: the Session that started meanwhile drains the
\* item, or a timer is set, or the Session starts.
Touch(e) ==
  /\ pc[e] = "touch"
  /\ TouchLatest(e)
  /\ \/ key[e] \in live /\ UNCHANGED <<live, timers>>
     \/ key[e] \notin live /\ e \notin Mentioning /\ Schedule(key[e]) /\ UNCHANGED live
     \/ key[e] \notin live /\ e \in Mentioning
        /\ ClearPending(key[e]) /\ live' = live \cup {key[e]}
  /\ Goto(e, "done")
  /\ UNCHANGED <<now, bound, ending, key, snap, home, raced, rebound>>

\* fireDebouncedDispatch: nothing when a Session is there or the channel was
\* disabled.
TimerFires(k) ==
  /\ due[k] # None /\ due[k] <= now
  /\ ClearPending(k)
  /\ \/ live' = live \cup {k}
     \/ UNCHANGED live
  /\ UNCHANGED <<now, store, ending, pc, key, snap, history>>

-----------------------------------------------------------------------------
(* The end of a Session, the clock, a restart.                             *)

\* onDisposed.
Dispose(k) ==
  /\ k \in live /\ k \notin ending
  /\ live' = live \ {k} /\ ending' = ending \cup {k}
  /\ UNCHANGED <<now, store, timers, pc, key, snap, history>>

\* Mutant of IsLatest: an old Session's end takes the channel back.
IsLatestAlways(k) == TRUE

IsLatest(k) == latest.key = k

\* onEnded: markLatestEnded leaves the record of another Session alone.
MarkEnded(k) ==
  /\ k \in ending
  /\ ending' = ending \ {k}
  /\ active' = [active EXCEPT ![k] = now]
  /\ \/ IsLatest(k) /\ latest' = [key |-> k, at |-> now]
     \/ ~IsLatest(k) /\ UNCHANGED latest
     \/ "store" \in Faults /\ UNCHANGED latest
  /\ UNCHANGED <<now, bound, live, timers, pc, key, snap, home, raced, rebound>>

\* What the process knew is gone, and with it the events it was handling.
Restart ==
  /\ "restart" \in Faults
  /\ live' = {} /\ ending' = {}
  /\ due' = [k \in Post |-> None] /\ first' = [k \in Post |-> 0]
  /\ snap' = [e \in Event |-> NoLatest]
  /\ pc' = [e \in Event |-> IF pc[e] = "new" THEN "new" ELSE "done"]
  /\ UNCHANGED <<now, store, key, history>>

Tick ==
  /\ now < MaxTime
  /\ \A k \in Post : due[k] # None => now < due[k]
  /\ now' = now + 1
  /\ UNCHANGED <<store, registry, timers, pc, key, snap, history>>

Handle(e) ==
  \/ JudgeReaction(e) \/ SelectSession(e) \/ Deliver(e)
  \/ ReadLatest(e) \/ Decide(e) \/ Join(e)
  \/ Enqueue(e) \/ Offered(e) \/ Touch(e)

Next ==
  \/ \E e \in Event : Handle(e)
  \/ \E k \in Post : TimerFires(k) \/ Dispose(k) \/ MarkEnded(k)
  \/ Tick
  \/ Restart

Spec == Init /\ [][Next]_vars

-----------------------------------------------------------------------------

\* Timers lie within the horizon plus one debounce.
TypeOK ==
  /\ now \in Time
  /\ bound \in [Post -> Post \cup {None}] /\ latest \in Latest
  /\ live \subseteq Post /\ ending \subseteq Post
  /\ due \in [Post -> Nat \cup {None}] /\ first \in [Post -> Time]
  /\ pc \in [Event -> Place] /\ key \in [Event -> Post]
  /\ snap \in [Event -> Latest]
  /\ home \in [Event -> Post \cup {None}]
  /\ active \in [Post -> Time \cup {None}]
  /\ raced \subseteq Event /\ rebound \subseteq Post

\* message-dispatch.md section 4: however many messages slide the timer, it
\* fires no later than three debounce times after the first, and is not set
\* into the past.
HardCap ==
  \A k \in Post : due[k] # None =>
    /\ now <= due[k] /\ due[k] <= now + DebounceSec
    /\ first[k] <= now /\ due[k] <= first[k] + 3 * DebounceSec

\* message-dispatch.md section 3.2: what is said in a thread goes where its
\* root post went.  Excepted are replies that ran ahead of the root, and a
\* thread that was joined again through a reaction (BindsOwnThread).
ThreadStaysTogether ==
  \A r \in Reply :
    home[r] # None /\ r \notin raced /\ RootOf[r] \notin rebound
      => home[r] = home[RootOf[r]]

\* An ended Session is joined only within the window of its last activity,
\* although latest was read before other events and Sessions went on.
JoinsOnlyRecent ==
  [][\A e \in Event : pc[e] = "decide" /\ pc'[e] = "bind" =>
       LET k == snap[e].key
       IN  k \in live \/ due[k] # None \/ now <= active[k] + Window]_vars

\* message-dispatch.md section 3.2: latest is the last Session that was active;
\* the end of an older one, however late it is recorded, does not take it back.
LatestFollowsMessages ==
  [][latest'.key # latest.key =>
       \E e \in Event : pc[e] \in {"touch", "offered"} /\ latest'.key = key[e]]_vars

\* message-dispatch.md section 3.2: a join records the thread of that message.
BindsOwnThread ==
  [][\A k \in Post : bound'[k] # bound[k] =>
       \E e \in Event : pc[e] = "bind" /\ Derived(e) = k]_vars
=============================================================================
