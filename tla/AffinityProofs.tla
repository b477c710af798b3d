--------------------------- MODULE AffinityProofs ---------------------------
(***************************************************************************)
(* Proofs about Affinity, for every set of events, every window and every  *)
(* debounce time: the hard cap of the debounce, what an ended Session may  *)
(* be joined for, who becomes the latest Session of a channel, and that a  *)
(* thread stays with the Session of its root post.                         *)
(***************************************************************************)
EXTENDS Affinity, TLAPS

\* A join has read a Session.
JoinHasTarget == \A e \in Event : pc[e] = "bind" => snap[e].key \in Post

LEMMA DerivedIsPost == ASSUME NEW e \in Event PROVE Derived(e) \in Post
BY EventAssumption DEF Derived, Event

\* computeDispatchDelayMs is a time, and what it adds stays below both limits.
LEMMA DelayBounds ==
  ASSUME NEW at \in Nat, NEW since \in Nat
  PROVE  /\ DispatchDelay(at, since) \in Nat
         /\ DispatchDelay(at, since) <= DebounceSec
         /\ at <= since + 3 * DebounceSec =>
              at + DispatchDelay(at, since) <= since + 3 * DebounceSec
BY TimeAssumption DEF DispatchDelay, Least

\* No state is a mistake of types, and whatever joins has a Session to join.
LEMMA TypeStep ==
  ASSUME TypeOK, JoinHasTarget, [Next]_vars PROVE TypeOK' /\ JoinHasTarget'
<1> USE DerivedIsPost, EventAssumption
        DEF TypeOK, JoinHasTarget, Place, Latest, NoLatest, Goto
<1>1. ASSUME NEW e \in Event, JudgeReaction(e) PROVE TypeOK' /\ JoinHasTarget'
  BY <1>1 DEF JudgeReaction, store, registry, timers, history
<1>2. ASSUME NEW e \in Event, SelectSession(e) PROVE TypeOK' /\ JoinHasTarget'
  BY <1>2 DEF SelectSession, store, registry, timers
<1>3. ASSUME NEW e \in Event, Deliver(e) PROVE TypeOK' /\ JoinHasTarget'
  BY <1>3 DEF Deliver, store, registry, timers, history
<1>4. ASSUME NEW e \in Event, ReadLatest(e) PROVE TypeOK' /\ JoinHasTarget'
  BY <1>4 DEF ReadLatest, store, registry, timers, history
<1>5. ASSUME NEW e \in Event, Decide(e) PROVE TypeOK' /\ JoinHasTarget'
  <2>1. UNCHANGED <<now, store, registry, timers, key, history>>
    BY <1>5 DEF Decide
  <2>2. CASE Joins(e) /\ pc' = [pc EXCEPT ![e] = "bind"] /\ snap' = snap
    <3>1. snap[e].key \in Post
      BY <2>2 DEF Joins
    <3> QED BY <2>1, <2>2, <3>1 DEF store, registry, timers, history
  <2>3. CASE /\ pc' = [pc EXCEPT ![e] = "enqueue"]
             /\ snap' = [snap EXCEPT ![e] = NoLatest]
    <3>1. snap' \in [Event -> Latest]
      BY <2>3, TimeAssumption DEF Time
    <3> QED BY <2>1, <2>3, <3>1 DEF store, registry, timers, history
  <2> QED BY <1>5, <2>2, <2>3 DEF Decide
<1>6. ASSUME NEW e \in Event, Join(e) PROVE TypeOK' /\ JoinHasTarget'
  <2>1. snap[e].key \in Post /\ key[e] \in Post
    BY <1>6 DEF Join
  <2>2. bound' \in [Post -> Post \cup {None}] /\ rebound' \subseteq Post
    BY <1>6, <2>1 DEF Join, BindThread
  <2>3. raced' \subseteq Event
    BY <1>6 DEF Join, Event
  <2>4. key' \in [Event -> Post] /\ snap' \in [Event -> Latest]
    BY <1>6, <2>1, TimeAssumption DEF Join, Time
  <2>5. pc' \in [Event -> Place] /\ \A d \in Event : d # e => pc'[d] = pc[d] /\ snap'[d] = snap[d]
    BY <1>6 DEF Join
  <2>6. pc'[e] # "bind" /\ UNCHANGED <<now, latest, live, ending, due, first, home, active>>
    BY <1>6 DEF Join, registry, timers
  <2> QED BY <2>2, <2>3, <2>4, <2>5, <2>6
<1>7. ASSUME NEW e \in Event, Enqueue(e) PROVE TypeOK' /\ JoinHasTarget'
  BY <1>7 DEF Enqueue, store, registry, timers
<1>8. ASSUME NEW e \in Event, Offered(e) PROVE TypeOK' /\ JoinHasTarget'
  BY <1>8 DEF Offered, TouchLatest, registry, timers
<1>9. ASSUME NEW e \in Event, Touch(e) PROVE TypeOK' /\ JoinHasTarget'
  <2>1. now \in Nat /\ \A k \in Post : first[k] \in Nat
    BY TimeAssumption DEF Time
  <2>2. \A k \in Post : Schedule(k) =>
          due' \in [Post -> Nat \cup {None}] /\ first' \in [Post -> Time]
    <3> SUFFICES ASSUME NEW k \in Post, Schedule(k)
                 PROVE  due' \in [Post -> Nat \cup {None}] /\ first' \in [Post -> Time]
      OBVIOUS
    <3> DEFINE since == IF due[k] = None THEN now ELSE first[k]
    <3>1. since \in Time /\ since \in Nat
      BY <2>1
    <3> HIDE DEF since
    <3>2. now + DispatchDelay(now, since) \in Nat
      <4>1. now \in Nat
        BY <2>1
      <4>2. DispatchDelay(now, since) \in Nat
        BY <3>1, <4>1, DelayBounds
      <4> QED BY <4>1, <4>2
    <3>3. /\ due' = [due EXCEPT ![k] = now + DispatchDelay(now, since)]
          /\ first' = [first EXCEPT ![k] = since]
      BY DEF Schedule, since
    <3> QED BY <3>1, <3>2, <3>3
  <2>3. \A k \in Post : ClearPending(k) =>
          due' \in [Post -> Nat \cup {None}] /\ first' \in [Post -> Time]
    BY TimeAssumption DEF ClearPending, Time
  <2>4. due' \in [Post -> Nat \cup {None}] /\ first' \in [Post -> Time]
    BY <1>9, <2>2, <2>3 DEF Touch, timers
  <2>5. live' \subseteq Post
    BY <1>9 DEF Touch
  <2>6. latest' \in Latest /\ active' \in [Post -> Time \cup {None}]
    BY <1>9 DEF Touch, TouchLatest
  <2>7. pc' = [pc EXCEPT ![e] = "done"] /\ UNCHANGED <<now, bound, ending, key, snap, home, raced, rebound>>
    BY <1>9 DEF Touch
  <2> QED BY <2>4, <2>5, <2>6, <2>7
<1>10. ASSUME NEW k \in Post, TimerFires(k) PROVE TypeOK' /\ JoinHasTarget'
  BY <1>10, TimeAssumption DEF TimerFires, ClearPending, store, history, Time
<1>11. ASSUME NEW k \in Post, Dispose(k) PROVE TypeOK' /\ JoinHasTarget'
  BY <1>11 DEF Dispose, store, timers, history
<1>12. ASSUME NEW k \in Post, MarkEnded(k) PROVE TypeOK' /\ JoinHasTarget'
  BY <1>12 DEF MarkEnded, timers
<1>13. ASSUME Tick PROVE TypeOK' /\ JoinHasTarget'
  BY <1>13, TimeAssumption DEF Tick, store, registry, timers, history, Time
<1>14. ASSUME Restart PROVE TypeOK' /\ JoinHasTarget'
  BY <1>14, TimeAssumption DEF Restart, store, history, Time
<1>15. ASSUME UNCHANGED vars PROVE TypeOK' /\ JoinHasTarget'
  BY <1>15 DEF vars, store, registry, timers, history
<1> QED BY <1>1, <1>2, <1>3, <1>4, <1>5, <1>6, <1>7, <1>8, <1>9, <1>10,
           <1>11, <1>12, <1>13, <1>14, <1>15 DEF Next, Handle

\* Every variable has its type.
THEOREM TypeCorrect == Spec => [](TypeOK /\ JoinHasTarget)
<1>1. Init => TypeOK /\ JoinHasTarget
  BY DerivedIsPost, TimeAssumption
     DEF Init, TypeOK, JoinHasTarget, Place, Latest, NoLatest, Time
<1> QED BY <1>1, TypeStep, PTL DEF Spec
-----------------------------------------------------------------------------
(* The debounce.                                                           *)

\* scheduleDebouncedDispatch: however many messages slide the timer of a key,
\* it fires within one debounce time from now and three from the first of
\* them, and never in the past.
THEOREM DebounceIsCapped == Spec => []HardCap
<1>1. Init => HardCap
  BY DEF Init, HardCap
<1>2. TypeOK /\ HardCap /\ [Next]_vars => HardCap'
  <2> SUFFICES ASSUME TypeOK, HardCap, [Next]_vars PROVE HardCap'
    OBVIOUS
  <2>0. /\ now \in Nat /\ DebounceSec \in Nat
        /\ \A k \in Post : first[k] \in Nat /\ due[k] \in Nat \cup {None}
    BY TimeAssumption DEF TypeOK, Time
  <2>1. ASSUME NEW k \in Post, Schedule(k), now' = now PROVE HardCap'
    <3> DEFINE since == IF due[k] = None THEN now ELSE first[k]
    <3>1. since \in Nat /\ since <= now /\ now <= since + 3 * DebounceSec
      BY <2>0 DEF HardCap
    <3> HIDE DEF since
    <3>2. PICK until \in Nat :
            /\ until = now + DispatchDelay(now, since)
            /\ now <= until /\ until <= now + DebounceSec
            /\ until <= since + 3 * DebounceSec
      <4>1. /\ DispatchDelay(now, since) \in Nat
            /\ DispatchDelay(now, since) <= DebounceSec
            /\ now + DispatchDelay(now, since) <= since + 3 * DebounceSec
        BY <2>0, <3>1, DelayBounds
      <4> QED BY <2>0, <4>1
    <3>3. /\ due' = [due EXCEPT ![k] = until]
          /\ first' = [first EXCEPT ![k] = since]
      BY <2>1, <3>2 DEF Schedule, since
    <3> QED BY <2>0, <2>1, <3>1, <3>2, <3>3 DEF HardCap, TypeOK
  <2>2. ASSUME NEW k \in Post, ClearPending(k), now' = now PROVE HardCap'
    BY <2>0, <2>2 DEF HardCap, ClearPending, TypeOK
  <2>3. CASE UNCHANGED <<now, timers>>
    BY <2>3 DEF HardCap, timers
  <2>4. ASSUME NEW e \in Event, Touch(e) PROVE HardCap'
    BY <2>1, <2>2, <2>3, <2>4 DEF Touch, timers, TypeOK
  <2>5. ASSUME NEW k \in Post, TimerFires(k) PROVE HardCap'
    BY <2>2, <2>5 DEF TimerFires
  <2>6. CASE Tick
    BY <2>0, <2>6 DEF Tick, HardCap, timers
  <2>7. CASE Restart
    BY <2>7 DEF Restart, HardCap
  <2> QED BY <2>3, <2>4, <2>5, <2>6, <2>7
          DEF Next, Handle, JudgeReaction, SelectSession, Deliver, ReadLatest,
              Decide, Join, Enqueue, Offered, Dispose, MarkEnded, vars, timers
<1> QED BY <1>1, <1>2, TypeCorrect, PTL DEF Spec

-----------------------------------------------------------------------------
(* The latest Session of the channel.                                      *)

\* Nothing is recorded as later than the last activity of its Session, and
\* that lies in the past.
Recorded(l) == l.key # None => active[l.key] # None /\ l.at <= active[l.key]

Activity ==
  /\ \A k \in Post : active[k] # None => active[k] <= now
  /\ Recorded(latest)
  /\ \A e \in Event : Recorded(snap[e])

LEMMA ActivityStep ==
  ASSUME TypeOK, Activity, [Next]_vars PROVE Activity'
<1>0. /\ now \in Nat
      /\ \A k \in Post : active[k] \in Nat \cup {None}
      /\ latest.key \in Post \cup {None} /\ latest.at \in Nat
      /\ \A e \in Event : snap[e].key \in Post \cup {None} /\ snap[e].at \in Nat
  BY TimeAssumption DEF TypeOK, Latest, Time
<1>1. ASSUME NEW k \in Post, active' = [active EXCEPT ![k] = now],
             \/ latest' = [key |-> k, at |-> now]
             \/ latest' = latest,
             UNCHANGED <<now, snap>>
      PROVE  Activity'
  <2>1. ASSUME NEW l \in Latest, Recorded(l), l.key # None
        PROVE  active'[l.key] # None /\ l.at <= active'[l.key]
    <3>1. l.key \in Post /\ l.at \in Nat
      BY <2>1, TimeAssumption DEF Latest, Time
    <3>2. active[l.key] # None /\ l.at <= active[l.key] /\ active[l.key] <= now
      BY <2>1, <3>1 DEF Activity, Recorded
    <3>3. active'[l.key] \in {now, active[l.key]}
      BY <1>1, <3>1 DEF TypeOK
    <3>4. now # None
      BY <1>0, EventAssumption
    <3> QED BY <1>0, <3>1, <3>2, <3>3, <3>4
  <2>2. Recorded(latest)'
    <3>1. CASE latest' = latest
      BY <2>1, <3>1 DEF Activity, Recorded, TypeOK
    <3>2. CASE latest' = [key |-> k, at |-> now]
      BY <1>0, <1>1, <3>2, EventAssumption DEF Recorded, TypeOK
    <3> QED BY <1>1, <3>1, <3>2
  <2>3. \A e \in Event : Recorded(snap[e])'
    BY <1>1, <2>1 DEF Activity, Recorded, TypeOK
  <2>4. \A j \in Post : active'[j] # None => active'[j] <= now
    BY <1>0, <1>1 DEF Activity, TypeOK
  <2> QED BY <1>1, <2>2, <2>3, <2>4 DEF Activity
<1>2. ASSUME UNCHANGED <<latest, active>>, now' \in Nat, now <= now',
             \A e \in Event : snap'[e] \in {snap[e], latest, NoLatest}
      PROVE  Activity'
  BY <1>0, <1>2 DEF Activity, Recorded, NoLatest
<1>3. ASSUME NEW e \in Event, ReadLatest(e) \/ Decide(e) \/ Join(e)
      PROVE  Activity'
  BY <1>0, <1>2, <1>3
     DEF ReadLatest, Decide, Join, TypeOK, store, history
<1>4. ASSUME NEW e \in Event, Offered(e) \/ Touch(e) PROVE Activity'
  BY <1>1, <1>4 DEF Offered, Touch, TouchLatest, TypeOK
<1>5. ASSUME NEW k \in Post, MarkEnded(k) PROVE Activity'
  BY <1>1, <1>5 DEF MarkEnded
<1>6. CASE Restart
  BY <1>0, <1>2, <1>6 DEF Restart, store, history
<1>7. CASE Tick
  BY <1>0, <1>2, <1>7 DEF Tick, store, history
<1>8. CASE UNCHANGED <<now, latest, snap, active>>
  BY <1>0, <1>2, <1>8
<1> QED BY <1>3, <1>4, <1>5, <1>6, <1>7, <1>8
        DEF Next, Handle, JudgeReaction, SelectSession, Deliver, Enqueue,
            TimerFires, Dispose, vars, store, registry, timers, history

\* resolveAffinityTarget: a message joins a Session that has ended only within
\* the window of its last activity, although it read latest before.
THEOREM JoinsRecent == Spec => JoinsOnlyRecent
<1>1. Init => Activity
  BY DEF Init, Activity, Recorded, NoLatest
<1>2. TypeOK /\ Activity /\ [Next]_vars =>
        \A e \in Event : pc[e] = "decide" /\ pc'[e] = "bind" =>
          LET k == snap[e].key
          IN  k \in live \/ due[k] # None \/ now <= active[k] + Window
  <2> SUFFICES ASSUME TypeOK, Activity, [Next]_vars, NEW e \in Event,
                      pc[e] = "decide", pc'[e] = "bind",
                      snap[e].key \notin live, due[snap[e].key] = None
               PROVE  now <= active[snap[e].key] + Window
    OBVIOUS
  <2>1. Decide(e)
    BY DEF Next, Handle, JudgeReaction, SelectSession, Deliver, ReadLatest,
           Decide, Join, Enqueue, Offered, Touch, TimerFires, Dispose, MarkEnded,
           Restart, Tick, vars, Goto, TypeOK
  <2>2. Joins(e)
    BY <2>1 DEF Decide, Goto, TypeOK
  <2>3. snap[e].key \in Post /\ now - snap[e].at <= Window
    BY <2>2 DEF Joins, WithinWindow, TypeOK, Latest
  <2>4. /\ now \in Nat /\ snap[e].at \in Nat /\ Window \in Nat
        /\ active[snap[e].key] \in Nat /\ snap[e].at <= active[snap[e].key]
    <3>1. now \in Nat /\ snap[e].at \in Nat /\ Window \in Nat
      BY TimeAssumption DEF TypeOK, Time, Latest
    <3>2. active[snap[e].key] # None /\ snap[e].at <= active[snap[e].key]
      BY <2>3, EventAssumption DEF Activity, Recorded
    <3>3. active[snap[e].key] \in Nat
      BY <2>3, <3>2, TimeAssumption DEF TypeOK, Time
    <3> QED BY <3>1, <3>2, <3>3
  <2> QED BY <2>3, <2>4
<1> QED BY <1>1, <1>2, ActivityStep, TypeCorrect, PTL DEF Spec, JoinsOnlyRecent

\* touchLatestSession, markLatestEnded: only a message makes another Session
\* the latest of its channel, and it is the one the message went to.
THEOREM MessagesDecideLatest == Spec => LatestFollowsMessages
<1>1. TypeOK /\ [Next]_vars =>
        (latest'.key # latest.key =>
           \E e \in Event : pc[e] \in {"touch", "offered"} /\ latest'.key = key[e])
  <2> SUFFICES ASSUME TypeOK, [Next]_vars, latest'.key # latest.key
               PROVE  \E e \in Event : pc[e] \in {"touch", "offered"}
                                       /\ latest'.key = key[e]
    OBVIOUS
  <2>1. \A k \in Post : ~MarkEnded(k)
    BY DEF MarkEnded, IsLatest
  <2>2. ASSUME NEW e \in Event, Offered(e) \/ Touch(e)
        PROVE  \E d \in Event : pc[d] \in {"touch", "offered"}
                               /\ latest'.key = key[d]
    BY <2>2 DEF Offered, Touch, TouchLatest
  <2> QED BY <2>1, <2>2
          DEF Next, Handle, JudgeReaction, SelectSession, Deliver, ReadLatest,
              Decide, Join, Enqueue, TimerFires, Dispose, Restart, Tick, vars, store
<1> QED BY <1>1, TypeCorrect, PTL DEF Spec, LatestFollowsMessages

-----------------------------------------------------------------------------
(* Threads.                                                                *)

\* The Session that the messages of a thread are sent to.
SessionOf(p) == IF bound[p] = None THEN p ELSE bound[p]

\* Until a root post has joined, nothing is known of its thread.
RootIsUnbound ==
  \A p \in Post \ rebound :
    pc[p] \in {"new", "deliver", "latest", "decide", "bind"}
      => bound[p] = None /\ key[p] = p

RepliesDoNotJoin == \A r \in Reply : pc[r] \notin {"latest", "decide", "bind"}

EnqueuedKeepsKey ==
  \A e \in Event : home[e] # None =>
    home[e] = key[e] /\ pc[e] \in {"offered", "touch", "done"}

Orderly(r) == r \notin raced /\ RootOf[r] \notin rebound

RootIsBound ==
  \A r \in Reply : Orderly(r) => key[RootOf[r]] = SessionOf(RootOf[r])

ReplyFollowsRoot ==
  \A r \in Reply : Orderly(r) /\ pc[r] # "new" =>
    home[RootOf[r]] # None /\ key[r] = home[RootOf[r]]

Together ==
  RootIsUnbound /\ RepliesDoNotJoin /\ EnqueuedKeepsKey /\ RootIsBound
    /\ ReplyFollowsRoot

LEMMA RootIsPost == ASSUME NEW r \in Reply PROVE RootOf[r] \in Post
BY EventAssumption

\* A step of one event's handling that leaves keys and bindings alone.
LEMMA OtherStep ==
  ASSUME TypeOK, Together, NEW e \in Event,
         UNCHANGED <<bound, key, home, raced, rebound>>,
         NEW place \in Place, pc' = [pc EXCEPT ![e] = place],
         pc[e] # "new", place # "new",
         e \in Reply => place \notin {"latest", "decide", "bind"},
         pc[e] \in {"offered", "touch", "done"} =>
           place \in {"offered", "touch", "done"},
         place \in {"deliver", "latest", "decide", "bind"} =>
           pc[e] \in {"new", "deliver", "latest", "decide", "bind"} \/ e \in Reaction
  PROVE  Together'
<1> USE EventAssumption DEF TypeOK
<1>1. \A d \in Event : d # e => pc'[d] = pc[d]
  OBVIOUS
<1>2. pc'[e] = place
  OBVIOUS
<1>3. RootIsUnbound'
  BY <1>1, <1>2 DEF Together, RootIsUnbound, Event
<1>4. RepliesDoNotJoin'
  BY <1>1, <1>2 DEF Together, RepliesDoNotJoin, Event
<1>5. EnqueuedKeepsKey'
  BY <1>1, <1>2 DEF Together, EnqueuedKeepsKey
<1>6. RootIsBound'
  BY DEF Together, RootIsBound, Orderly, SessionOf
<1>7. ReplyFollowsRoot'
  BY <1>1, <1>2 DEF Together, ReplyFollowsRoot, Orderly, Event
<1> QED BY <1>3, <1>4, <1>5, <1>6, <1>7 DEF Together

\* The choice of a key: the root's own, or what its thread is bound to.
LEMMA SelectStep ==
  ASSUME TypeOK, Together, NEW e \in Event, SelectSession(e) PROVE Together'
<1> USE EventAssumption DEF TypeOK
<1>0. /\ pc' = [pc EXCEPT ![e] = "deliver"]
      /\ pc[e] = IF e \in Reaction THEN "fetched" ELSE "new"
      /\ UNCHANGED <<bound, home, rebound>>
  BY DEF SelectSession, Goto, store
<1>1. PICK k \in Post, missed \in BOOLEAN :
        /\ k = IF missed THEN Derived(e) ELSE SessionOf(Derived(e))
        /\ key' = [key EXCEPT ![e] = k]
        /\ raced' = IF e # Derived(e) /\ (missed \/ home[Derived(e)] = None)
                    THEN raced \cup {e} ELSE raced
  <2> DEFINE Chooses(k, missed) ==
        /\ key' = [key EXCEPT ![e] = k]
        /\ raced' = IF e # Derived(e) /\ (missed \/ home[Derived(e)] = None)
                    THEN raced \cup {e} ELSE raced
  <2>1. Derived(e) \in Post /\ SessionOf(Derived(e)) \in Post
    BY DerivedIsPost DEF SessionOf
  <2>2. \/ Chooses(SessionOf(Derived(e)), FALSE)
        \/ Chooses(Derived(e), TRUE)
    BY DEF SelectSession, SessionOf
  <2> QED BY <2>1, <2>2
<1>2. \A d \in Event : d # e => pc'[d] = pc[d] /\ key'[d] = key[d]
  BY <1>0, <1>1
<1>3. pc'[e] = "deliver" /\ key'[e] = k
  BY <1>0, <1>1
<1>4. e \in Post => Derived(e) = e
  BY DEF Derived
<1>5. e \notin Post => Derived(e) = RootOf[e] /\ e # Derived(e)
  BY DerivedIsPost DEF Derived
<1>6. RootIsUnbound'
  BY <1>0, <1>1, <1>2, <1>3, <1>4 DEF Together, RootIsUnbound, SessionOf, Event
<1>7. RepliesDoNotJoin'
  BY <1>2, <1>3 DEF Together, RepliesDoNotJoin, Event
<1>8. home[e] = None
  BY <1>0 DEF Together, EnqueuedKeepsKey
<1>9. EnqueuedKeepsKey'
  BY <1>0, <1>2, <1>8 DEF Together, EnqueuedKeepsKey
<1>10. \A r \in Reply : Orderly(r)' => Orderly(r)
  BY <1>0, <1>1 DEF Orderly
<1>11. RootIsBound'
  <2> SUFFICES ASSUME NEW r \in Reply, Orderly(r)'
               PROVE  key'[RootOf[r]] = SessionOf(RootOf[r])'
    BY DEF RootIsBound
  <2>1. RootOf[r] \in Post /\ Orderly(r)
    BY RootIsPost, <1>10
  <2>2. CASE e # RootOf[r]
    BY <1>0, <1>2, <2>1, <2>2 DEF Together, RootIsBound, SessionOf, Event
  <2>3. CASE e = RootOf[r]
    BY <1>0, <1>1, <1>3, <1>4, <2>1, <2>3
       DEF Together, RootIsUnbound, SessionOf, Orderly
  <2> QED BY <2>2, <2>3
<1>12. ReplyFollowsRoot'
  <2> SUFFICES ASSUME NEW r \in Reply, Orderly(r)', pc'[r] # "new"
               PROVE  home[RootOf[r]] # None /\ key'[r] = home[RootOf[r]]
    BY <1>0 DEF ReplyFollowsRoot
  <2>1. RootOf[r] \in Post /\ Orderly(r) /\ r \in Event
    BY RootIsPost, <1>10 DEF Event
  <2>2. CASE e # r
    BY <1>2, <2>1, <2>2 DEF Together, ReplyFollowsRoot
  <2>3. CASE e = r
    <3>1. ~missed /\ home[RootOf[r]] # None /\ k = SessionOf(RootOf[r])
      BY <1>1, <1>5, <2>3 DEF Orderly
    <3>2. home[RootOf[r]] = key[RootOf[r]]
      BY <2>1, <3>1 DEF Together, EnqueuedKeepsKey, Event
    <3>3. key[RootOf[r]] = SessionOf(RootOf[r])
      BY <2>1 DEF Together, RootIsBound
    <3> QED BY <1>3, <2>3, <3>1, <3>2, <3>3
  <2> QED BY <2>2, <2>3
<1> QED BY <1>6, <1>7, <1>9, <1>11, <1>12 DEF Together

\* A join binds the thread of its post, or marks the thread as rebound.
LEMMA JoinStep ==
  ASSUME TypeOK, JoinHasTarget, Together, NEW e \in Event, Join(e)
  PROVE  Together'
<1> USE EventAssumption DEF TypeOK
<1> DEFINE target == snap[e].key
<1>0. /\ pc[e] = "bind" /\ target \in Post /\ key[e] \in Post
      /\ key' = [key EXCEPT ![e] = target]
      /\ pc' \in {[pc EXCEPT ![e] = "offer"], [pc EXCEPT ![e] = "enqueue"]}
      /\ UNCHANGED home
  BY DEF Join, JoinHasTarget, Goto
<1> HIDE DEF target
<1>1. \/ /\ bound' = [bound EXCEPT ![key[e]] = target] /\ raced' = raced
         /\ rebound' = IF key[e] = e THEN rebound ELSE rebound \cup {key[e]}
      \/ /\ raced' = raced \cup {r \in Reply \cup Reaction : RootOf[r] = Derived(e)}
         /\ UNCHANGED <<bound, rebound>>
  BY DEF Join, BindThread, target
<1>2. e \notin Reply /\ home[e] = None
  BY <1>0 DEF Together, RepliesDoNotJoin, EnqueuedKeepsKey
<1>3. \A d \in Event : d # e => pc'[d] = pc[d] /\ key'[d] = key[d]
  BY <1>0
<1>4. pc'[e] \in {"offer", "enqueue"} /\ key'[e] = target
  BY <1>0
<1>5. \A r \in Reply : Orderly(r)' => Orderly(r)
  BY <1>1 DEF Orderly
<1>6. RootIsUnbound'
  <2> SUFFICES ASSUME NEW p \in Post \ rebound',
                      pc'[p] \in {"new", "deliver", "latest", "decide", "bind"}
               PROVE  bound'[p] = None /\ key'[p] = p
    BY DEF RootIsUnbound
  <2>1. p # e /\ p \in Event /\ p \notin rebound
    BY <1>1, <1>4 DEF Event
  <2>2. bound[p] = None /\ key[p] = p
    BY <1>3, <2>1 DEF Together, RootIsUnbound
  <2>3. bound'[p] = bound[p]
    BY <1>0, <1>1, <2>1
  <2> QED BY <1>3, <2>1, <2>2, <2>3
<1>7. RepliesDoNotJoin'
  BY <1>2, <1>3 DEF Together, RepliesDoNotJoin, Event
<1>8. EnqueuedKeepsKey'
  BY <1>0, <1>2, <1>3 DEF Together, EnqueuedKeepsKey
<1>9. RootIsBound'
  <2> SUFFICES ASSUME NEW r \in Reply, Orderly(r)'
               PROVE  key'[RootOf[r]] = SessionOf(RootOf[r])'
    BY DEF RootIsBound
  <2>1. RootOf[r] \in Post /\ RootOf[r] \in Event /\ Orderly(r)
    BY RootIsPost, <1>5 DEF Event
  <2>2. key[RootOf[r]] = SessionOf(RootOf[r])
    BY <2>1 DEF Together, RootIsBound
  <2>3. CASE e = RootOf[r]
    <3>1. key[e] = e
      BY <1>0, <2>1, <2>3 DEF Together, RootIsUnbound, Orderly
    <3>2. r \notin raced'
      BY DEF Orderly
    <3>3. Derived(e) = RootOf[r]
      BY <2>1, <2>3 DEF Derived
    <3>4. bound' = [bound EXCEPT ![e] = target]
      BY <1>1, <3>1, <3>2, <3>3
    <3> QED BY <1>0, <1>4, <2>1, <2>3, <3>4 DEF SessionOf
  <2>4. CASE e # RootOf[r]
    <3>1. bound'[RootOf[r]] = bound[RootOf[r]]
      BY <1>0, <1>1, <2>1, <2>4 DEF Orderly
    <3> QED BY <1>3, <2>1, <2>2, <2>4, <3>1 DEF SessionOf
  <2> QED BY <2>3, <2>4
<1>10. ReplyFollowsRoot'
  BY <1>0, <1>2, <1>3, <1>5 DEF Together, ReplyFollowsRoot, Event
<1> QED BY <1>6, <1>7, <1>8, <1>9, <1>10 DEF Together

\* The item takes the key of its event.
LEMMA EnqueueStep ==
  ASSUME TypeOK, Together, NEW e \in Event, Enqueue(e) PROVE Together'
<1> USE EventAssumption DEF TypeOK
<1>0. /\ pc[e] \in {"offer", "enqueue"} /\ key[e] \in Post
      /\ home' = [home EXCEPT ![e] = key[e]]
      /\ pc' \in {[pc EXCEPT ![e] = "offered"], [pc EXCEPT ![e] = "touch"]}
      /\ UNCHANGED <<bound, key, raced, rebound>>
  BY DEF Enqueue, Goto, store
<1>1. home[e] = None
  BY <1>0 DEF Together, EnqueuedKeepsKey
<1>2. \A d \in Event : d # e => pc'[d] = pc[d] /\ home'[d] = home[d]
  BY <1>0
<1>3. pc'[e] \in {"offered", "touch"} /\ home'[e] = key[e]
  BY <1>0
<1>4. RootIsUnbound'
  BY <1>0, <1>2, <1>3 DEF Together, RootIsUnbound, Event
<1>5. RepliesDoNotJoin'
  BY <1>2, <1>3 DEF Together, RepliesDoNotJoin, Event
<1>6. EnqueuedKeepsKey'
  BY <1>0, <1>2, <1>3 DEF Together, EnqueuedKeepsKey
<1>7. RootIsBound'
  BY <1>0 DEF Together, RootIsBound, Orderly, SessionOf
<1>8. ReplyFollowsRoot'
  <2> SUFFICES ASSUME NEW r \in Reply, Orderly(r), pc'[r] # "new"
               PROVE  home'[RootOf[r]] # None /\ key[r] = home'[RootOf[r]]
    BY <1>0 DEF ReplyFollowsRoot, Orderly
  <2>1. pc[r] # "new" /\ r \in Event /\ RootOf[r] \in Event
    BY <1>0, <1>2, RootIsPost DEF Event
  <2>2. home[RootOf[r]] # None /\ key[r] = home[RootOf[r]]
    BY <2>1 DEF Together, ReplyFollowsRoot
  <2>3. RootOf[r] # e
    BY <1>1, <2>2
  <2> QED BY <1>2, <2>1, <2>2, <2>3
<1> QED BY <1>4, <1>5, <1>6, <1>7, <1>8 DEF Together

\* selectSession and bindThread: what is said in a thread goes to the Session
\* that took its root post, however the joins, the debounce, ended Sessions and
\* restarts fall; excepted are the replies that ran ahead of their root and the
\* threads bound again through a reaction.
THEOREM ThreadsStayTogether == Spec => []ThreadStaysTogether
<1>1. Init => Together
  <2> SUFFICES ASSUME Init PROVE Together
    OBVIOUS
  <2>1. \A p \in Post : key[p] = p /\ bound[p] = None /\ p \in Event
    BY DEF Init, Event, Derived
  <2>2. \A e \in Event : pc[e] = "new" /\ home[e] = None
    BY DEF Init
  <2>3. \A r \in Reply : RootOf[r] \in Post /\ r \in Event
    BY RootIsPost DEF Event
  <2> QED BY <2>1, <2>2, <2>3
          DEF Together, RootIsUnbound, RepliesDoNotJoin, EnqueuedKeepsKey,
              RootIsBound, ReplyFollowsRoot, SessionOf
<1>2. TypeOK /\ JoinHasTarget /\ Together /\ [Next]_vars => Together'
  <2> SUFFICES ASSUME TypeOK, JoinHasTarget, Together, [Next]_vars PROVE Together'
    OBVIOUS
  <2>1. ASSUME NEW e \in Event, JudgeReaction(e) PROVE Together'
    <3>1. /\ e \in Reaction /\ pc' = [pc EXCEPT ![e] = "fetched"] /\ pc[e] = "new"
          /\ UNCHANGED <<bound, key, home, raced, rebound>>
      BY <2>1 DEF JudgeReaction, Goto, store, history
    <3>2. \A d \in Event : d # e => pc'[d] = pc[d]
      BY <3>1 DEF TypeOK
    <3>3. e \notin Post /\ e \notin Reply /\ home[e] = None
      BY <3>1, EventAssumption DEF Together, EnqueuedKeepsKey
    <3> QED BY <3>1, <3>2, <3>3
            DEF Together, RootIsUnbound, RepliesDoNotJoin, EnqueuedKeepsKey,
                RootIsBound, ReplyFollowsRoot, Orderly, SessionOf, Event
  <2>2. ASSUME NEW e \in Event, SelectSession(e) PROVE Together'
    BY <2>2, SelectStep
  <2>3. ASSUME NEW e \in Event, Deliver(e) PROVE Together'
    <3>1. PICK place \in {"offer", "enqueue", "latest"} :
            /\ pc[e] = "deliver" /\ pc' = [pc EXCEPT ![e] = place]
            /\ e \in Reply => place # "latest"
      BY <2>3 DEF Deliver, Goto
    <3>2. UNCHANGED <<bound, key, home, raced, rebound>> /\ place \in Place
      BY <2>3 DEF Deliver, store, history, Place
    <3> QED BY <3>1, <3>2, OtherStep
  <2>4. ASSUME NEW e \in Event, ReadLatest(e) PROVE Together'
    <3>1. /\ pc[e] = "latest" /\ pc' = [pc EXCEPT ![e] = "decide"]
          /\ UNCHANGED <<bound, key, home, raced, rebound>>
      BY <2>4 DEF ReadLatest, Goto, store, history
    <3> QED BY <3>1, OtherStep DEF Together, RepliesDoNotJoin, Place
  <2>5. ASSUME NEW e \in Event, Decide(e) PROVE Together'
    <3>1. /\ pc[e] = "decide"
          /\ \E place \in {"bind", "enqueue"} : pc' = [pc EXCEPT ![e] = place]
          /\ UNCHANGED <<bound, key, home, raced, rebound>>
      BY <2>5 DEF Decide, Goto, store, history
    <3> QED BY <3>1, OtherStep DEF Together, RepliesDoNotJoin, Place
  <2>6. ASSUME NEW e \in Event, Join(e) PROVE Together'
    BY <2>6, JoinStep
  <2>7. ASSUME NEW e \in Event, Enqueue(e) PROVE Together'
    BY <2>7, EnqueueStep
  <2>8. ASSUME NEW e \in Event, Offered(e) \/ Touch(e) PROVE Together'
    <3>1. /\ pc[e] \in {"offered", "touch"} /\ pc' = [pc EXCEPT ![e] = "done"]
          /\ UNCHANGED <<bound, key, home, raced, rebound>>
      BY <2>8 DEF Offered, Touch, Goto
    <3> QED BY <3>1, OtherStep DEF Place
  <2>9. CASE UNCHANGED <<bound, key, home, raced, rebound, pc>>
    BY <2>9 DEF Together, RootIsUnbound, RepliesDoNotJoin, EnqueuedKeepsKey,
                RootIsBound, ReplyFollowsRoot, Orderly, SessionOf
  <2>10. CASE Restart
    <3>1. /\ UNCHANGED <<bound, key, home, raced, rebound>>
          /\ \A e \in Event : /\ pc'[e] \in {pc[e], "done"}
                              /\ pc'[e] = "new" <=> pc[e] = "new"
      BY <2>10 DEF Restart, store, history, TypeOK
    <3> QED BY <3>1 DEF Together, RootIsUnbound, RepliesDoNotJoin, Event,
              EnqueuedKeepsKey, RootIsBound, ReplyFollowsRoot, Orderly, SessionOf
  <2> QED BY <2>1, <2>2, <2>3, <2>4, <2>5, <2>6, <2>7, <2>8, <2>9, <2>10
          DEF Next, Handle, TimerFires, Dispose, MarkEnded, Tick, vars, store,
              history
<1>3. Together => ThreadStaysTogether
  BY EventAssumption
     DEF Together, EnqueuedKeepsKey, ReplyFollowsRoot, Orderly,
         ThreadStaysTogether, Event
<1> QED BY <1>1, <1>2, <1>3, TypeCorrect, PTL DEF Spec
=============================================================================
