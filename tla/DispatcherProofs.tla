-------------------------- MODULE DispatcherProofs --------------------------
(***************************************************************************)
(* Theorems about Dispatcher, for any processes, messages and faults: its  *)
(* types, the exclusion of the Sessions of one key, and that no wake-up is *)
(* lost.                                                                   *)
(***************************************************************************)
EXTENDS Dispatcher, TLAPS

LEMMA TypeStep ==
  ASSUME TypeOK, [Next]_vars
  PROVE  TypeOK'
<1> USE DebouncedAssumption, NoneAssumption, LeaseAssumption DEF inbox, sessionVars,
         leftovers, vars, Goto
<1>1. ASSUME NEW p \in Process, NEW i \in Item, Receive(p, i)
      PROVE  TypeOK'
  BY <1>1 DEF Receive, TypeOK, Stage, Place
<1>2. ASSUME NEW p \in Process, NEW i \in Item, GateDrops(p, i)
      PROVE  TypeOK'
  BY <1>2 DEF GateDrops, TypeOK, Stage, Place
<1>3. ASSUME NEW p \in Process, NEW i \in Item, Enqueue(p, i)
      PROVE  TypeOK'
  <2>1. pc' \in [Process -> [Item -> Place]]
    <3>1. PICK place \in Place : pc' = [pc EXCEPT ![p][i] = place]
      BY <1>3 DEF Enqueue, Place
    <3> QED
      BY <3>1 DEF TypeOK
  <2>2. seen' \subseteq Item /\ unacked' \subseteq seen'
    BY <1>3 DEF Enqueue, Accept, TypeOK
  <2> QED
    BY <1>3, <2>1, <2>2 DEF Enqueue, TypeOK
<1>4. ASSUME NEW p \in Process, NEW i \in Item, Steer(p, i)
      PROVE  TypeOK'
  BY <1>4 DEF Steer, TypeOK, Stage, Place
<1>5. ASSUME NEW p \in Process, NEW i \in Item, SteerNot(p, i)
      PROVE  TypeOK'
  BY <1>5 DEF SteerNot, LeaveToDrain, TypeOK, Stage, Place
<1>6. ASSUME NEW p \in Process, NEW i \in Item, LeaveToSession(p, i)
      PROVE  TypeOK'
  BY <1>6 DEF LeaveToSession, LeaveToDrain, TypeOK, Stage, Place
<1>7. ASSUME NEW p \in Process, NEW i \in Item, Schedule(p, i)
      PROVE  TypeOK'
  BY <1>7 DEF Schedule, TypeOK, Stage, Place
<1>8. ASSUME NEW p \in Process, NEW i \in Item, StartNow(p, i)
      PROVE  TypeOK'
  BY <1>8 DEF StartNow, TypeOK, Stage, Place
<1>9. ASSUME NEW p \in Process, NEW i \in Item, Acquired(p, i)
      PROVE  TypeOK'
  BY <1>9 DEF Acquired, TypeOK, Stage, Place
<1>10. ASSUME NEW p \in Process, NEW i \in Item, NotAcquired(p, i)
      PROVE  TypeOK'
  BY <1>10 DEF NotAcquired, LeaveToDrain, TypeOK, Stage, Place
<1>11. ASSUME NEW p \in Process, TimerFires(p)
      PROVE  TypeOK'
  BY <1>11 DEF TimerFires, LeaveToDrain, TypeOK, Stage, Place
<1>12. ASSUME NEW p \in Process, FirstPrompt(p)
      PROVE  TypeOK'
  BY <1>12 DEF FirstPrompt, TypeOK, Stage, Place
<1>13. ASSUME NEW p \in Process, TurnEnds(p)
      PROVE  TypeOK'
  BY <1>13 DEF TurnEnds, TypeOK, Stage, Place
<1>14. ASSUME NEW p \in Process, NextTurn(p)
      PROVE  TypeOK'
  BY <1>14 DEF NextTurn, TypeOK, Stage, Place
<1>15. ASSUME NEW p \in Process, LingerOver(p)
      PROVE  TypeOK'
  BY <1>15 DEF LingerOver, TypeOK, Stage, Place
<1>16. ASSUME NEW p \in Process, ReleaseLease(p)
      PROVE  TypeOK'
  BY <1>16 DEF ReleaseLease, TypeOK, Stage, Place
<1>17. ASSUME NEW p \in Process, Dispose(p)
      PROVE  TypeOK'
  BY <1>17 DEF Dispose, Leave, TypeOK, Stage, Place
<1>18. ASSUME NEW p \in Process, ReleaseOwed(p)
      PROVE  TypeOK'
  BY <1>18 DEF ReleaseOwed, TypeOK, Stage, Place
<1>19. ASSUME NEW p \in Process, AckOwed(p)
      PROVE  TypeOK'
  BY <1>19 DEF AckOwed, TypeOK, Stage, Place
<1>20. ASSUME NEW p \in Process, StartFails(p)
      PROVE  TypeOK'
  BY <1>20 DEF StartFails, Leave, TypeOK, Stage, Place
<1>21. ASSUME NEW p \in Process, Fold(p)
      PROVE  TypeOK'
  BY <1>21 DEF Fold, TypeOK, Stage, Place
<1>22. ASSUME NEW p \in Process, PiExits(p)
      PROVE  TypeOK'
  BY <1>22 DEF PiExits, Leave, TypeOK, Stage, Place
<1>23. ASSUME NEW p \in Process, Crash(p)
      PROVE  TypeOK'
  BY <1>23 DEF Crash, TypeOK, Stage, Place
<1>24. CASE Lapse
  BY <1>24 DEF Lapse, TypeOK, Stage, Place
<1>25. CASE UNCHANGED vars
  BY <1>25 DEF TypeOK, Stage, Place
<1> QED
  BY <1>1, <1>2, <1>3, <1>4, <1>5, <1>6, <1>7, <1>8, <1>9, <1>10, <1>11, <1>12, <1>13, <1>14, <1>15, <1>16, <1>17, <1>18, <1>19, <1>20, <1>21, <1>22, <1>23, <1>24, <1>25
  DEF Next, Handle, SessionStep, ExitStep

\* Every variable of the Dispatchers keeps its type, and nothing is unacked that
\* the Inbox has not accepted.
THEOREM TypeCorrect == Spec => []TypeOK
<1>1. Init => TypeOK
  BY NoneAssumption DEF Init, TypeOK, Stage, Place
<1>2. TypeOK /\ [Next]_vars => TypeOK'
  BY TypeStep
<1> QED
  BY <1>1, <1>2, PTL DEF Spec

-----------------------------------------------------------------------------
(* The lease row and the Sessions.                                         *)

Holds(p) == session[p] \in {"starting", "running", "lingering", "stopping"}

\* The lease names the process that has a Session or owes a release, and the
\* two never overlap: what OneSessionPerKey needs to be inductive.
LeaseMatches ==
  /\ \A p \in Process : Holds(p) \/ p \in owes => lease = p
  /\ \A p \in Process : lease = p => Holds(p) \/ p \in owes
  /\ \A p \in Process : ~(Holds(p) /\ p \in owes)

LEMMA LeaseStep ==
  ASSUME TypeOK, LeaseMatches, [Next]_vars
  PROVE  LeaseMatches'
<1> USE DebouncedAssumption, NoneAssumption, LeaseAssumption DEF inbox, sessionVars,
         leftovers, vars, Goto
<1>1. ASSUME NEW p \in Process, NEW i \in Item, Receive(p, i)
      PROVE  LeaseMatches'
  BY <1>1 DEF Receive, TypeOK, LeaseMatches, Holds, Stage
<1>2. ASSUME NEW p \in Process, NEW i \in Item, GateDrops(p, i)
      PROVE  LeaseMatches'
  BY <1>2 DEF GateDrops, TypeOK, LeaseMatches, Holds, Stage
<1>3. ASSUME NEW p \in Process, NEW i \in Item, Enqueue(p, i)
      PROVE  LeaseMatches'
  BY <1>3 DEF Enqueue, Accept, TypeOK, LeaseMatches, Holds, Stage
<1>4. ASSUME NEW p \in Process, NEW i \in Item, Steer(p, i)
      PROVE  LeaseMatches'
  BY <1>4 DEF Steer, TypeOK, LeaseMatches, Holds, Stage
<1>5. ASSUME NEW p \in Process, NEW i \in Item, SteerNot(p, i)
      PROVE  LeaseMatches'
  BY <1>5 DEF SteerNot, LeaveToDrain, TypeOK, LeaseMatches, Holds, Stage
<1>6. ASSUME NEW p \in Process, NEW i \in Item, LeaveToSession(p, i)
      PROVE  LeaseMatches'
  BY <1>6 DEF LeaveToSession, LeaveToDrain, TypeOK, LeaseMatches, Holds, Stage
<1>7. ASSUME NEW p \in Process, NEW i \in Item, Schedule(p, i)
      PROVE  LeaseMatches'
  BY <1>7 DEF Schedule, TypeOK, LeaseMatches, Holds, Stage
<1>8. ASSUME NEW p \in Process, NEW i \in Item, StartNow(p, i)
      PROVE  LeaseMatches'
  BY <1>8 DEF StartNow, TypeOK, LeaseMatches, Holds, Stage
<1>9. ASSUME NEW p \in Process, NEW i \in Item, Acquired(p, i)
      PROVE  LeaseMatches'
  BY <1>9 DEF Acquired, TypeOK, LeaseMatches, Holds, Stage
<1>10. ASSUME NEW p \in Process, NEW i \in Item, NotAcquired(p, i)
      PROVE  LeaseMatches'
  BY <1>10 DEF NotAcquired, LeaveToDrain, TypeOK, LeaseMatches, Holds, Stage
<1>11. ASSUME NEW p \in Process, TimerFires(p)
      PROVE  LeaseMatches'
  BY <1>11 DEF TimerFires, LeaveToDrain, TypeOK, LeaseMatches, Holds, Stage
<1>12. ASSUME NEW p \in Process, FirstPrompt(p)
      PROVE  LeaseMatches'
  BY <1>12 DEF FirstPrompt, TypeOK, LeaseMatches, Holds, Stage
<1>13. ASSUME NEW p \in Process, TurnEnds(p)
      PROVE  LeaseMatches'
  BY <1>13 DEF TurnEnds, TypeOK, LeaseMatches, Holds, Stage
<1>14. ASSUME NEW p \in Process, NextTurn(p)
      PROVE  LeaseMatches'
  BY <1>14 DEF NextTurn, TypeOK, LeaseMatches, Holds, Stage
<1>15. ASSUME NEW p \in Process, LingerOver(p)
      PROVE  LeaseMatches'
  BY <1>15 DEF LingerOver, TypeOK, LeaseMatches, Holds, Stage
<1>16. ASSUME NEW p \in Process, ReleaseLease(p)
      PROVE  LeaseMatches'
  BY <1>16 DEF ReleaseLease, TypeOK, LeaseMatches, Holds, Stage
<1>17. ASSUME NEW p \in Process, Dispose(p)
      PROVE  LeaseMatches'
  BY <1>17 DEF Dispose, Leave, TypeOK, LeaseMatches, Holds, Stage
<1>18. ASSUME NEW p \in Process, ReleaseOwed(p)
      PROVE  LeaseMatches'
  BY <1>18 DEF ReleaseOwed, TypeOK, LeaseMatches, Holds, Stage
<1>19. ASSUME NEW p \in Process, AckOwed(p)
      PROVE  LeaseMatches'
  BY <1>19 DEF AckOwed, TypeOK, LeaseMatches, Holds, Stage
<1>20. ASSUME NEW p \in Process, StartFails(p)
      PROVE  LeaseMatches'
  BY <1>20 DEF StartFails, Leave, TypeOK, LeaseMatches, Holds, Stage
<1>21. ASSUME NEW p \in Process, Fold(p)
      PROVE  LeaseMatches'
  BY <1>21 DEF Fold, TypeOK, LeaseMatches, Holds, Stage
<1>22. ASSUME NEW p \in Process, PiExits(p)
      PROVE  LeaseMatches'
  BY <1>22 DEF PiExits, Leave, TypeOK, LeaseMatches, Holds, Stage
<1>23. ASSUME NEW p \in Process, Crash(p)
      PROVE  LeaseMatches'
  BY <1>23 DEF Crash, TypeOK, LeaseMatches, Holds, Stage
<1>24. CASE Lapse
  BY <1>24 DEF Lapse, TypeOK, LeaseMatches, Holds, Stage
<1>25. CASE UNCHANGED vars
  BY <1>25 DEF TypeOK, LeaseMatches, Holds, Stage
<1> QED
  BY <1>1, <1>2, <1>3, <1>4, <1>5, <1>6, <1>7, <1>8, <1>9, <1>10, <1>11, <1>12, <1>13, <1>14, <1>15, <1>16, <1>17, <1>18, <1>19, <1>20, <1>21, <1>22, <1>23, <1>24, <1>25
  DEF Next, Handle, SessionStep, ExitStep

\* The holder of the lease is the one process with a Session at work.
THEOREM LeaseMatchesInvariant == Spec => []LeaseMatches
<1>1. Init => LeaseMatches
  BY LeaseAssumption DEF Init, LeaseMatches, Holds
<1>2. TypeOK /\ LeaseMatches /\ [Next]_vars => LeaseMatches'
  BY LeaseStep
<1> QED
  BY <1>1, <1>2, TypeCorrect, PTL DEF Spec

\* The Sessions of a key exclude each other over all processes: acquire is the
\* only way to register one, and it needs the row to be gone.
THEOREM Exclusion == Spec => []OneSessionPerKey
<1>1. LeaseMatches => OneSessionPerKey
  BY DEF LeaseMatches, Holds, OneSessionPerKey, Holding
<1> QED
  BY <1>1, LeaseMatchesInvariant, PTL

-----------------------------------------------------------------------------
(* Wake-ups.                                                               *)

\* An event that found a Session, one that has not left since, still finds it.
Attached ==
  \A p \in Process, i \in Item :
    pc[p][i] \in {"offer", "offered"} /\ i \notin stale[p] => session[p] # "none"

LEMMA AttachedStep ==
  ASSUME TypeOK, Attached, [Next]_vars
  PROVE  Attached'
<1> USE DebouncedAssumption, NoneAssumption, LeaseAssumption DEF inbox, sessionVars,
         leftovers, vars, Goto
<1>1. ASSUME NEW p \in Process, NEW i \in Item, Receive(p, i)
      PROVE  Attached'
  BY <1>1 DEF Receive, TypeOK, Attached, Stage, Place
<1>2. ASSUME NEW p \in Process, NEW i \in Item, GateDrops(p, i)
      PROVE  Attached'
  BY <1>2 DEF GateDrops, TypeOK, Attached, Stage, Place
<1>3. ASSUME NEW p \in Process, NEW i \in Item, Enqueue(p, i)
      PROVE  Attached'
  <2>1. CASE i \in seen
    BY <1>3, <2>1 DEF Enqueue, TypeOK, Attached, Stage, Place
  <2>2. CASE i \notin seen /\ pc[p][i] = "offer"
    BY <1>3, <2>2 DEF Enqueue, Accept, TypeOK, Attached, Stage, Place
  <2>3. CASE i \notin seen /\ pc[p][i] = "gate"
    BY <1>3, <2>3 DEF Enqueue, Accept, TypeOK, Attached, Stage, Place
  <2> QED
    BY <1>3, <2>1, <2>2, <2>3 DEF Enqueue, Accept
<1>4. ASSUME NEW p \in Process, NEW i \in Item, Steer(p, i)
      PROVE  Attached'
  BY <1>4 DEF Steer, TypeOK, Attached, Stage, Place
<1>5. ASSUME NEW p \in Process, NEW i \in Item, SteerNot(p, i)
      PROVE  Attached'
  BY <1>5 DEF SteerNot, LeaveToDrain, TypeOK, Attached, Stage, Place
<1>6. ASSUME NEW p \in Process, NEW i \in Item, LeaveToSession(p, i)
      PROVE  Attached'
  BY <1>6 DEF LeaveToSession, LeaveToDrain, TypeOK, Attached, Stage, Place
<1>7. ASSUME NEW p \in Process, NEW i \in Item, Schedule(p, i)
      PROVE  Attached'
  BY <1>7 DEF Schedule, TypeOK, Attached, Stage, Place
<1>8. ASSUME NEW p \in Process, NEW i \in Item, StartNow(p, i)
      PROVE  Attached'
  BY <1>8 DEF StartNow, TypeOK, Attached, Stage, Place
<1>9. ASSUME NEW p \in Process, NEW i \in Item, Acquired(p, i)
      PROVE  Attached'
  BY <1>9 DEF Acquired, TypeOK, Attached, Stage, Place
<1>10. ASSUME NEW p \in Process, NEW i \in Item, NotAcquired(p, i)
      PROVE  Attached'
  BY <1>10 DEF NotAcquired, LeaveToDrain, TypeOK, Attached, Stage, Place
<1>11. ASSUME NEW p \in Process, TimerFires(p)
      PROVE  Attached'
  BY <1>11 DEF TimerFires, LeaveToDrain, TypeOK, Attached, Stage, Place
<1>12. ASSUME NEW p \in Process, FirstPrompt(p)
      PROVE  Attached'
  BY <1>12 DEF FirstPrompt, TypeOK, Attached, Stage, Place
<1>13. ASSUME NEW p \in Process, TurnEnds(p)
      PROVE  Attached'
  BY <1>13 DEF TurnEnds, TypeOK, Attached, Stage, Place
<1>14. ASSUME NEW p \in Process, NextTurn(p)
      PROVE  Attached'
  BY <1>14 DEF NextTurn, TypeOK, Attached, Stage, Place
<1>15. ASSUME NEW p \in Process, LingerOver(p)
      PROVE  Attached'
  BY <1>15 DEF LingerOver, TypeOK, Attached, Stage, Place
<1>16. ASSUME NEW p \in Process, ReleaseLease(p)
      PROVE  Attached'
  BY <1>16 DEF ReleaseLease, TypeOK, Attached, Stage, Place
<1>17. ASSUME NEW p \in Process, Dispose(p)
      PROVE  Attached'
  BY <1>17 DEF Dispose, Leave, TypeOK, Attached, Stage, Place
<1>18. ASSUME NEW p \in Process, ReleaseOwed(p)
      PROVE  Attached'
  BY <1>18 DEF ReleaseOwed, TypeOK, Attached, Stage, Place
<1>19. ASSUME NEW p \in Process, AckOwed(p)
      PROVE  Attached'
  BY <1>19 DEF AckOwed, TypeOK, Attached, Stage, Place
<1>20. ASSUME NEW p \in Process, StartFails(p)
      PROVE  Attached'
  BY <1>20 DEF StartFails, Leave, TypeOK, Attached, Stage, Place
<1>21. ASSUME NEW p \in Process, Fold(p)
      PROVE  Attached'
  BY <1>21 DEF Fold, TypeOK, Attached, Stage, Place
<1>22. ASSUME NEW p \in Process, PiExits(p)
      PROVE  Attached'
  BY <1>22 DEF PiExits, Leave, TypeOK, Attached, Stage, Place
<1>23. ASSUME NEW p \in Process, Crash(p)
      PROVE  Attached'
  BY <1>23 DEF Crash, TypeOK, Attached, Stage, Place
<1>24. CASE Lapse
  BY <1>24 DEF Lapse, TypeOK, Attached, Stage, Place
<1>25. CASE UNCHANGED vars
  BY <1>25 DEF TypeOK, Attached, Stage, Place
<1> QED
  BY <1>1, <1>2, <1>3, <1>4, <1>5, <1>6, <1>7, <1>8, <1>9, <1>10, <1>11, <1>12, <1>13, <1>14, <1>15, <1>16, <1>17, <1>18, <1>19, <1>20, <1>21, <1>22, <1>23, <1>24, <1>25
  DEF Next, Handle, SessionStep, ExitStep

LEMMA WakerStep ==
  ASSUME TypeOK, LeaseMatches, Attached, WaitingHasWaker, [Next]_vars
  PROVE  WaitingHasWaker'
<1> USE DebouncedAssumption, NoneAssumption, LeaseAssumption DEF inbox, sessionVars,
         leftovers, vars, Goto
<1>1. ASSUME NEW p \in Process, NEW i \in Item, Receive(p, i)
      PROVE  WaitingHasWaker'
  <2>1. \A q \in Process, j \in Item :
          pc[q][j] \in {"offered", "touch"} => pc'[q][j] = pc[q][j]
    BY <1>1 DEF Receive, TypeOK
  <2> QED
    BY <1>1, <2>1 DEF Receive, TypeOK, WaitingHasWaker, Draining
<1>2. ASSUME NEW p \in Process, NEW i \in Item, GateDrops(p, i)
      PROVE  WaitingHasWaker'
  <2>1. \A q \in Process, j \in Item :
          pc[q][j] \in {"offered", "touch"} => pc'[q][j] = pc[q][j]
    BY <1>2 DEF GateDrops, TypeOK
  <2>2. UNCHANGED <<unacked, late, session, pending, acquiring, givenUp>>
    BY <1>2 DEF GateDrops
  <2> QED
    BY <2>1, <2>2 DEF WaitingHasWaker, Draining
<1>3. ASSUME NEW p \in Process, NEW i \in Item, Enqueue(p, i)
      PROVE  WaitingHasWaker'
  <2>1. CASE i \in seen
    <3>1. \A q \in Process, j \in Item :
            pc[q][j] \in {"offered", "touch"} => pc'[q][j] = pc[q][j]
      BY <1>3, <2>1 DEF Enqueue, TypeOK
    <3>2. UNCHANGED <<unacked, late, session, pending, acquiring, givenUp>>
      BY <1>3, <2>1 DEF Enqueue
    <3> QED
      BY <3>1, <3>2 DEF WaitingHasWaker, Draining
  <2>2. CASE i \notin seen
    <3>1. pc'[p][i] \in {"offered", "touch"}
      BY <1>3, <2>2 DEF Enqueue, TypeOK
    <3> QED
      BY <3>1 DEF WaitingHasWaker
  <2> QED
    BY <2>1, <2>2
<1>4. ASSUME NEW p \in Process, NEW i \in Item, Steer(p, i)
      PROVE  WaitingHasWaker'
  BY <1>4 DEF Steer, TypeOK, WaitingHasWaker, Draining
<1>5. ASSUME NEW p \in Process, NEW i \in Item, SteerNot(p, i)
      PROVE  WaitingHasWaker'
  BY <1>5 DEF SteerNot, LeaveToDrain, PastDrain, Attached, TypeOK, Stage,
    WaitingHasWaker, Draining
<1>6. ASSUME NEW p \in Process, NEW i \in Item, LeaveToSession(p, i)
      PROVE  WaitingHasWaker'
  BY <1>6 DEF LeaveToSession, LeaveToDrain, PastDrain, TypeOK, Stage,
    WaitingHasWaker, Draining
<1>7. ASSUME NEW p \in Process, NEW i \in Item, Schedule(p, i)
      PROVE  WaitingHasWaker'
  BY <1>7 DEF Schedule, TypeOK, WaitingHasWaker, Draining
<1>8. ASSUME NEW p \in Process, NEW i \in Item, StartNow(p, i)
      PROVE  WaitingHasWaker'
  BY <1>8 DEF StartNow, TypeOK, WaitingHasWaker, Draining
<1>9. ASSUME NEW p \in Process, NEW i \in Item, Acquired(p, i)
      PROVE  WaitingHasWaker'
  BY <1>9 DEF Acquired, TypeOK, WaitingHasWaker, Draining
<1>10. ASSUME NEW p \in Process, NEW i \in Item, NotAcquired(p, i)
      PROVE  WaitingHasWaker'
  BY <1>10 DEF NotAcquired, LeaveToDrain, PastDrain, LeaseMatches, Holds, TypeOK,
    Stage, WaitingHasWaker, Draining
<1>11. ASSUME NEW p \in Process, TimerFires(p)
      PROVE  WaitingHasWaker'
  <2>1. CASE session[p] # "none"
    <3>1. Draining(p) \/ PastDrain
      BY <2>1 DEF Draining, PastDrain, TypeOK, Stage
    <3>2. CASE \E q \in Process : Draining(q)
      BY <1>11, <3>2 DEF TimerFires, WaitingHasWaker, Draining
    <3>3. CASE ~\E q \in Process : Draining(q)
      BY <1>11, <2>1, <3>1, <3>3 DEF TimerFires, LeaveToDrain, WaitingHasWaker
    <3> QED
      BY <3>2, <3>3
  <2>2. CASE session[p] = "none" /\ late' = late \cup unacked
    BY <1>11, <2>2 DEF TimerFires, TypeOK, WaitingHasWaker
  <2>3. CASE acquiring' = [acquiring EXCEPT ![p] = @ \cup {pending[p]}]
    BY <1>11, <2>3 DEF TimerFires, TypeOK, WaitingHasWaker
  <2> QED
    BY <1>11, <2>1, <2>2, <2>3 DEF TimerFires
<1>12. ASSUME NEW p \in Process, FirstPrompt(p)
      PROVE  WaitingHasWaker'
  BY <1>12 DEF FirstPrompt, TypeOK, WaitingHasWaker, Draining
<1>13. ASSUME NEW p \in Process, TurnEnds(p)
      PROVE  WaitingHasWaker'
  BY <1>13 DEF TurnEnds, TypeOK, WaitingHasWaker, Draining
<1>14. ASSUME NEW p \in Process, NextTurn(p)
      PROVE  WaitingHasWaker'
  BY <1>14 DEF NextTurn, TypeOK, WaitingHasWaker, Draining
<1>15. ASSUME NEW p \in Process, LingerOver(p)
      PROVE  WaitingHasWaker'
  BY <1>15 DEF LingerOver, TypeOK, WaitingHasWaker, Draining
<1>16. ASSUME NEW p \in Process, ReleaseLease(p)
      PROVE  WaitingHasWaker'
  BY <1>16 DEF ReleaseLease, TypeOK, WaitingHasWaker, Draining
<1>17. ASSUME NEW p \in Process, Dispose(p)
      PROVE  WaitingHasWaker'
  BY <1>17 DEF Dispose, Leave, TypeOK, WaitingHasWaker, Draining
<1>18. ASSUME NEW p \in Process, ReleaseOwed(p)
      PROVE  WaitingHasWaker'
  BY <1>18 DEF ReleaseOwed, TypeOK, WaitingHasWaker, Draining
<1>19. ASSUME NEW p \in Process, AckOwed(p)
      PROVE  WaitingHasWaker'
  BY <1>19 DEF AckOwed, TypeOK, WaitingHasWaker, Draining
<1>20. ASSUME NEW p \in Process, StartFails(p)
      PROVE  WaitingHasWaker'
  BY <1>20 DEF StartFails, Leave, TypeOK, WaitingHasWaker, Draining
<1>21. ASSUME NEW p \in Process, Fold(p)
      PROVE  WaitingHasWaker'
  BY <1>21 DEF Fold, TypeOK, WaitingHasWaker, Draining
<1>22. ASSUME NEW p \in Process, PiExits(p)
      PROVE  WaitingHasWaker'
  BY <1>22 DEF PiExits, Leave, TypeOK, WaitingHasWaker, Draining
<1>23. ASSUME NEW p \in Process, Crash(p)
      PROVE  WaitingHasWaker'
  BY <1>23 DEF Crash, TypeOK, WaitingHasWaker, Draining
<1>24. CASE Lapse
  BY <1>24 DEF Lapse, TypeOK, WaitingHasWaker, Draining
<1>25. CASE UNCHANGED vars
  BY <1>25 DEF TypeOK, WaitingHasWaker, Draining
<1> QED
  BY <1>1, <1>2, <1>3, <1>4, <1>5, <1>6, <1>7, <1>8, <1>9, <1>10, <1>11, <1>12, <1>13, <1>14, <1>15, <1>16, <1>17, <1>18, <1>19, <1>20, <1>21, <1>22, <1>23, <1>24, <1>25
  DEF Next, Handle, SessionStep, ExitStep

\* An item that waits has something that will lead to a drain, unless it was
\* left to a Session past its last drain or a fault ended the run.
THEOREM NoLostWakeUp == Spec => []WaitingHasWaker
<1> DEFINE Inv == Attached /\ WaitingHasWaker
<1>1. Init => Inv
  BY DEF Init, Attached, WaitingHasWaker
<1>2. TypeOK /\ LeaseMatches /\ Inv /\ [Next]_vars => Inv'
  BY AttachedStep, WakerStep
<1>3. Spec => []Inv
  BY <1>1, <1>2, TypeCorrect, LeaseMatchesInvariant, PTL DEF Spec
<1> QED
  BY <1>3, PTL

=============================================================================
