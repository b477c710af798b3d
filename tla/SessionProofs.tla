---------------------------- MODULE SessionProofs ----------------------------
(***************************************************************************)
(* Theorems about Session, for any set of messages and any choice of       *)
(* faults: its types, what no interleaving does to an item, and that it    *)
(* implements ItemLifecycle.                                               *)
(*                                                                         *)
(* ReceivedIsRemembered and OnlyClaimedIsAcked are not inductive: they say *)
(* nothing of the snapshots and batches the tasks carry over their awaits. *)
(* DeliveryInv adds that each of these holds only ids already claimed,     *)
(* and that a claimed id which is still unacked is in promptedIds.         *)
(*                                                                         *)
(* The properties of the turn (NoPromptWhileBusy, BusyTurnIsTimed,         *)
(* AliveUnderLease) rest on where the tasks are: TurnInv says that start   *)
(* sends its prompt before there is any turn, that a final agent_end and   *)
(* the task it starts only meet a pi at rest, and that a task releases the *)
(* lease after the exit of pi.                                             *)
(*                                                                         *)
(* The last part is about PiProcess, whose lines a Session acts on: what   *)
(* the decoder emits after n characters depends on the characters alone,   *)
(* not on the chunks they come in (Decoded, PushedIs).                     *)
(***************************************************************************)
EXTENDS Session, PiProcess, WellFoundedInduction, TLAPS

DeliveryInv ==
  /\ claimed \subseteq seen /\ prompted \subseteq claimed
  /\ claimed \cap unacked \subseteq prompted
  /\ seen \ unacked \subseteq claimed
  /\ Trigger \in seen
  /\ \A i \in Item : got[i] > 0 => i \in claimed
  /\ \A i \in Item : pc[i] = "enqueue" => i \notin seen
  /\ \A t \in Task : todo[t] \subseteq seen
  /\ \A t \in Task : pc[t] = "claim" => batch[t] \subseteq claimed \cup todo[t]
  /\ ackSet \subseteq claimed \cap flushMark
  /\ exitAck \subseteq claimed
  /\ \A c \in Cause : closeAck[c] \subseteq claimed

Alive == pi \in {"idle", "busy"}

\* Until start has sent its prompt there is no turn and no agent_end.
BeforeFirstPrompt ==
  pc["start"] \in {"prepare", "read", "filter", "claim"} =>
    pi # "busy" /\ endEvent = "none" /\ pc["end"] = "idle"

\* A final agent_end leaves pi at rest until onAgentEnd has run to its end.
EndIsAtRest ==
  /\ pc["end"] # "idle" => pi # "busy" /\ endEvent # "final"
  /\ endEvent = "final" => pi # "busy"

\* Before the spawn nothing that ends a Session is on its way.
Unspawned ==
  pc["start"] = "prepare" =>
    /\ pi = "none" /\ lease \notin {"free", "next"}
    /\ \A i \in Item : pc[i] \notin {"read", "filter", "claim"}
    /\ armed = {} /\ ~rejected /\ ~exited /\ ~exitRelease
    /\ \A c \in Cause : closing[c] = "idle"

\* Every release but the one of abnormalShutdown follows the exit of pi.
ReleasedAfterExit ==
  /\ exited => Gone
  /\ exitRelease => exited
  /\ pc["end"] = "release" => exited
  /\ pc["start"] = "release" => ~Alive

TurnInv ==
  /\ BeforeFirstPrompt /\ EndIsAtRest /\ Unspawned /\ ReleasedAfterExit
  /\ BusyTurnIsTimed /\ AliveUnderLease

-----------------------------------------------------------------------------
(* Types.  The flags are proved apart: the prover that knows sets and      *)
(* numbers treats a Boolean variable poorly.                               *)

(* A step keeps every flag Boolean. *)
LEMMA FlagTypesStep ==
  ASSUME FlagTypes, Next
  PROVE  FlagTypes'
<1> USE TaskNamesAssumption DEF FlagTypes
<1>1. ASSUME StartSpawn PROVE FlagTypes'
  BY <1>1, Zenon DEF StartSpawn, Goto, store, endings, history, endVars,
    closeVars, exitVars
<1>2. ASSUME StartThrows PROVE FlagTypes'
  BY <1>2, Zenon DEF StartThrows, Goto, store, core, piVars, endings, history,
    endVars, closeVars, exitVars
<1>3. ASSUME StartFallback PROVE FlagTypes'
  BY <1>3, Zenon DEF StartFallback, Pending, Claim, Goto, store, piVars,
    endings, endVars, closeVars, exitVars
<1>4. ASSUME StartPrompt PROVE FlagTypes'
  BY <1>4, Zenon DEF StartPrompt, ReadyToSend, ArmTurn, PiPrompt, Finish,
    piVars, store, endings, CountDelivery, Goto, endVars, closeVars, exitVars
<1>5. ASSUME StartPut PROVE FlagTypes'
  BY <1>5, Zenon DEF StartPut, Goto, store, core, piVars, endings, history,
    endVars, closeVars, exitVars
<1>6. ASSUME AbortStart PROVE FlagTypes'
  BY <1>6, Zenon DEF AbortStart, Goto, StopLabel, ClearAllTimers, store,
    piVars, endings, history, endVars, closeVars, exitVars
<1>7. ASSUME AbortStopped PROVE FlagTypes'
  BY <1>7, Zenon DEF AbortStopped, Goto, store, core, piVars, endings,
    history, endVars, closeVars, exitVars
<1>8. ASSUME AbortRelease PROVE FlagTypes'
  BY <1>8, Zenon DEF AbortRelease, Goto, ReleaseOrThrow, core, piVars,
    endings, history, ReleaseLease, store, endVars, closeVars, exitVars
<1>9. ASSUME AgentEndRetry PROVE FlagTypes'
  BY <1>9, Zenon DEF AgentEndRetry, store, core, tasks, endings, history,
    endVars, closeVars, exitVars
<1>10. ASSUME AgentEnd PROVE FlagTypes'
  BY <1>10, Zenon DEF AgentEnd, endVars, Goto, store, closeVars, exitVars,
    history
<1>11. ASSUME Flush PROVE FlagTypes'
  BY <1>11, Zenon DEF Flush, Goto, store, core, piVars, endings, history,
    endVars, closeVars, exitVars
<1>12. ASSUME AckTurn PROVE FlagTypes'
  BY <1>12, Zenon DEF AckTurn, Goto, store, piVars, closeVars, exitVars,
    history
<1>13. ASSUME NothingPending PROVE FlagTypes'
  BY <1>13, Zenon DEF NothingPending, Pending, Finish, store, piVars, endings,
    history, Goto, endVars, closeVars, exitVars
<1>14. ASSUME LingerOver PROVE FlagTypes'
  BY <1>14, Zenon DEF LingerOver, Goto, store, core, piVars, closeVars,
    exitVars, history
<1>15. ASSUME PromptNext PROVE FlagTypes'
  BY <1>15, Zenon DEF PromptNext, ReadyToSend, ArmTurn, PiPrompt, piVars,
    Finish, store, endings, CountDelivery, Goto, endVars, closeVars, exitVars
<1>16. ASSUME EndPut PROVE FlagTypes'
  BY <1>16, Zenon DEF EndPut, Goto, StopLabel, store, core, piVars, endings,
    history, endVars, closeVars, exitVars
<1>17. ASSUME EndStopped PROVE FlagTypes'
  BY <1>17, Zenon DEF EndStopped, Goto, ClearAllTimers, store, core, piVars,
    endings, history, endVars, closeVars, exitVars
<1>18. ASSUME EndRelease PROVE FlagTypes'
  BY <1>18, Zenon DEF EndRelease, Goto, ReleaseLease, store, core, piVars,
    endings, history, endVars, closeVars, exitVars
<1>19. ASSUME EndDispose PROVE FlagTypes'
  BY <1>19, Zenon DEF EndDispose, Goto, store, piVars, endings, history,
    endVars, closeVars, exitVars
<1>20. ASSUME NEW t \in Task, DrainRead(t)
       PROVE  FlagTypes'
  BY <1>20, Zenon DEF DrainRead, Goto, store, core, piVars, endings, history,
    endVars, closeVars, exitVars
<1>21. ASSUME NEW t \in Task, DrainThrows(t)
       PROVE  FlagTypes'
  BY <1>21, Zenon DEF DrainThrows, store, Finish, core, piVars, endings,
    history, Goto, endVars, closeVars, exitVars
<1>22. ASSUME NEW t \in Task, FilterAndClaim(t)
       PROVE  FlagTypes'
  BY <1>22, Zenon DEF FilterAndClaim, Pending, Claim, Goto, store, piVars,
    endings, endVars, closeVars, exitVars
<1>23. ASSUME NEW t \in Task, ClaimNext(t)
       PROVE  FlagTypes'
  BY <1>23, Zenon DEF ClaimNext, Claim, store, piVars, endings, endVars,
    closeVars, exitVars
<1>24. ASSUME NEW i \in Item, Find(i)
       PROVE  FlagTypes'
  BY <1>24, Zenon DEF Find, Goto, store, core, piVars, endings, history,
    endVars, closeVars, exitVars
<1>25. ASSUME NEW i \in Item, Enqueue(i)
       PROVE  FlagTypes'
  BY <1>25, Zenon DEF Enqueue, Accept, Goto, core, piVars, endings, history,
    endVars, closeVars, exitVars
<1>26. ASSUME NEW i \in Item, EnqueueOnly(i)
       PROVE  FlagTypes'
  BY <1>26, Zenon DEF EnqueueOnly, Accept, Goto, core, piVars, endings,
    history, endVars, closeVars, exitVars
<1>27. ASSUME NEW i \in Item, CheckRunning(i)
       PROVE  FlagTypes'
  BY <1>27, Zenon DEF CheckRunning, Goto, store, core, piVars, endings,
    history, endVars, closeVars, exitVars
<1>28. ASSUME NEW i \in Item, SteerNothing(i)
       PROVE  FlagTypes'
  BY <1>28, Zenon DEF SteerNothing, Pending, Finish, store, core, piVars,
    endings, history, Goto, endVars, closeVars, exitVars
<1>29. ASSUME NEW i \in Item, Steer(i)
       PROVE  FlagTypes'
  BY <1>29, Zenon DEF Steer, ReadyToSend, ArmTurn, PiSteer, piVars, Finish,
    store, endings, CountDelivery, Gone, Goto, endVars, closeVars, exitVars
<1>30. ASSUME NEW c \in Cause, CloseNotified(c)
       PROVE  FlagTypes'
  BY <1>30, Zenon DEF CloseNotified, store, core, piVars, tasks, endVars,
    exitVars, history
<1>31. ASSUME NEW c \in Cause, CloseAck(c)
       PROVE  FlagTypes'
  BY <1>31, Zenon DEF CloseAck, AckOrThrow, core, piVars, tasks, endVars,
    exitVars, history, store
<1>32. ASSUME NEW c \in Cause, CloseRelease(c)
       PROVE  FlagTypes'
  BY <1>32, Zenon DEF CloseRelease, ReleaseOrThrow, core, piVars, tasks,
    endVars, exitVars, history, ReleaseLease, store
<1>33. ASSUME NEW c \in Cause, CloseKill(c)
       PROVE  FlagTypes'
  BY <1>33, Zenon DEF CloseKill, store, tasks, endVars, exitVars, history
<1>34. ASSUME TurnTimeout PROVE FlagTypes'
  BY <1>34, Zenon DEF TurnTimeout, Shutdown, store, piVars, tasks, endVars,
    exitVars, history
<1>35. ASSUME CommandFailed PROVE FlagTypes'
  BY <1>35, Zenon DEF CommandFailed, Shutdown, store, tasks, endVars,
    exitVars, history
<1>36. ASSUME PiExit PROVE FlagTypes'
  BY <1>36, Zenon DEF PiExit, Gone, ClearAllTimers, store, piVars, tasks,
    endVars, closeVars, history
<1>37. ASSUME ExitAck PROVE FlagTypes'
  BY <1>37, Zenon DEF ExitAck, AckOrThrow, core, piVars, tasks, endVars,
    closeVars, history, store
<1>38. ASSUME ExitRelease PROVE FlagTypes'
  BY <1>38, Zenon DEF ExitRelease, ReleaseOrThrow, core, piVars, tasks,
    endVars, closeVars, history, ReleaseLease, store
<1>39. ASSUME RenewAsk PROVE FlagTypes'
  BY <1>39, Zenon DEF RenewAsk, store, core, piVars, tasks, endVars,
    closeVars, exitVars, history
<1>40. ASSUME RenewRefused PROVE FlagTypes'
  BY <1>40, Zenon DEF RenewRefused, ClearAllTimers, StopLabel, store, piVars,
    tasks, endVars, closeVars, exitVars, history
<1>41. ASSUME RenewStopped PROVE FlagTypes'
  BY <1>41, Zenon DEF RenewStopped, store, core, piVars, tasks, endVars,
    closeVars, exitVars, history
<1>42. ASSUME PiStop PROVE FlagTypes'
  BY <1>42, Zenon DEF PiStop, store, core, tasks, endings, history, endVars,
    closeVars, exitVars
<1>43. ASSUME PiTurnEnds PROVE FlagTypes'
  BY <1>43, Zenon DEF PiTurnEnds, store, core, tasks, endings, history,
    endVars, closeVars, exitVars
<1>44. ASSUME PiRejects PROVE FlagTypes'
  BY <1>44, Zenon DEF PiRejects, store, core, tasks, endings, history,
    endVars, closeVars, exitVars
<1>45. ASSUME PiCrash PROVE FlagTypes'
  BY <1>45, Zenon DEF PiCrash, store, core, tasks, endings, history, endVars,
    closeVars, exitVars
<1>46. ASSUME NextHolder PROVE FlagTypes'
  BY <1>46, Zenon DEF NextHolder, core, piVars, tasks, endings, history,
    endVars, closeVars, exitVars
<1>47. QED
  BY <1>1, <1>2, <1>3, <1>4, <1>5, <1>6, <1>7, <1>8, <1>9, <1>10, <1>11,
    <1>12, <1>13, <1>14, <1>15, <1>16, <1>17, <1>18, <1>19, <1>20, <1>21,
    <1>22, <1>23, <1>24, <1>25, <1>26, <1>27, <1>28, <1>29, <1>30, <1>31,
    <1>32, <1>33, <1>34, <1>35, <1>36, <1>37, <1>38, <1>39, <1>40, <1>41,
    <1>42, <1>43, <1>44, <1>45, <1>46
  DEF Next, Runner, Environment, Start, Event, End, Close, Task

(* A step keeps the type of every other variable. *)
LEMMA DataTypesStep ==
  ASSUME DataTypes, Next
  PROVE  DataTypes'
<1> USE TaskNamesAssumption, TriggerAssumption
       DEF DataTypes, Task, Cause, Timer, StartPc, EndPc, SteerPc
<1>1. ASSUME StartSpawn PROVE DataTypes'
  BY <1>1, SMT DEF StartSpawn, Goto, store, endings, history, endVars,
    closeVars, exitVars
<1>2. ASSUME StartThrows PROVE DataTypes'
  BY <1>2, SMT DEF StartThrows, Goto, store, core, piVars, endings, history,
    endVars, closeVars, exitVars
<1>3. ASSUME StartFallback PROVE DataTypes'
  BY <1>3, SMT DEF StartFallback, Pending, Claim, Goto, store, piVars,
    endings, endVars, closeVars, exitVars
<1>4. ASSUME StartPrompt PROVE DataTypes'
  BY <1>4, SMT DEF StartPrompt, ReadyToSend, ArmTurn, PiPrompt, Finish,
    piVars, store, endings, CountDelivery, Goto, endVars, closeVars, exitVars
<1>5. ASSUME StartPut PROVE DataTypes'
  BY <1>5, SMT DEF StartPut, Goto, store, core, piVars, endings, history,
    endVars, closeVars, exitVars
<1>6. ASSUME AbortStart PROVE DataTypes'
  BY <1>6, SMT DEF AbortStart, Goto, StopLabel, ClearAllTimers, store, piVars,
    endings, history, endVars, closeVars, exitVars
<1>7. ASSUME AbortStopped PROVE DataTypes'
  BY <1>7, SMT DEF AbortStopped, Goto, store, core, piVars, endings, history,
    endVars, closeVars, exitVars
<1>8. ASSUME AbortRelease PROVE DataTypes'
  BY <1>8, SMT DEF AbortRelease, Goto, ReleaseOrThrow, core, piVars, endings,
    history, ReleaseLease, store, endVars, closeVars, exitVars
<1>9. ASSUME AgentEndRetry PROVE DataTypes'
  BY <1>9, SMT DEF AgentEndRetry, store, core, tasks, endings, history,
    endVars, closeVars, exitVars
<1>10. ASSUME AgentEnd PROVE DataTypes'
  BY <1>10, SMT DEF AgentEnd, endVars, Goto, store, closeVars, exitVars,
    history
<1>11. ASSUME Flush PROVE DataTypes'
  BY <1>11, SMT DEF Flush, Goto, store, core, piVars, endings, history,
    endVars, closeVars, exitVars
<1>12. ASSUME AckTurn PROVE DataTypes'
  BY <1>12, SMT DEF AckTurn, Goto, store, piVars, closeVars, exitVars, history
<1>13. ASSUME NothingPending PROVE DataTypes'
  BY <1>13, SMT DEF NothingPending, Pending, Finish, store, piVars, endings,
    history, Goto, endVars, closeVars, exitVars
<1>14. ASSUME LingerOver PROVE DataTypes'
  BY <1>14, SMT DEF LingerOver, Goto, store, core, piVars, closeVars,
    exitVars, history
<1>15. ASSUME PromptNext PROVE DataTypes'
  BY <1>15, SMT DEF PromptNext, ReadyToSend, ArmTurn, PiPrompt, piVars,
    Finish, store, endings, CountDelivery, Goto, endVars, closeVars, exitVars
<1>16. ASSUME EndPut PROVE DataTypes'
  BY <1>16, SMT DEF EndPut, Goto, StopLabel, store, core, piVars, endings,
    history, endVars, closeVars, exitVars
<1>17. ASSUME EndStopped PROVE DataTypes'
  BY <1>17, SMT DEF EndStopped, Goto, ClearAllTimers, store, core, piVars,
    endings, history, endVars, closeVars, exitVars
<1>18. ASSUME EndRelease PROVE DataTypes'
  BY <1>18, SMT DEF EndRelease, Goto, ReleaseLease, store, core, piVars,
    endings, history, endVars, closeVars, exitVars
<1>19. ASSUME EndDispose PROVE DataTypes'
  BY <1>19, SMT DEF EndDispose, Goto, store, piVars, endings, history,
    endVars, closeVars, exitVars
<1>20. ASSUME NEW t \in Task, DrainRead(t)
       PROVE  DataTypes'
  BY <1>20, SMT DEF DrainRead, Goto, store, core, piVars, endings, history,
    endVars, closeVars, exitVars
<1>21. ASSUME NEW t \in Task, DrainThrows(t)
       PROVE  DataTypes'
  BY <1>21, SMT DEF DrainThrows, store, Finish, core, piVars, endings,
    history, Goto, endVars, closeVars, exitVars
<1>22. ASSUME NEW t \in Task, FilterAndClaim(t)
       PROVE  DataTypes'
  BY <1>22, SMT DEF FilterAndClaim, Pending, Claim, Goto, store, piVars,
    endings, endVars, closeVars, exitVars
<1>23. ASSUME NEW t \in Task, ClaimNext(t)
       PROVE  DataTypes'
  BY <1>23, SMT DEF ClaimNext, Claim, store, piVars, endings, endVars,
    closeVars, exitVars
<1>24. ASSUME NEW i \in Item, Find(i)
       PROVE  DataTypes'
  BY <1>24, SMT DEF Find, Goto, store, core, piVars, endings, history,
    endVars, closeVars, exitVars
<1>25. ASSUME NEW i \in Item, Enqueue(i)
       PROVE  DataTypes'
  BY <1>25, SMT DEF Enqueue, Accept, Goto, core, piVars, endings, history,
    endVars, closeVars, exitVars
<1>26. ASSUME NEW i \in Item, EnqueueOnly(i)
       PROVE  DataTypes'
  BY <1>26, SMT DEF EnqueueOnly, Accept, Goto, core, piVars, endings, history,
    endVars, closeVars, exitVars
<1>27. ASSUME NEW i \in Item, CheckRunning(i)
       PROVE  DataTypes'
  BY <1>27, SMT DEF CheckRunning, Goto, store, core, piVars, endings, history,
    endVars, closeVars, exitVars
<1>28. ASSUME NEW i \in Item, SteerNothing(i)
       PROVE  DataTypes'
  BY <1>28, SMT DEF SteerNothing, Pending, Finish, store, core, piVars,
    endings, history, Goto, endVars, closeVars, exitVars
<1>29. ASSUME NEW i \in Item, Steer(i)
       PROVE  DataTypes'
  BY <1>29, SMT DEF Steer, ReadyToSend, ArmTurn, PiSteer, piVars, Finish,
    store, endings, CountDelivery, Gone, Goto, endVars, closeVars, exitVars
<1>30. ASSUME NEW c \in Cause, CloseNotified(c)
       PROVE  DataTypes'
  BY <1>30, SMT DEF CloseNotified, store, core, piVars, tasks, endVars,
    exitVars, history
<1>31. ASSUME NEW c \in Cause, CloseAck(c)
       PROVE  DataTypes'
  BY <1>31, SMT DEF CloseAck, AckOrThrow, core, piVars, tasks, endVars,
    exitVars, history, store
<1>32. ASSUME NEW c \in Cause, CloseRelease(c)
       PROVE  DataTypes'
  BY <1>32, SMT DEF CloseRelease, ReleaseOrThrow, core, piVars, tasks,
    endVars, exitVars, history, ReleaseLease, store
<1>33. ASSUME NEW c \in Cause, CloseKill(c)
       PROVE  DataTypes'
  BY <1>33, SMT DEF CloseKill, store, tasks, endVars, exitVars, history
<1>34. ASSUME TurnTimeout PROVE DataTypes'
  BY <1>34, SMT DEF TurnTimeout, Shutdown, store, piVars, tasks, endVars,
    exitVars, history
<1>35. ASSUME CommandFailed PROVE DataTypes'
  BY <1>35, SMT DEF CommandFailed, Shutdown, store, tasks, endVars, exitVars,
    history
<1>36. ASSUME PiExit PROVE DataTypes'
  <2>1. CASE ~disposed /\ state # "stopping"
    BY <1>36, <2>1 DEF PiExit, ClearAllTimers, closeVars, endVars, history, piVars,
      store, tasks
  <2>2. CASE ~(~disposed /\ state # "stopping")
    BY <1>36, <2>2 DEF PiExit, closeVars, endVars, history, piVars, store, tasks
  <2>3. QED
    BY <2>1, <2>2
<1>37. ASSUME ExitAck PROVE DataTypes'
  BY <1>37, SMT DEF ExitAck, AckOrThrow, core, piVars, tasks, endVars,
    closeVars, history, store
<1>38. ASSUME ExitRelease PROVE DataTypes'
  BY <1>38, SMT DEF ExitRelease, ReleaseOrThrow, core, piVars, tasks, endVars,
    closeVars, history, ReleaseLease, store
<1>39. ASSUME RenewAsk PROVE DataTypes'
  BY <1>39, SMT DEF RenewAsk, store, core, piVars, tasks, endVars, closeVars,
    exitVars, history
<1>40. ASSUME RenewRefused PROVE DataTypes'
  <2>1. CASE disposed
    BY <1>40, <2>1 DEF RenewRefused, tasks, closeVars, endVars, exitVars, history, piVars, store
  <2>2. CASE ~disposed
    <3>1. renewLost' \in {"stop", "stopHangs", "done"}
      BY <1>40, <2>2 DEF RenewRefused, StopLabel
    <3>2. QED
      BY <1>40, <2>2, <3>1 DEF RenewRefused, ClearAllTimers, tasks, closeVars, endVars,
        exitVars, history, piVars, store
  <2>3. QED
    BY <2>1, <2>2
<1>41. ASSUME RenewStopped PROVE DataTypes'
  BY <1>41, SMT DEF RenewStopped, store, core, piVars, tasks, endVars,
    closeVars, exitVars, history
<1>42. ASSUME PiStop PROVE DataTypes'
  BY <1>42, SMT DEF PiStop, store, core, tasks, endings, history, endVars,
    closeVars, exitVars
<1>43. ASSUME PiTurnEnds PROVE DataTypes'
  BY <1>43, SMT DEF PiTurnEnds, store, core, tasks, endings, history, endVars,
    closeVars, exitVars
<1>44. ASSUME PiRejects PROVE DataTypes'
  BY <1>44, SMT DEF PiRejects, store, core, tasks, endings, history, endVars,
    closeVars, exitVars
<1>45. ASSUME PiCrash PROVE DataTypes'
  BY <1>45, SMT DEF PiCrash, store, core, tasks, endings, history, endVars,
    closeVars, exitVars
<1>46. ASSUME NextHolder PROVE DataTypes'
  BY <1>46, SMT DEF NextHolder, core, piVars, tasks, endings, history,
    endVars, closeVars, exitVars
<1>47. QED
  BY <1>1, <1>2, <1>3, <1>4, <1>5, <1>6, <1>7, <1>8, <1>9, <1>10, <1>11,
    <1>12, <1>13, <1>14, <1>15, <1>16, <1>17, <1>18, <1>19, <1>20, <1>21,
    <1>22, <1>23, <1>24, <1>25, <1>26, <1>27, <1>28, <1>29, <1>30, <1>31,
    <1>32, <1>33, <1>34, <1>35, <1>36, <1>37, <1>38, <1>39, <1>40, <1>41,
    <1>42, <1>43, <1>44, <1>45, <1>46
  DEF Next, Runner, Environment, Start, Event, End, Close, Task

(* TypeOK is an invariant: every variable keeps its type in every           *)
(* interleaving, and only accepted items are unacked.                      *)
THEOREM TypeCorrect == Spec => []TypeOK
<1>1. Init => TypeOK
  <2> SUFFICES ASSUME Init PROVE TypeOK
    OBVIOUS
  <2>1. FlagTypes
    BY Zenon DEF Init, FlagTypes
  <2>2. DataTypes
    BY TriggerAssumption, SMT
    DEF Init, DataTypes, Task, Cause, StartPc, EndPc, SteerPc
  <2>3. QED
    BY <2>1, <2>2 DEF TypeOK
<1>2. TypeOK /\ [Next]_vars => TypeOK'
  <2>1. ASSUME TypeOK, Next PROVE TypeOK'
    BY <2>1, FlagTypesStep, DataTypesStep DEF TypeOK
  <2>2. ASSUME TypeOK, UNCHANGED vars PROVE TypeOK'
    <3>1. FlagTypes'
      BY <2>2, Zenon DEF TypeOK, FlagTypes, vars, core, piVars, endings, endVars, exitVars
    <3>2. DataTypes'
      BY <2>2 DEF TypeOK, DataTypes, vars, store, core, piVars, tasks, endings,
        endVars, closeVars, exitVars, history
    <3>3. QED
      BY <3>1, <3>2 DEF TypeOK
  <2>3. QED
    BY <2>1, <2>2
<1>3. QED
  BY <1>1, <1>2, PTL DEF Spec

-----------------------------------------------------------------------------
(* The items.                                                              *)

(* A step keeps what the tasks carry within what has been claimed. *)
LEMMA DeliveryStep ==
  ASSUME DataTypes, DeliveryInv, Next
  PROVE  DeliveryInv'
<1> USE TaskNamesAssumption, TriggerAssumption
       DEF DataTypes, DeliveryInv, Task, Cause
<1>1. ASSUME StartSpawn PROVE DeliveryInv'
  BY <1>1, SMT DEF StartSpawn, Goto, store, endings, history, endVars,
    closeVars, exitVars
<1>2. ASSUME StartThrows PROVE DeliveryInv'
  BY <1>2, SMT DEF StartThrows, Goto, store, core, piVars, endings, history,
    endVars, closeVars, exitVars
<1>3. ASSUME StartFallback PROVE DeliveryInv'
  BY <1>3, SMT DEF StartFallback, Pending, Claim, Goto, store, piVars,
    endings, endVars, closeVars, exitVars
<1>4. ASSUME StartPrompt PROVE DeliveryInv'
  BY <1>4, SMT DEF StartPrompt, ReadyToSend, ArmTurn, PiPrompt, Finish,
    piVars, store, endings, CountDelivery, Goto, endVars, closeVars, exitVars
<1>5. ASSUME StartPut PROVE DeliveryInv'
  BY <1>5, SMT DEF StartPut, Goto, store, core, piVars, endings, history,
    endVars, closeVars, exitVars
<1>6. ASSUME AbortStart PROVE DeliveryInv'
  BY <1>6, SMT DEF AbortStart, Goto, StopLabel, ClearAllTimers, store, piVars,
    endings, history, endVars, closeVars, exitVars
<1>7. ASSUME AbortStopped PROVE DeliveryInv'
  BY <1>7, SMT DEF AbortStopped, Goto, store, core, piVars, endings, history,
    endVars, closeVars, exitVars
<1>8. ASSUME AbortRelease PROVE DeliveryInv'
  BY <1>8, SMT DEF AbortRelease, Goto, ReleaseOrThrow, core, piVars, endings,
    history, ReleaseLease, store, endVars, closeVars, exitVars
<1>9. ASSUME AgentEndRetry PROVE DeliveryInv'
  BY <1>9, SMT DEF AgentEndRetry, store, core, tasks, endings, history,
    endVars, closeVars, exitVars
<1>10. ASSUME AgentEnd PROVE DeliveryInv'
  BY <1>10, SMT DEF AgentEnd, endVars, Goto, store, closeVars, exitVars,
    history
<1>11. ASSUME Flush PROVE DeliveryInv'
  BY <1>11, SMT DEF Flush, Goto, store, core, piVars, endings, history,
    endVars, closeVars, exitVars
<1>12. ASSUME AckTurn PROVE DeliveryInv'
  BY <1>12, SMT DEF AckTurn, Goto, store, piVars, closeVars, exitVars, history
<1>13. ASSUME NothingPending PROVE DeliveryInv'
  BY <1>13, SMT DEF NothingPending, Pending, Finish, store, piVars, endings,
    history, Goto, endVars, closeVars, exitVars
<1>14. ASSUME LingerOver PROVE DeliveryInv'
  BY <1>14, SMT DEF LingerOver, Goto, store, core, piVars, closeVars,
    exitVars, history
<1>15. ASSUME PromptNext PROVE DeliveryInv'
  BY <1>15, SMT DEF PromptNext, ReadyToSend, ArmTurn, PiPrompt, piVars,
    Finish, store, endings, CountDelivery, Goto, endVars, closeVars, exitVars
<1>16. ASSUME EndPut PROVE DeliveryInv'
  BY <1>16, SMT DEF EndPut, Goto, StopLabel, store, core, piVars, endings,
    history, endVars, closeVars, exitVars
<1>17. ASSUME EndStopped PROVE DeliveryInv'
  BY <1>17, SMT DEF EndStopped, Goto, ClearAllTimers, store, core, piVars,
    endings, history, endVars, closeVars, exitVars
<1>18. ASSUME EndRelease PROVE DeliveryInv'
  BY <1>18, SMT DEF EndRelease, Goto, ReleaseLease, store, core, piVars,
    endings, history, endVars, closeVars, exitVars
<1>19. ASSUME EndDispose PROVE DeliveryInv'
  BY <1>19, SMT DEF EndDispose, Goto, store, piVars, endings, history,
    endVars, closeVars, exitVars
<1>20. ASSUME NEW t \in Task, DrainRead(t)
       PROVE  DeliveryInv'
  BY <1>20, SMT DEF DrainRead, Goto, store, core, piVars, endings, history,
    endVars, closeVars, exitVars
<1>21. ASSUME NEW t \in Task, DrainThrows(t)
       PROVE  DeliveryInv'
  BY <1>21, SMT DEF DrainThrows, store, Finish, core, piVars, endings,
    history, Goto, endVars, closeVars, exitVars
<1>22. ASSUME NEW t \in Task, FilterAndClaim(t)
       PROVE  DeliveryInv'
  BY <1>22, SMT DEF FilterAndClaim, Pending, Claim, Goto, store, piVars,
    endings, endVars, closeVars, exitVars
<1>23. ASSUME NEW t \in Task, ClaimNext(t)
       PROVE  DeliveryInv'
  BY <1>23, SMT DEF ClaimNext, Claim, store, piVars, endings, endVars,
    closeVars, exitVars
<1>24. ASSUME NEW i \in Item, Find(i)
       PROVE  DeliveryInv'
  BY <1>24, SMT DEF Find, Goto, store, core, piVars, endings, history,
    endVars, closeVars, exitVars
<1>25. ASSUME NEW i \in Item, Enqueue(i)
       PROVE  DeliveryInv'
  BY <1>25, SMT DEF Enqueue, Accept, Goto, core, piVars, endings, history,
    endVars, closeVars, exitVars
<1>26. ASSUME NEW i \in Item, EnqueueOnly(i)
       PROVE  DeliveryInv'
  BY <1>26, SMT DEF EnqueueOnly, Accept, Goto, core, piVars, endings, history,
    endVars, closeVars, exitVars
<1>27. ASSUME NEW i \in Item, CheckRunning(i)
       PROVE  DeliveryInv'
  BY <1>27, SMT DEF CheckRunning, Goto, store, core, piVars, endings, history,
    endVars, closeVars, exitVars
<1>28. ASSUME NEW i \in Item, SteerNothing(i)
       PROVE  DeliveryInv'
  BY <1>28, SMT DEF SteerNothing, Pending, Finish, store, core, piVars,
    endings, history, Goto, endVars, closeVars, exitVars
<1>29. ASSUME NEW i \in Item, Steer(i)
       PROVE  DeliveryInv'
  BY <1>29, SMT DEF Steer, ReadyToSend, ArmTurn, PiSteer, piVars, Finish,
    store, endings, CountDelivery, Gone, Goto, endVars, closeVars, exitVars
<1>30. ASSUME NEW c \in Cause, CloseNotified(c)
       PROVE  DeliveryInv'
  BY <1>30, SMT DEF CloseNotified, store, core, piVars, tasks, endVars,
    exitVars, history
<1>31. ASSUME NEW c \in Cause, CloseAck(c)
       PROVE  DeliveryInv'
  BY <1>31, SMT DEF CloseAck, AckOrThrow, core, piVars, tasks, endVars,
    exitVars, history, store
<1>32. ASSUME NEW c \in Cause, CloseRelease(c)
       PROVE  DeliveryInv'
  BY <1>32, SMT DEF CloseRelease, ReleaseOrThrow, core, piVars, tasks,
    endVars, exitVars, history, ReleaseLease, store
<1>33. ASSUME NEW c \in Cause, CloseKill(c)
       PROVE  DeliveryInv'
  BY <1>33, SMT DEF CloseKill, store, tasks, endVars, exitVars, history
<1>34. ASSUME TurnTimeout PROVE DeliveryInv'
  BY <1>34, SMT DEF TurnTimeout, Shutdown, store, piVars, tasks, endVars,
    exitVars, history
<1>35. ASSUME CommandFailed PROVE DeliveryInv'
  BY <1>35, SMT DEF CommandFailed, Shutdown, store, tasks, endVars, exitVars,
    history
<1>36. ASSUME PiExit PROVE DeliveryInv'
  BY <1>36, SMT DEF PiExit, Gone, ClearAllTimers, store, piVars, tasks,
    endVars, closeVars, history
<1>37. ASSUME ExitAck PROVE DeliveryInv'
  BY <1>37, SMT DEF ExitAck, AckOrThrow, core, piVars, tasks, endVars,
    closeVars, history, store
<1>38. ASSUME ExitRelease PROVE DeliveryInv'
  BY <1>38, SMT DEF ExitRelease, ReleaseOrThrow, core, piVars, tasks, endVars,
    closeVars, history, ReleaseLease, store
<1>39. ASSUME RenewAsk PROVE DeliveryInv'
  BY <1>39, SMT DEF RenewAsk, store, core, piVars, tasks, endVars, closeVars,
    exitVars, history
<1>40. ASSUME RenewRefused PROVE DeliveryInv'
  BY <1>40, SMT DEF RenewRefused, ClearAllTimers, StopLabel, store, piVars,
    tasks, endVars, closeVars, exitVars, history
<1>41. ASSUME RenewStopped PROVE DeliveryInv'
  BY <1>41, SMT DEF RenewStopped, store, core, piVars, tasks, endVars,
    closeVars, exitVars, history
<1>42. ASSUME PiStop PROVE DeliveryInv'
  BY <1>42, SMT DEF PiStop, store, core, tasks, endings, history, endVars,
    closeVars, exitVars
<1>43. ASSUME PiTurnEnds PROVE DeliveryInv'
  BY <1>43, SMT DEF PiTurnEnds, store, core, tasks, endings, history, endVars,
    closeVars, exitVars
<1>44. ASSUME PiRejects PROVE DeliveryInv'
  BY <1>44, SMT DEF PiRejects, store, core, tasks, endings, history, endVars,
    closeVars, exitVars
<1>45. ASSUME PiCrash PROVE DeliveryInv'
  BY <1>45, SMT DEF PiCrash, store, core, tasks, endings, history, endVars,
    closeVars, exitVars
<1>46. ASSUME NextHolder PROVE DeliveryInv'
  BY <1>46, SMT DEF NextHolder, core, piVars, tasks, endings, history,
    endVars, closeVars, exitVars
<1>47. QED
  BY <1>1, <1>2, <1>3, <1>4, <1>5, <1>6, <1>7, <1>8, <1>9, <1>10, <1>11,
    <1>12, <1>13, <1>14, <1>15, <1>16, <1>17, <1>18, <1>19, <1>20, <1>21,
    <1>22, <1>23, <1>24, <1>25, <1>26, <1>27, <1>28, <1>29, <1>30, <1>31,
    <1>32, <1>33, <1>34, <1>35, <1>36, <1>37, <1>38, <1>39, <1>40, <1>41,
    <1>42, <1>43, <1>44, <1>45, <1>46
  DEF Next, Runner, Environment, Start, Event, End, Close, Task

(* DeliveryInv is an invariant of the Session. *)
THEOREM Delivery == Spec => []DeliveryInv
<1>1. Init => DeliveryInv
  BY TriggerAssumption, SMT DEF Init, DeliveryInv, Task
<1>2. TypeOK /\ DeliveryInv /\ [Next]_vars => DeliveryInv'
  <2>1. ASSUME TypeOK, DeliveryInv, Next PROVE DeliveryInv'
    BY <2>1, DeliveryStep DEF TypeOK
  <2>2. ASSUME DeliveryInv, UNCHANGED vars PROVE DeliveryInv'
    BY <2>2
    DEF DeliveryInv, vars, store, core, tasks, endings, endVars, closeVars,
        exitVars, history
  <2>3. QED
    BY <2>1, <2>2
<1>3. QED
  BY <1>1, <1>2, TypeCorrect, PTL DEF Spec

(* What pi has been given and the Inbox still returns is in promptedIds.   *)
THEOREM Remembered == Spec => []ReceivedIsRemembered
<1>1. TypeOK /\ DeliveryInv => ReceivedIsRemembered
  BY DEF TypeOK, DataTypes, DeliveryInv, ReceivedIsRemembered
<1>2. QED
  BY <1>1, TypeCorrect, Delivery, PTL

(* No ack path acks an item that no delivery has taken.                    *)
THEOREM ClaimedBeforeAck == Spec => []OnlyClaimedIsAcked
<1>1. DeliveryInv => OnlyClaimedIsAcked
  BY DEF DeliveryInv, OnlyClaimedIsAcked
<1>2. QED
  BY <1>1, Delivery, PTL

(* onAgentEnd acks only what was claimed when its flush began.             *)
THEOREM FlushBeforeAck == Spec => AckFollowsFlush
<1>1. DeliveryInv /\ [Next]_vars
        => [AckTurn => unacked \ unacked' \subseteq flushMark]_vars
  BY DEF DeliveryInv, AckTurn
<1>2. QED
  BY <1>1, Delivery, PTL DEF Spec, AckFollowsFlush

-----------------------------------------------------------------------------
(* The turn.                                                               *)

(* A step keeps the tasks, the turn of pi, its timer and the lease in step. *)
LEMMA TurnStep ==
  ASSUME TypeOK, TurnInv, Next
  PROVE  TurnInv'
<1> USE TaskNamesAssumption, TriggerAssumption
       DEF TypeOK, DataTypes, FlagTypes, TurnInv, BusyTurnIsTimed, AliveUnderLease,
           BeforeFirstPrompt, EndIsAtRest, Unspawned, ReleasedAfterExit, Task,
           Cause, Gone, Alive, ProcessRunning
<1>1. ASSUME StartSpawn PROVE TurnInv'
  BY <1>1, SMT DEF StartSpawn, Goto, store, endings, history, endVars,
    closeVars, exitVars
<1>2. ASSUME StartThrows PROVE TurnInv'
  BY <1>2, SMT DEF StartThrows, Goto, store, core, piVars, endings, history,
    endVars, closeVars, exitVars
<1>3. ASSUME StartFallback PROVE TurnInv'
  BY <1>3, SMT DEF StartFallback, Pending, Claim, Goto, store, piVars,
    endings, endVars, closeVars, exitVars
<1>4. ASSUME StartPrompt PROVE TurnInv'
  BY <1>4, SMT DEF StartPrompt, ReadyToSend, ArmTurn, PiPrompt, Finish,
    piVars, store, endings, CountDelivery, Goto, endVars, closeVars, exitVars
<1>5. ASSUME StartPut PROVE TurnInv'
  BY <1>5, SMT DEF StartPut, Goto, store, core, piVars, endings, history,
    endVars, closeVars, exitVars
<1>6. ASSUME AbortStart PROVE TurnInv'
  BY <1>6, SMT DEF AbortStart, Goto, StopLabel, ClearAllTimers, store, piVars,
    endings, history, endVars, closeVars, exitVars
<1>7. ASSUME AbortStopped PROVE TurnInv'
  BY <1>7, SMT DEF AbortStopped, Goto, store, core, piVars, endings, history,
    endVars, closeVars, exitVars
<1>8. ASSUME AbortRelease PROVE TurnInv'
  BY <1>8, SMT DEF AbortRelease, Goto, ReleaseOrThrow, core, piVars, endings,
    history, ReleaseLease, store, endVars, closeVars, exitVars
<1>9. ASSUME AgentEndRetry PROVE TurnInv'
  BY <1>9, SMT DEF AgentEndRetry, store, core, tasks, endings, history,
    endVars, closeVars, exitVars
<1>10. ASSUME AgentEnd PROVE TurnInv'
  BY <1>10, SMT DEF AgentEnd, endVars, Goto, store, closeVars, exitVars,
    history
<1>11. ASSUME Flush PROVE TurnInv'
  BY <1>11, SMT DEF Flush, Goto, store, core, piVars, endings, history,
    endVars, closeVars, exitVars
<1>12. ASSUME AckTurn PROVE TurnInv'
  BY <1>12, SMT DEF AckTurn, Goto, store, piVars, closeVars, exitVars, history
<1>13. ASSUME NothingPending PROVE TurnInv'
  BY <1>13, SMT DEF NothingPending, Pending, Finish, store, piVars, endings,
    history, Goto, endVars, closeVars, exitVars
<1>14. ASSUME LingerOver PROVE TurnInv'
  BY <1>14, SMT DEF LingerOver, Goto, store, core, piVars, closeVars,
    exitVars, history
<1>15. ASSUME PromptNext PROVE TurnInv'
  BY <1>15, SMT DEF PromptNext, ReadyToSend, ArmTurn, PiPrompt, piVars,
    Finish, store, endings, CountDelivery, Goto, endVars, closeVars, exitVars
<1>16. ASSUME EndPut PROVE TurnInv'
  BY <1>16, SMT DEF EndPut, Goto, StopLabel, store, core, piVars, endings,
    history, endVars, closeVars, exitVars
<1>17. ASSUME EndStopped PROVE TurnInv'
  BY <1>17, SMT DEF EndStopped, Goto, ClearAllTimers, store, core, piVars,
    endings, history, endVars, closeVars, exitVars
<1>18. ASSUME EndRelease PROVE TurnInv'
  BY <1>18, SMT DEF EndRelease, Goto, ReleaseLease, store, core, piVars,
    endings, history, endVars, closeVars, exitVars
<1>19. ASSUME EndDispose PROVE TurnInv'
  BY <1>19, SMT DEF EndDispose, Goto, store, piVars, endings, history,
    endVars, closeVars, exitVars
<1>20. ASSUME NEW t \in Task, DrainRead(t)
       PROVE  TurnInv'
  BY <1>20, SMT DEF DrainRead, Goto, store, core, piVars, endings, history,
    endVars, closeVars, exitVars
<1>21. ASSUME NEW t \in Task, DrainThrows(t)
       PROVE  TurnInv'
  BY <1>21, SMT DEF DrainThrows, store, Finish, core, piVars, endings,
    history, Goto, endVars, closeVars, exitVars
<1>22. ASSUME NEW t \in Task, FilterAndClaim(t)
       PROVE  TurnInv'
  BY <1>22, SMT DEF FilterAndClaim, Pending, Claim, Goto, store, piVars,
    endings, endVars, closeVars, exitVars
<1>23. ASSUME NEW t \in Task, ClaimNext(t)
       PROVE  TurnInv'
  BY <1>23, SMT DEF ClaimNext, Claim, store, piVars, endings, endVars,
    closeVars, exitVars
<1>24. ASSUME NEW i \in Item, Find(i)
       PROVE  TurnInv'
  BY <1>24, SMT DEF Find, Goto, store, core, piVars, endings, history,
    endVars, closeVars, exitVars
<1>25. ASSUME NEW i \in Item, Enqueue(i)
       PROVE  TurnInv'
  BY <1>25, SMT DEF Enqueue, Accept, Goto, core, piVars, endings, history,
    endVars, closeVars, exitVars
<1>26. ASSUME NEW i \in Item, EnqueueOnly(i)
       PROVE  TurnInv'
  BY <1>26, SMT DEF EnqueueOnly, Accept, Goto, core, piVars, endings, history,
    endVars, closeVars, exitVars
<1>27. ASSUME NEW i \in Item, CheckRunning(i)
       PROVE  TurnInv'
  BY <1>27, SMT DEF CheckRunning, Goto, store, core, piVars, endings, history,
    endVars, closeVars, exitVars
<1>28. ASSUME NEW i \in Item, SteerNothing(i)
       PROVE  TurnInv'
  BY <1>28, SMT DEF SteerNothing, Pending, Finish, store, core, piVars,
    endings, history, Goto, endVars, closeVars, exitVars
<1>29. ASSUME NEW i \in Item, Steer(i)
       PROVE  TurnInv'
  BY <1>29, SMT DEF Steer, ReadyToSend, ArmTurn, PiSteer, piVars, Finish,
    store, endings, CountDelivery, Gone, Goto, endVars, closeVars, exitVars
<1>30. ASSUME NEW c \in Cause, CloseNotified(c)
       PROVE  TurnInv'
  BY <1>30, SMT DEF CloseNotified, store, core, piVars, tasks, endVars,
    exitVars, history
<1>31. ASSUME NEW c \in Cause, CloseAck(c)
       PROVE  TurnInv'
  BY <1>31, SMT DEF CloseAck, AckOrThrow, core, piVars, tasks, endVars,
    exitVars, history, store
<1>32. ASSUME NEW c \in Cause, CloseRelease(c)
       PROVE  TurnInv'
  BY <1>32, SMT DEF CloseRelease, ReleaseOrThrow, core, piVars, tasks,
    endVars, exitVars, history, ReleaseLease, store
<1>33. ASSUME NEW c \in Cause, CloseKill(c)
       PROVE  TurnInv'
  BY <1>33, SMT DEF CloseKill, store, tasks, endVars, exitVars, history
<1>34. ASSUME TurnTimeout PROVE TurnInv'
  BY <1>34, SMT DEF TurnTimeout, Shutdown, store, piVars, tasks, endVars,
    exitVars, history
<1>35. ASSUME CommandFailed PROVE TurnInv'
  BY <1>35, SMT DEF CommandFailed, Shutdown, store, tasks, endVars, exitVars,
    history
<1>36. ASSUME PiExit PROVE TurnInv'
  BY <1>36, SMT DEF PiExit, Gone, ClearAllTimers, store, piVars, tasks,
    endVars, closeVars, history
<1>37. ASSUME ExitAck PROVE TurnInv'
  BY <1>37, SMT DEF ExitAck, AckOrThrow, core, piVars, tasks, endVars,
    closeVars, history, store
<1>38. ASSUME ExitRelease PROVE TurnInv'
  BY <1>38, SMT DEF ExitRelease, ReleaseOrThrow, core, piVars, tasks, endVars,
    closeVars, history, ReleaseLease, store
<1>39. ASSUME RenewAsk PROVE TurnInv'
  BY <1>39, SMT DEF RenewAsk, store, core, piVars, tasks, endVars, closeVars,
    exitVars, history
<1>40. ASSUME RenewRefused PROVE TurnInv'
  BY <1>40, SMT DEF RenewRefused, ClearAllTimers, StopLabel, store, piVars,
    tasks, endVars, closeVars, exitVars, history
<1>41. ASSUME RenewStopped PROVE TurnInv'
  BY <1>41, SMT DEF RenewStopped, store, core, piVars, tasks, endVars,
    closeVars, exitVars, history
<1>42. ASSUME PiStop PROVE TurnInv'
  BY <1>42, SMT DEF PiStop, store, core, tasks, endings, history, endVars,
    closeVars, exitVars
<1>43. ASSUME PiTurnEnds PROVE TurnInv'
  BY <1>43, SMT DEF PiTurnEnds, store, core, tasks, endings, history, endVars,
    closeVars, exitVars
<1>44. ASSUME PiRejects PROVE TurnInv'
  BY <1>44, SMT DEF PiRejects, store, core, tasks, endings, history, endVars,
    closeVars, exitVars
<1>45. ASSUME PiCrash PROVE TurnInv'
  BY <1>45, SMT DEF PiCrash, store, core, tasks, endings, history, endVars,
    closeVars, exitVars
<1>46. ASSUME NextHolder PROVE TurnInv'
  BY <1>46, SMT DEF NextHolder, core, piVars, tasks, endings, history,
    endVars, closeVars, exitVars
<1>47. QED
  BY <1>1, <1>2, <1>3, <1>4, <1>5, <1>6, <1>7, <1>8, <1>9, <1>10, <1>11,
    <1>12, <1>13, <1>14, <1>15, <1>16, <1>17, <1>18, <1>19, <1>20, <1>21,
    <1>22, <1>23, <1>24, <1>25, <1>26, <1>27, <1>28, <1>29, <1>30, <1>31,
    <1>32, <1>33, <1>34, <1>35, <1>36, <1>37, <1>38, <1>39, <1>40, <1>41,
    <1>42, <1>43, <1>44, <1>45, <1>46
  DEF Next, Runner, Environment, Start, Event, End, Close, Task

(* TurnInv is an invariant of the Session. *)
THEOREM Turns == Spec => []TurnInv
<1>1. Init => TurnInv
  BY TaskNamesAssumption, SMT
  DEF Init, TurnInv, BusyTurnIsTimed, AliveUnderLease, BeforeFirstPrompt,
      EndIsAtRest, Unspawned, ReleasedAfterExit, Task, Cause, Gone, Alive
<1>2. TypeOK /\ TurnInv /\ [Next]_vars => TurnInv'
  <2>1. ASSUME TypeOK, TurnInv, Next PROVE TurnInv'
    BY <2>1, TurnStep
  <2>2. ASSUME TurnInv, UNCHANGED vars PROVE TurnInv'
    BY <2>2
    DEF TurnInv, BusyTurnIsTimed, AliveUnderLease, BeforeFirstPrompt,
        EndIsAtRest, Unspawned, ReleasedAfterExit, Gone, Alive, vars, store,
        core, piVars, tasks, endings, closeVars, exitVars
  <2>3. QED
    BY <2>1, <2>2
<1>3. QED
  BY <1>1, <1>2, TypeCorrect, PTL DEF Spec

(* Neither start nor a continuation of onAgentEnd is ready to prompt while *)
(* pi is in a turn.                                                        *)
THEOREM NoPromptInTurn == Spec => []NoPromptWhileBusy
<1>1. TurnInv => NoPromptWhileBusy
  BY DEF TurnInv, BeforeFirstPrompt, EndIsAtRest, NoPromptWhileBusy, ReadyToSend
<1>2. QED
  BY <1>1, Turns, PTL

(* Every turn of a Session that is not on its way out has its timeout armed. *)
THEOREM TurnTimed == Spec => []BusyTurnIsTimed
<1>1. TurnInv => BusyTurnIsTimed
  BY DEF TurnInv
<1>2. QED
  BY <1>1, Turns, PTL

(* A living pi has its lease, but for the step between the release and the *)
(* kill of abnormalShutdown.                                               *)
THEOREM LeaseWhileAlive == Spec => []AliveUnderLease
<1>1. TurnInv => AliveUnderLease
  BY DEF TurnInv
<1>2. QED
  BY <1>1, Turns, PTL

-----------------------------------------------------------------------------
(* The refinement.                                                         *)

(* Accepting a new item is an Accept of ItemLifecycle. *)
LEMMA AcceptMaps ==
  ASSUME NEW i \in Item, DeliveryInv, i \notin seen, Accept(i), prompted' = prompted
  PROVE  Lifecycle!Next
<1>1. Lifecycle!Accept({i})
  BY DEF DeliveryInv, Accept, Lifecycle!Accept, Lifecycle!Move, StatusOf
<1>2. QED
  BY <1>1 DEF Lifecycle!Next

(* Claiming an item takes it, or changes nothing if it is acked or taken. *)
LEMMA ClaimMaps ==
  ASSUME NEW i \in Item, DataTypes, i \in seen, Claim(i), UNCHANGED <<seen, unacked>>
  PROVE  Lifecycle!Next
<1>1. Lifecycle!Take({i} \cap (unacked \ prompted))
  BY DEF DataTypes, Claim, Lifecycle!Take, Lifecycle!Move, StatusOf
<1>2. QED
  BY <1>1 DEF Lifecycle!Next

(* Acking ids that were all claimed is an Ack of those still unacked. *)
LEMMA AckMaps ==
  ASSUME NEW S, S \subseteq claimed, DataTypes, DeliveryInv, seen' = seen,
         unacked' = unacked \ S, prompted' \in {prompted, prompted \ S}
  PROVE  Lifecycle!Next
<1>1. Lifecycle!Ack(S \cap unacked)
  BY DEF DataTypes, DeliveryInv, Lifecycle!Ack, Lifecycle!Move, StatusOf
<1>2. S \cap unacked \in SUBSET Item
  BY DEF DataTypes
<1>3. QED
  BY <1>1, <1>2 DEF Lifecycle!Next

(* What leaves the three sets alone leaves every status alone. *)
LEMMA QuietMaps ==
  ASSUME UNCHANGED <<seen, unacked, prompted>>
  PROVE  UNCHANGED StatusOf
BY DEF StatusOf

(* Every step of a Session is a step of ItemLifecycle or leaves it alone. *)
LEMMA StepMaps ==
  ASSUME DataTypes, DeliveryInv, Next
  PROVE  [Lifecycle!Next]_StatusOf
<1>1. ASSUME StartSpawn
      PROVE  [Lifecycle!Next]_StatusOf
  BY <1>1, QuietMaps DEF StartSpawn, store
<1>2. ASSUME StartThrows
      PROVE  [Lifecycle!Next]_StatusOf
  BY <1>2, QuietMaps DEF StartThrows, store, core
<1>3. ASSUME StartFallback
      PROVE  [Lifecycle!Next]_StatusOf
  BY <1>3, TriggerAssumption, ClaimMaps DEF StartFallback, store, DeliveryInv
<1>4. ASSUME StartPrompt
      PROVE  [Lifecycle!Next]_StatusOf
  BY <1>4, QuietMaps DEF StartPrompt, store
<1>5. ASSUME StartPut
      PROVE  [Lifecycle!Next]_StatusOf
  BY <1>5, QuietMaps DEF StartPut, store, core
<1>6. ASSUME AbortStart
      PROVE  [Lifecycle!Next]_StatusOf
  BY <1>6, QuietMaps DEF AbortStart, store
<1>7. ASSUME AbortStopped
      PROVE  [Lifecycle!Next]_StatusOf
  BY <1>7, QuietMaps DEF AbortStopped, store, core
<1>8. ASSUME AbortRelease
      PROVE  [Lifecycle!Next]_StatusOf
  BY <1>8, QuietMaps DEF AbortRelease, core
<1>9. ASSUME AgentEndRetry
      PROVE  [Lifecycle!Next]_StatusOf
  BY <1>9, QuietMaps DEF AgentEndRetry, store, core
<1>10. ASSUME AgentEnd
       PROVE  [Lifecycle!Next]_StatusOf
  BY <1>10, QuietMaps DEF AgentEnd, store
<1>11. ASSUME Flush
       PROVE  [Lifecycle!Next]_StatusOf
  BY <1>11, QuietMaps DEF Flush, store, core
<1>12. ASSUME AckTurn
       PROVE  [Lifecycle!Next]_StatusOf
  <2>1. CASE unacked' = unacked \ ackSet /\ prompted' = prompted \ ackSet
    BY <1>12, <2>1, AckMaps DEF AckTurn, DeliveryInv
  <2>2. CASE UNCHANGED <<unacked, prompted>>
    BY <1>12, <2>2, QuietMaps DEF AckTurn
  <2>3. QED
    BY <1>12, <2>1, <2>2 DEF AckTurn
<1>13. ASSUME NothingPending
       PROVE  [Lifecycle!Next]_StatusOf
  BY <1>13, QuietMaps DEF NothingPending, store
<1>14. ASSUME LingerOver
       PROVE  [Lifecycle!Next]_StatusOf
  BY <1>14, QuietMaps DEF LingerOver, store, core
<1>15. ASSUME PromptNext
       PROVE  [Lifecycle!Next]_StatusOf
  BY <1>15, QuietMaps DEF PromptNext, store
<1>16. ASSUME EndPut
       PROVE  [Lifecycle!Next]_StatusOf
  BY <1>16, QuietMaps DEF EndPut, store, core
<1>17. ASSUME EndStopped
       PROVE  [Lifecycle!Next]_StatusOf
  BY <1>17, QuietMaps DEF EndStopped, store, core
<1>18. ASSUME EndRelease
       PROVE  [Lifecycle!Next]_StatusOf
  BY <1>18, QuietMaps DEF EndRelease, store, core
<1>19. ASSUME EndDispose
       PROVE  [Lifecycle!Next]_StatusOf
  BY <1>19, QuietMaps DEF EndDispose, store
<1>20. ASSUME NEW t \in Task, DrainRead(t)
       PROVE  [Lifecycle!Next]_StatusOf
  BY <1>20, QuietMaps DEF DrainRead, store, core
<1>21. ASSUME NEW t \in Task, DrainThrows(t)
       PROVE  [Lifecycle!Next]_StatusOf
  BY <1>21, QuietMaps DEF DrainThrows, store, core
<1>22. ASSUME NEW t \in Task, FilterAndClaim(t)
       PROVE  [Lifecycle!Next]_StatusOf
  <2>1. PICK i \in Pending(t) : Claim(i)
    BY <1>22 DEF FilterAndClaim
  <2>2. i \in Item /\ i \in seen
    BY <1>22, <2>1 DEF Pending, DataTypes, DeliveryInv
  <2>3. QED
    BY <1>22, <2>1, <2>2, ClaimMaps DEF FilterAndClaim, store
<1>23. ASSUME NEW t \in Task, ClaimNext(t)
       PROVE  [Lifecycle!Next]_StatusOf
  <2>1. PICK i \in todo[t] : Claim(i)
    BY <1>23 DEF ClaimNext
  <2>2. i \in Item /\ i \in seen
    BY <1>23, <2>1 DEF DataTypes, DeliveryInv
  <2>3. QED
    BY <1>23, <2>1, <2>2, ClaimMaps DEF ClaimNext, store
<1>24. ASSUME NEW i \in Item, Find(i)
       PROVE  [Lifecycle!Next]_StatusOf
  BY <1>24, QuietMaps DEF Find, store, core
<1>25. ASSUME NEW i \in Item, Enqueue(i)
       PROVE  [Lifecycle!Next]_StatusOf
  BY <1>25, AcceptMaps DEF Enqueue, core, DeliveryInv
<1>26. ASSUME NEW i \in Item, EnqueueOnly(i)
       PROVE  [Lifecycle!Next]_StatusOf
  BY <1>26, AcceptMaps DEF EnqueueOnly, core, DeliveryInv
<1>27. ASSUME NEW i \in Item, CheckRunning(i)
       PROVE  [Lifecycle!Next]_StatusOf
  BY <1>27, QuietMaps DEF CheckRunning, store, core
<1>28. ASSUME NEW i \in Item, SteerNothing(i)
       PROVE  [Lifecycle!Next]_StatusOf
  BY <1>28, QuietMaps DEF SteerNothing, store, core
<1>29. ASSUME NEW i \in Item, Steer(i)
       PROVE  [Lifecycle!Next]_StatusOf
  BY <1>29, QuietMaps DEF Steer, store
<1>30. ASSUME NEW c \in Cause, CloseNotified(c)
       PROVE  [Lifecycle!Next]_StatusOf
  BY <1>30, QuietMaps DEF CloseNotified, store, core
<1>31. ASSUME NEW c \in Cause, CloseAck(c)
       PROVE  [Lifecycle!Next]_StatusOf
  <2>1. CASE unacked' = unacked \ closeAck[c]
    BY <1>31, <2>1, AckMaps DEF CloseAck, core, DeliveryInv
  <2>2. CASE UNCHANGED unacked
    BY <1>31, <2>2, QuietMaps DEF CloseAck, core
  <2>3. QED
    BY <1>31, <2>1, <2>2 DEF CloseAck, AckOrThrow
<1>32. ASSUME NEW c \in Cause, CloseRelease(c)
       PROVE  [Lifecycle!Next]_StatusOf
  BY <1>32, QuietMaps DEF CloseRelease, core
<1>33. ASSUME NEW c \in Cause, CloseKill(c)
       PROVE  [Lifecycle!Next]_StatusOf
  BY <1>33, QuietMaps DEF CloseKill, store
<1>34. ASSUME TurnTimeout
       PROVE  [Lifecycle!Next]_StatusOf
  BY <1>34, QuietMaps DEF TurnTimeout, store
<1>35. ASSUME CommandFailed
       PROVE  [Lifecycle!Next]_StatusOf
  BY <1>35, QuietMaps DEF CommandFailed, store
<1>36. ASSUME PiExit
       PROVE  [Lifecycle!Next]_StatusOf
  BY <1>36, QuietMaps DEF PiExit, store
<1>37. ASSUME ExitAck
       PROVE  [Lifecycle!Next]_StatusOf
  <2>1. CASE unacked' = unacked \ exitAck
    BY <1>37, <2>1, AckMaps DEF ExitAck, core, DeliveryInv
  <2>2. CASE UNCHANGED unacked
    BY <1>37, <2>2, QuietMaps DEF ExitAck, core
  <2>3. QED
    BY <1>37, <2>1, <2>2 DEF ExitAck, AckOrThrow
<1>38. ASSUME ExitRelease
       PROVE  [Lifecycle!Next]_StatusOf
  BY <1>38, QuietMaps DEF ExitRelease, core
<1>39. ASSUME RenewAsk
       PROVE  [Lifecycle!Next]_StatusOf
  BY <1>39, QuietMaps DEF RenewAsk, store, core
<1>40. ASSUME RenewRefused
       PROVE  [Lifecycle!Next]_StatusOf
  BY <1>40, QuietMaps DEF RenewRefused, store
<1>41. ASSUME RenewStopped
       PROVE  [Lifecycle!Next]_StatusOf
  BY <1>41, QuietMaps DEF RenewStopped, store, core
<1>42. ASSUME PiStop
       PROVE  [Lifecycle!Next]_StatusOf
  BY <1>42, QuietMaps DEF PiStop, store, core
<1>43. ASSUME PiTurnEnds
       PROVE  [Lifecycle!Next]_StatusOf
  BY <1>43, QuietMaps DEF PiTurnEnds, store, core
<1>44. ASSUME PiRejects
       PROVE  [Lifecycle!Next]_StatusOf
  BY <1>44, QuietMaps DEF PiRejects, store, core
<1>45. ASSUME PiCrash
       PROVE  [Lifecycle!Next]_StatusOf
  BY <1>45, QuietMaps DEF PiCrash, store, core
<1>46. ASSUME NextHolder
       PROVE  [Lifecycle!Next]_StatusOf
  BY <1>46, QuietMaps DEF NextHolder, core
<1>47. QED
  BY <1>1, <1>2, <1>3, <1>4, <1>5, <1>6, <1>7, <1>8, <1>9, <1>10, <1>11,
    <1>12, <1>13, <1>14, <1>15, <1>16, <1>17, <1>18, <1>19, <1>20, <1>21,
    <1>22, <1>23, <1>24, <1>25, <1>26, <1>27, <1>28, <1>29, <1>30, <1>31,
    <1>32, <1>33, <1>34, <1>35, <1>36, <1>37, <1>38, <1>39, <1>40, <1>41,
    <1>42, <1>43, <1>44, <1>45, <1>46
  DEF Next, Runner, Environment, Start, Event, End, Close, Task

(* The Session implements ItemLifecycle: no item is given back, acked      *)
(* before it was taken, or taken up again after its ack.                   *)
THEOREM Implements == Spec => LifecycleSpec
<1>1. Init => Lifecycle!Init
  BY DEF Init, Lifecycle!Init, StatusOf
<1>2. TypeOK /\ DeliveryInv /\ [Next]_vars => [Lifecycle!Next]_StatusOf
  <2>1. ASSUME TypeOK, DeliveryInv, Next PROVE [Lifecycle!Next]_StatusOf
    BY <2>1, StepMaps DEF TypeOK
  <2>2. ASSUME UNCHANGED vars PROVE [Lifecycle!Next]_StatusOf
    BY <2>2, QuietMaps DEF vars, store, core
  <2>3. QED
    BY <2>1, <2>2
<1>3. QED
  BY <1>1, <1>2, TypeCorrect, Delivery, PTL DEF Spec, LifecycleSpec, Lifecycle!Spec


-----------------------------------------------------------------------------
(***************************************************************************)
(* PiProcess: the decoder of what pi writes.                               *)
(***************************************************************************)

RecordCount == Len(Places)

LEMMA StreamFacts ==
  /\ Stream \in Seq(Range(Stream)) /\ Len(Stream) \in Nat /\ RecordCount \in Nat
  /\ DOMAIN Stream = 1..Len(Stream) /\ DOMAIN Places = 1..RecordCount
  /\ BeginOf(RecordCount + 1) = Len(Stream) + 1 /\ EndOf(0) = 0
  /\ \A k \in 1..RecordCount : BeginOf(k) \in 1..Len(Stream) /\ EndOf(k) \in 1..Len(Stream)
<1>1. /\ Stream \in Seq(Range(Stream)) /\ Len(Stream) \in Nat /\ RecordCount \in Nat
      /\ DOMAIN Stream = 1..Len(Stream) /\ DOMAIN Places = 1..RecordCount
  BY StreamAssumption DEF RecordCount
<1>2. BeginOf(RecordCount + 1) = Len(Stream) + 1 /\ EndOf(0) = 0
  BY <1>1 DEF BeginOf, EndOf
<1>3. ASSUME NEW k \in 1..RecordCount
      PROVE  BeginOf(k) \in 1..Len(Stream) /\ EndOf(k) \in 1..Len(Stream)
  <2>1. Places[k] \in (DOMAIN Stream) \X (DOMAIN Stream)
    BY <1>1, StreamAssumption
  <2> QED BY <1>1, <2>1 DEF BeginOf, EndOf
<1> QED BY <1>1, <1>2, <1>3


LEMMA RecordFacts ==
  ASSUME NEW k \in 1..RecordCount
  PROVE  /\ BeginOf(k) \in 1..Len(Stream) /\ EndOf(k) \in 1..Len(Stream)
         /\ BeginOf(k) <= EndOf(k) /\ Stream[EndOf(k)] # "cr"
         /\ \A j \in BeginOf(k)..EndOf(k) : Stream[j] # "lf"
         /\ \A j \in BeginOf(k)..(EndOf(k) - 1) :
              SubSeq(Stream, BeginOf(k), j) \notin Range(Records)
         /\ Records[k] = SubSeq(Stream, BeginOf(k), EndOf(k))
<1>1. k \in DOMAIN Places
  BY StreamFacts
<1> QED BY <1>1, StreamFacts, StreamAssumption DEF Records

\* b is what Stream has after s and up to n.
Piece(b, s, n) ==
  /\ b \in Seq(Range(Stream)) /\ Len(b) = n - s
  /\ \A i \in 1..(n - s) : b[i] = Stream[s + i]

LEMMA PieceIs ==
  ASSUME NEW s \in Nat, NEW n \in Nat, s <= n, n <= Len(Stream), NEW b
  PROVE  Piece(b, s, n) <=> b = SubSeq(Stream, s + 1, n)
<1> DEFINE part == SubSeq(Stream, s + 1, n)
<1>1. part \in Seq(Range(Stream))
  BY StreamFacts
<1>2. Len(part) = n - s /\ \A i \in 1..(n - s) : part[i] = Stream[s + i]
  BY StreamFacts
<1>3. ASSUME Piece(b, s, n) PROVE b = part
  <2>1. Len(b) = Len(part) /\ \A i \in 1..Len(b) : b[i] = part[i]
    BY <1>2, <1>3 DEF Piece
  <2>2. b \in Seq(Range(Stream))
    BY <1>3 DEF Piece
  <2> HIDE DEF part
  <2> QED BY <1>1, <2>1, <2>2
<1>4. Piece(part, s, n)
  <2> HIDE DEF part
  <2> QED BY <1>1, <1>2 DEF Piece
<1> QED BY <1>3, <1>4

\* A record is not empty.
LEMMA PartIs ==
  ASSUME NEW S, NEW q \in Seq(S), NEW a \in Nat, NEW z \in Nat,
         1 <= a, a <= z, z <= Len(q)
  PROVE  SubSeq(q, a, z) \in Seq(S) /\ SubSeq(q, a, z) # <<>>
<1>1. SubSeq(q, a, z) \in Seq(S)
  OBVIOUS
<1>2. Len(SubSeq(q, a, z)) = (z - a) + 1
  OBVIOUS
<1>3. (z - a) + 1 # 0
  OBVIOUS
<1> QED BY <1>1, <1>2, <1>3

\* Dropping a CR at the end.
LEMMA ChompIs ==
  ASSUME NEW s \in Nat, NEW n \in Nat, s <= n, n <= Len(Stream), NEW b, Piece(b, s, n)
  PROVE  /\ s < n /\ Stream[n] = "cr" => Piece(Chomp(b), s, n - 1)
         /\ s = n \/ Stream[n] # "cr" => Chomp(b) = b
<1>1. b \in Seq(Range(Stream)) /\ Len(b) = n - s
  BY DEF Piece
<1>2. b # <<>> <=> s < n
  BY <1>1
<1>3. ASSUME s < n PROVE Last(b) = Stream[n]
  <2>1. n - s \in 1..(n - s) /\ s + (n - s) = n
    BY <1>3
  <2> QED BY <1>1, <2>1 DEF Piece, Last
<1>4. ASSUME s < n, Stream[n] = "cr" PROVE Piece(Chomp(b), s, n - 1)
  <2>1. Chomp(b) = SubSeq(b, 1, (n - s) - 1)
    BY <1>1, <1>2, <1>3, <1>4 DEF Chomp, Front
  <2>2. (n - s) - 1 \in 0..Len(b)
    BY <1>1, <1>4
  <2>3. /\ SubSeq(b, 1, (n - s) - 1) \in Seq(Range(Stream))
        /\ Len(SubSeq(b, 1, (n - s) - 1)) = (n - s) - 1
        /\ \A i \in 1..((n - s) - 1) : SubSeq(b, 1, (n - s) - 1)[i] = b[i]
    BY <1>1, <2>2
  <2>4. (n - s) - 1 = (n - 1) - s
    OBVIOUS
  <2> QED BY <2>1, <2>3, <2>4, <1>1 DEF Piece
<1> QED BY <1>2, <1>3, <1>4 DEF Chomp

\* Between two records there is at most one character that ends no line.
LEMMA TailIsCr ==
  ASSUME NEW k \in 0..RecordCount, NEW t \in Nat, NEW n \in Nat, n <= Len(Stream),
         EndOf(k) <= t, t < n, n < BeginOf(k + 1),
         \A j \in (t + 1)..n : Stream[j] # "lf"
  PROVE  n = t + 1 /\ Stream[n] = "cr"
<1>1. EndOf(k) \in Nat /\ BeginOf(k + 1) \in Nat
  BY StreamFacts
<1>2. t + 1 \in Gap(k) /\ t + 1 \in (t + 1)..n
  BY <1>1 DEF Gap
<1>3. Stream[t + 1] = "cr" /\ (t + 1 = Len(Stream) \/ Stream[t + 2] = "lf")
  BY <1>2, StreamAssumption DEF RecordCount
<1>4. n = t + 1
  <2> SUFFICES ASSUME t + 2 <= n PROVE FALSE
    OBVIOUS
  <2>1. Len(Stream) \in Nat
    BY StreamFacts
  <2>2. t + 2 \in (t + 1)..n
    OBVIOUS
  <2>3. t + 1 # Len(Stream)
    BY <2>1
  <2> QED BY <1>3, <2>2, <2>3
<1> QED BY <1>3, <1>4

-----------------------------------------------------------------------------

Emitted == [line : Seq(Range(Stream)), kind : {"event", "response", "invalid"}]
Whole(k) == [line |-> Records[k], kind |-> Kind(Records[k])]

\* The inductive invariant of the decoder.  After n characters m records have
\* come out, and the last LF was at s.
Decoded(n, m, s, b, ls) ==
  /\ n \in 0..Len(Stream) /\ m \in 0..RecordCount /\ s \in 0..n
  /\ \A j \in (s + 1)..n : Stream[j] # "lf"
  /\ EndOf(m) <= s /\ s < BeginOf(m + 1)
  /\ Piece(b, s, n)
  /\ ls \in Seq(Emitted) /\ Len(ls) = m
  /\ \A k \in 1..m : ls[k] = Whole(k)

\* What is left when a record has begun begins with it.
LEMMA BeginsALine ==
  ASSUME NEW n, NEW m, NEW s, NEW b, NEW ls, Decoded(n, m, s, b, ls),
         m < RecordCount, BeginOf(m + 1) <= n
  PROVE  BeginOf(m + 1) = s + 1
<1> DEFINE j == BeginOf(m + 1) - 1
<1>1. /\ m \in Nat /\ n \in Nat /\ s \in Nat /\ n <= Len(Stream) /\ Len(Stream) \in Nat
      /\ m + 1 \in 1..RecordCount /\ EndOf(m) \in Nat /\ BeginOf(m + 1) \in 1..Len(Stream)
      /\ EndOf(m + 1) \in Nat /\ RecordCount \in Nat
  BY StreamFacts DEF Decoded
<1> SUFFICES ASSUME s + 1 < BeginOf(m + 1) PROVE FALSE
  BY <1>1 DEF Decoded
<1>2. j \in Gap(m) /\ m \in 0..RecordCount
  BY <1>1 DEF Decoded, Gap
<1>3. j \in (s + 1)..n /\ j # Len(Stream) /\ j + 1 = BeginOf(m + 1)
  BY <1>1
<1>4. Stream[j + 1] # "lf"
  <2>1. BeginOf(m + 1) <= EndOf(m + 1)
    BY <1>1, RecordFacts
  <2>2. BeginOf(m + 1) \in BeginOf(m + 1)..EndOf(m + 1)
    BY <1>1, <2>1
  <2>3. Stream[BeginOf(m + 1)] # "lf"
    BY <1>1, <2>2, RecordFacts
  <2> QED BY <1>3, <2>3
<1>5. Stream[j] # "lf"
  BY <1>3 DEF Decoded
<1> HIDE DEF j
<1> QED BY <1>2, <1>3, <1>4, <1>5, StreamAssumption DEF RecordCount

\* The record after one that is whole and still in its line has not begun.
LEMMA OneInALine ==
  ASSUME NEW n, NEW m, NEW s, NEW b, NEW ls, Decoded(n, m, s, b, ls),
         m < RecordCount, EndOf(m + 1) <= n
  PROVE  n < BeginOf(m + 2)
<1>1. /\ m \in Nat /\ n \in Nat /\ s \in Nat /\ n <= Len(Stream) /\ Len(Stream) \in Nat
      /\ m + 1 \in 1..RecordCount /\ EndOf(m + 1) \in Nat /\ RecordCount \in Nat
  BY StreamFacts DEF Decoded
<1>2. CASE m + 1 = RecordCount
  <2>1. m + 2 = RecordCount + 1
    BY <1>1, <1>2
  <2> QED BY <1>1, <2>1, StreamFacts
<1>3. CASE m + 1 # RecordCount
  <2>1. m + 1 \in 1..(RecordCount - 1) /\ m + 1 \in 0..RecordCount /\ m + 2 = (m + 1) + 1
    BY <1>1, <1>3
  <2>2. PICK j \in Gap(m + 1) : Stream[j] = "lf"
    BY <2>1, StreamAssumption DEF RecordCount
  <2>3. BeginOf(m + 2) \in Nat /\ BeginOf(m + 1) \in Nat /\ BeginOf(m + 1) <= EndOf(m + 1)
    <3>1. m + 2 \in 1..RecordCount
      BY <1>1, <1>3
    <3>2. BeginOf(m + 2) \in Nat
      BY <3>1, RecordFacts
    <3>3. BeginOf(m + 1) \in Nat /\ BeginOf(m + 1) <= EndOf(m + 1)
      BY <1>1, RecordFacts
    <3> QED BY <3>2, <3>3
  <2>4. j \in Nat /\ EndOf(m + 1) < j /\ j < BeginOf(m + 2)
    BY <1>1, <2>1, <2>2, <2>3 DEF Gap
  <2>5. s < j
    BY <1>1, <2>3, <2>4 DEF Decoded
  <2>6. j \notin (s + 1)..n
    BY <2>2 DEF Decoded
  <2> QED BY <1>1, <2>3, <2>4, <2>5, <2>6
<1> QED BY <1>2, <1>3

\* What comes out when the line that is left is taken for whole.
LEMMA LineIs ==
  ASSUME NEW n, NEW m, NEW s, NEW b, NEW ls, Decoded(n, m, s, b, ls)
  PROVE  /\ n < BeginOf(m + 1) => Chomp(b) = <<>>
         /\ m < RecordCount /\ EndOf(m + 1) <= n => Chomp(b) = Records[m + 1]
         /\ m < RecordCount /\ BeginOf(m + 1) <= n /\ n < EndOf(m + 1) =>
              \/ Chomp(b) = <<>>
              \/ \E j \in BeginOf(m + 1)..(EndOf(m + 1) - 1) :
                   Chomp(b) = SubSeq(Stream, BeginOf(m + 1), j)
<1>1. /\ m \in 0..RecordCount /\ m \in Nat /\ n \in Nat /\ s \in Nat /\ s <= n /\ n <= Len(Stream)
      /\ Len(Stream) \in Nat /\ RecordCount \in Nat /\ Piece(b, s, n)
  BY StreamFacts DEF Decoded
<1>2. ASSUME n < BeginOf(m + 1) PROVE Chomp(b) = <<>>
  <2>1. CASE s = n
    <3>1. Chomp(b) = b
      BY <1>1, <2>1, ChompIs
    <3>2. b \in Seq(Range(Stream)) /\ Len(b) = 0
      BY <1>1, <2>1 DEF Piece
    <3> QED BY <3>1, <3>2
  <2>2. CASE s < n
    <3>1. n = s + 1 /\ Stream[n] = "cr"
      BY <1>1, <1>2, <2>2, TailIsCr DEF Decoded
    <3>2. Piece(Chomp(b), s, n - 1) /\ (n - 1) - s = 0
      BY <1>1, <2>2, <3>1, ChompIs
    <3> QED BY <3>2 DEF Piece
  <2> QED BY <1>1, <2>1, <2>2
<1>3. ASSUME m < RecordCount
      PROVE  /\ m + 1 \in 1..RecordCount
             /\ BeginOf(m + 1) \in 1..Len(Stream) /\ EndOf(m + 1) \in 1..Len(Stream)
             /\ BeginOf(m + 1) <= EndOf(m + 1)
             /\ BeginOf(m + 1) <= n => BeginOf(m + 1) = s + 1
  <2>1. m + 1 \in 1..RecordCount
    BY <1>1, <1>3
  <2>2. BeginOf(m + 1) <= n => BeginOf(m + 1) = s + 1
    BY <1>1, <1>3, BeginsALine
  <2> QED BY <2>1, <2>2, RecordFacts
<1>4. ASSUME m < RecordCount, EndOf(m + 1) <= n PROVE Chomp(b) = Records[m + 1]
  <2> DEFINE t == EndOf(m + 1)
  <2>1. t \in Nat /\ s < t /\ t <= n /\ BeginOf(m + 1) = s + 1
    BY <1>1, <1>3, <1>4
  <2>2. Piece(Chomp(b), s, t)
    <3>1. CASE t = n
      <4>1. Stream[n] # "cr"
        BY <1>3, <1>4, <3>1, RecordFacts
      <4> QED BY <1>1, <3>1, <4>1, ChompIs
    <3>2. CASE t < n
      <4>1. n < BeginOf((m + 1) + 1)
        <5>1. m + 2 = (m + 1) + 1
          BY <1>1
        <5> QED BY <1>1, <1>4, <5>1, OneInALine
      <4>2. \A j \in (t + 1)..n : Stream[j] # "lf"
        <5>1. \A j \in (t + 1)..n : j \in (s + 1)..n
          BY <1>1, <2>1
        <5> QED BY <5>1 DEF Decoded
      <4>3. m + 1 \in 0..RecordCount /\ EndOf(m + 1) <= t
        BY <1>1, <1>3, <1>4
      <4> HIDE DEF t
      <4>4. n = t + 1 /\ Stream[n] = "cr"
        BY <1>1, <2>1, <3>2, <4>1, <4>2, <4>3, TailIsCr
      <4>5. Piece(Chomp(b), s, n - 1) /\ n - 1 = t
        BY <1>1, <2>1, <4>4, ChompIs
      <4> QED BY <4>5
    <3> QED BY <1>1, <2>1, <3>1, <3>2
  <2>3. Chomp(b) = SubSeq(Stream, s + 1, t)
    BY <1>1, <2>1, <2>2, PieceIs
  <2> QED BY <1>3, <1>4, <2>1, <2>3, RecordFacts
<1>5. ASSUME m < RecordCount, BeginOf(m + 1) <= n, n < EndOf(m + 1), Chomp(b) # <<>>
      PROVE  \E j \in BeginOf(m + 1)..(EndOf(m + 1) - 1) :
               Chomp(b) = SubSeq(Stream, BeginOf(m + 1), j)
  <2>1. BeginOf(m + 1) = s + 1 /\ s < n /\ EndOf(m + 1) \in Nat
    BY <1>1, <1>3, <1>5
  <2>2. CASE Stream[n] # "cr"
    <3>1. Chomp(b) = SubSeq(Stream, s + 1, n)
      BY <1>1, <2>2, ChompIs, PieceIs
    <3>2. n \in BeginOf(m + 1)..(EndOf(m + 1) - 1)
      BY <1>1, <1>5, <2>1
    <3> QED BY <2>1, <3>1, <3>2
  <2>3. CASE Stream[n] = "cr"
    <3>1. Piece(Chomp(b), s, n - 1)
      BY <1>1, <2>1, <2>3, ChompIs
    <3>2. s < n - 1
      <4> SUFFICES ASSUME s = n - 1 PROVE FALSE
        BY <1>1, <2>1
      <4>1. Chomp(b) = <<>>
        BY <3>1 DEF Piece
      <4> QED BY <4>1, <1>5
    <3>3. Chomp(b) = SubSeq(Stream, s + 1, n - 1)
      <4>1. n - 1 \in Nat /\ s <= n - 1 /\ n - 1 <= Len(Stream)
        BY <1>1, <3>2
      <4> QED BY <1>1, <3>1, <4>1, PieceIs
    <3>4. n - 1 \in BeginOf(m + 1)..(EndOf(m + 1) - 1)
      BY <1>1, <1>5, <2>1, <3>2
    <3> QED BY <2>1, <3>3, <3>4
  <2> QED BY <2>2, <2>3
<1> QED BY <1>2, <1>4, <1>5

\* One character.
LEMMA ScannedIs ==
  ASSUME NEW n, NEW m, NEW s, NEW d, d = [rest |-> d.rest, lines |-> d.lines],
         Decoded(n, m, s, d.rest, d.lines), n < Len(Stream)
  PROVE  /\ \E m2, s2 : Decoded(n + 1, m2, s2, Scanned(d, Stream[n + 1]).rest,
                                 Scanned(d, Stream[n + 1]).lines)
         /\ Scanned(d, Stream[n + 1]) = [rest |-> Scanned(d, Stream[n + 1]).rest,
                                         lines |-> Scanned(d, Stream[n + 1]).lines]
<1> DEFINE e == Scanned(d, Stream[n + 1])
<1>1. /\ m \in 0..RecordCount /\ m \in Nat /\ n \in Nat /\ s \in Nat /\ s <= n /\ n <= Len(Stream)
      /\ Len(Stream) \in Nat /\ RecordCount \in Nat /\ Piece(d.rest, s, n)
      /\ d.lines \in Seq(Emitted) /\ Len(d.lines) = m /\ n + 1 \in 1..Len(Stream)
  BY StreamFacts DEF Decoded
<1>2. Stream[n + 1] \in Range(Stream)
  BY <1>1, StreamFacts
<1>3. CASE Stream[n + 1] # "lf"
  <2>1. e = [rest |-> Append(d.rest, Stream[n + 1]), lines |-> d.lines]
    BY <1>3 DEF Scanned
  <2>2. Piece(e.rest, s, n + 1)
    <3>1. /\ Append(d.rest, Stream[n + 1]) \in Seq(Range(Stream))
          /\ Len(Append(d.rest, Stream[n + 1])) = (n + 1) - s
      BY <1>1, <1>2 DEF Piece
    <3>2. ASSUME NEW i \in 1..((n + 1) - s)
          PROVE  Append(d.rest, Stream[n + 1])[i] = Stream[s + i]
      <4>1. CASE i <= n - s
        BY <1>1, <4>1 DEF Piece
      <4>2. CASE ~(i <= n - s)
        <5>1. i = Len(d.rest) + 1 /\ s + i = n + 1
          BY <1>1, <4>2 DEF Piece
        <5>2. d.rest \in Seq(Range(Stream))
          BY <1>1 DEF Piece
        <5> QED BY <5>1, <5>2
      <4> QED BY <4>1, <4>2
    <3> QED BY <2>1, <3>1, <3>2 DEF Piece
  <2>3. \A j \in (s + 1)..(n + 1) : Stream[j] # "lf"
    <3>1. \A j \in (s + 1)..(n + 1) : j \in (s + 1)..n \/ j = n + 1
      BY <1>1
    <3> QED BY <1>3, <3>1 DEF Decoded
  <2>4. n + 1 \in 0..Len(Stream) /\ s \in 0..(n + 1)
    BY <1>1
  <2>5. Decoded(n + 1, m, s, e.rest, e.lines)
    <3>1. e.lines = d.lines
      BY <2>1
    <3> HIDE DEF e
    <3> QED BY <2>2, <2>3, <2>4, <3>1 DEF Decoded
  <2>6. e = [rest |-> e.rest, lines |-> e.lines]
    BY <2>1
  <2> QED BY <2>5, <2>6
<1>4. CASE Stream[n + 1] = "lf"
  <2>1. e = [rest |-> <<>>, lines |-> d.lines \o Handled(Chomp(d.rest))]
    BY <1>4 DEF Scanned
  <2>2. Piece(<<>>, n + 1, n + 1)
    BY <1>1 DEF Piece
  <2>3. n + 1 \in 0..Len(Stream) /\ n + 1 \in 0..(n + 1)
        /\ \A j \in ((n + 1) + 1)..(n + 1) : Stream[j] # "lf"
    BY <1>1
  <2>4. CASE n < BeginOf(m + 1)
    <3>1. n + 1 < BeginOf(m + 1)
      <4> SUFFICES ASSUME n + 1 = BeginOf(m + 1) PROVE FALSE
        <5>1. BeginOf(m + 1) \in Nat
          BY <1>1, StreamFacts
        <5> QED BY <1>1, <2>4, <5>1
      <4>1. m + 1 \in 1..RecordCount
        <5>1. m # RecordCount
          <6> SUFFICES ASSUME m = RecordCount PROVE FALSE
            OBVIOUS
          <6>1. BeginOf(m + 1) = Len(Stream) + 1
            BY StreamFacts
          <6> QED BY <1>1, <6>1
        <5> QED BY <1>1, <5>1
      <4>2. BeginOf(m + 1) \in BeginOf(m + 1)..EndOf(m + 1)
        BY <4>1, RecordFacts
      <4> QED BY <1>4, <4>1, <4>2, RecordFacts
    <3>2. EndOf(m) <= n + 1
      <4>1. EndOf(m) \in Nat
        BY <1>1, StreamFacts
      <4> QED BY <1>1, <4>1 DEF Decoded
    <3>3. e.lines = d.lines /\ e.rest = <<>>
      <4>1. Chomp(d.rest) = <<>>
        BY <2>4, LineIs
      <4>2. d.lines \o Handled(Chomp(d.rest)) = d.lines
        BY <1>1, <4>1 DEF Handled
      <4> QED BY <2>1, <4>2
    <3>4. Decoded(n + 1, m, n + 1, e.rest, e.lines)
      <4> HIDE DEF e
      <4> QED BY <2>2, <2>3, <3>1, <3>2, <3>3 DEF Decoded
    <3> QED BY <2>1, <3>4
  <2>5. CASE ~(n < BeginOf(m + 1))
    <3>1. m < RecordCount /\ m + 1 \in 1..RecordCount /\ m + 1 \in 0..RecordCount
      <4> SUFFICES ASSUME m = RecordCount PROVE FALSE
        BY <1>1
      <4>1. BeginOf(m + 1) = Len(Stream) + 1
        BY StreamFacts
      <4> QED BY <1>1, <2>5, <4>1
    <3>2. BeginOf(m + 1) \in Nat /\ EndOf(m + 1) \in Nat /\ BeginOf(m + 1) <= n
      BY <1>1, <2>5, <3>1, RecordFacts
    <3>3. EndOf(m + 1) <= n
      <4> SUFFICES ASSUME n + 1 \in BeginOf(m + 1)..EndOf(m + 1) PROVE FALSE
        BY <1>1, <3>2
      <4> QED BY <1>4, <3>1, RecordFacts
    <3>4. Chomp(d.rest) = Records[m + 1]
      BY <3>1, <3>3, LineIs
    <3>5. n + 1 < BeginOf((m + 1) + 1)
      <4>1. n < BeginOf((m + 1) + 1)
        <5>1. (m + 1) + 1 = m + 2
          BY <1>1
        <5> QED BY <3>1, <3>3, <5>1, OneInALine
      <4> SUFFICES ASSUME n + 1 = BeginOf((m + 1) + 1) PROVE FALSE
        <5>1. BeginOf((m + 1) + 1) \in Nat
          <6>1. CASE m + 1 = RecordCount
            BY <6>1, StreamFacts
          <6>2. CASE m + 1 # RecordCount
            <7>1. (m + 1) + 1 \in 1..RecordCount
              BY <1>1, <3>1, <6>2
            <7> QED BY <7>1, RecordFacts
          <6> QED BY <6>1, <6>2
        <5> QED BY <1>1, <4>1, <5>1
      <4>2. (m + 1) + 1 \in 1..RecordCount
        <5>1. m + 1 # RecordCount
          <6> SUFFICES ASSUME m + 1 = RecordCount PROVE FALSE
            OBVIOUS
          <6>1. BeginOf((m + 1) + 1) = Len(Stream) + 1
            BY StreamFacts
          <6> QED BY <1>1, <6>1
        <5> QED BY <1>1, <3>1, <5>1
      <4>3. BeginOf((m + 1) + 1) \in BeginOf((m + 1) + 1)..EndOf((m + 1) + 1)
        BY <4>2, RecordFacts
      <4> QED BY <1>4, <4>2, <4>3, RecordFacts
    <3>6. Records[m + 1] \in Seq(Range(Stream)) /\ Records[m + 1] # <<>>
      <4>1. Records[m + 1] = SubSeq(Stream, BeginOf(m + 1), EndOf(m + 1))
        BY <3>1, RecordFacts
      <4>2. /\ EndOf(m + 1) <= Len(Stream)
            /\ 1 <= BeginOf(m + 1) /\ BeginOf(m + 1) <= EndOf(m + 1)
        BY <3>1, RecordFacts
      <4>3. Stream \in Seq(Range(Stream))
        BY StreamFacts
      <4> QED BY <3>2, <4>1, <4>2, <4>3, PartIs
    <3>7. e.lines = Append(d.lines, Whole(m + 1)) /\ Whole(m + 1) \in Emitted
      <4>1. Handled(Chomp(d.rest)) = << Whole(m + 1) >>
        BY <3>4, <3>6 DEF Handled, Whole
      <4>2. Whole(m + 1) \in Emitted
        BY <3>6 DEF Whole, Emitted, Kind
      <4> HIDE DEF Whole, Emitted
      <4>3. d.lines \o << Whole(m + 1) >> = Append(d.lines, Whole(m + 1))
        BY <1>1, <4>2
      <4> QED BY <2>1, <4>1, <4>2, <4>3
    <3>8. /\ e.lines \in Seq(Emitted) /\ Len(e.lines) = m + 1
          /\ \A k \in 1..(m + 1) : e.lines[k] = Whole(k)
      <4>1. \A k \in 1..m : d.lines[k] = Whole(k)
        BY DEF Decoded
      <4> HIDE DEF e
      <4>2. ASSUME NEW k \in 1..(m + 1) PROVE e.lines[k] = Whole(k)
        <5>1. CASE k = m + 1
          BY <1>1, <3>7, <5>1
        <5>2. CASE k # m + 1
          BY <1>1, <3>7, <4>1, <5>2
        <5> QED BY <5>1, <5>2
      <4> QED BY <1>1, <3>7, <4>2
    <3>9. Decoded(n + 1, m + 1, n + 1, e.rest, e.lines)
      <4>1. e.rest = <<>>
        BY <2>1
      <4>2. EndOf(m + 1) <= n + 1
        BY <1>1, <3>2, <3>3
      <4> HIDE DEF e
      <4> QED BY <2>2, <2>3, <3>1, <3>5, <3>8, <4>1, <4>2 DEF Decoded
    <3> QED BY <2>1, <3>9
  <2> QED BY <2>4, <2>5
<1> QED BY <1>3, <1>4

-----------------------------------------------------------------------------

\* A set of numbers that has 0 and the successor of each it has, has them all.
LEMMA Inductive ==
  ASSUME NEW S, 0 \in S, \A n \in Nat : n \in S => n + 1 \in S
  PROVE  \A n \in Nat : n \in S
<1> DEFINE Wrong == {n \in Nat : n \notin S}
           R == {pair \in Nat \X Nat : pair[1] < pair[2]}
<1>1. IsWellFoundedOn(R, Nat)
  BY NatLessThanWellFounded DEF OpToRel
<1> SUFFICES ASSUME Wrong # {} PROVE FALSE
  OBVIOUS
<1>2. PICK least \in Wrong : \A n \in Wrong : <<n, least>> \notin R
  <2>1. Wrong \subseteq Nat
    OBVIOUS
  <2> HIDE DEF R, Wrong
  <2> QED BY <1>1, <2>1, WFMin
<1>3. least \in Nat /\ least # 0 /\ least - 1 \in Nat /\ (least - 1) + 1 = least
  BY <1>2
<1>4. least - 1 \in Wrong
  BY <1>2, <1>3
<1>5. <<least - 1, least>> \in R
  BY <1>3
<1> HIDE DEF R, Wrong
<1> QED BY <1>2, <1>4, <1>5

\* f is the decoder after each of the first n characters of chunk.
Scans(f, d, chunk, n) ==
  f = [k \in 0..n |-> IF k = 0 THEN d ELSE Scanned(f[k - 1], chunk[k])]

LEMMA ScansExist ==
  ASSUME NEW d, NEW chunk, NEW n \in Nat
  PROVE  \E f : Scans(f, d, chunk, n)
<1> DEFINE S == {k \in Nat : \E f : Scans(f, d, chunk, k)}
<1>1. 0 \in S
  <2> DEFINE f == [k \in 0..0 |-> d]
  <2>1. f = [k \in 0..0 |-> IF k = 0 THEN d ELSE Scanned(f[k - 1], chunk[k])]
    OBVIOUS
  <2>2. Scans(f, d, chunk, 0)
    BY <2>1 DEF Scans
  <2> QED BY <2>2
<1>2. ASSUME NEW k \in Nat, k \in S PROVE k + 1 \in S
  <2>1. PICK f : Scans(f, d, chunk, k)
    BY <1>2
  <2> DEFINE g == [j \in 0..(k + 1) |-> IF j <= k THEN f[j] ELSE Scanned(f[k], chunk[k + 1])]
  <2>2. ASSUME NEW j \in 0..(k + 1)
        PROVE  g[j] = IF j = 0 THEN d ELSE Scanned(g[j - 1], chunk[j])
    <3>1. CASE j = 0
      BY <2>1, <3>1 DEF Scans
    <3>2. CASE j \in 1..k
      <4>1. g[j] = f[j] /\ g[j - 1] = f[j - 1]
        BY <3>2
      <4>2. f[j] = Scanned(f[j - 1], chunk[j])
        BY <2>1, <3>2 DEF Scans
      <4> QED BY <3>2, <4>1, <4>2
    <3>3. CASE j = k + 1
      <4>1. g[j] = Scanned(f[k], chunk[k + 1]) /\ g[j - 1] = f[k]
        BY <3>3
      <4> QED BY <3>3, <4>1
    <3> QED BY <3>1, <3>2, <3>3
  <2>3. Scans(g, d, chunk, k + 1)
    <3>1. g = [j \in 0..(k + 1) |-> g[j]]
      OBVIOUS
    <3> HIDE DEF g
    <3> QED BY <2>2, <3>1 DEF Scans
  <2>4. k + 1 \in Nat
    OBVIOUS
  <2> QED BY <2>3, <2>4
<1> HIDE DEF S
<1>3. n \in S
  BY <1>1, <1>2, Inductive
<1> QED BY <1>3 DEF S

LEMMA ScanIs ==
  ASSUME NEW d, NEW chunk, Len(chunk) \in Nat
  PROVE  \E f : Scans(f, d, chunk, Len(chunk)) /\ Scan(d, chunk) = f[Len(chunk)]
<1> DEFINE f == CHOOSE g : Scans(g, d, chunk, Len(chunk))
<1>1. Scans(f, d, chunk, Len(chunk))
  BY ScansExist
<1>2. Scan(d, chunk) = f[Len(chunk)]
  BY DEF Scan, Scans
<1> QED BY <1>1, <1>2

\* A chunk, however long: what comes out does not depend on where it is cut.
LEMMA PushedIs ==
  ASSUME NEW n, NEW m, NEW s, Decoded(n, m, s, buffer, lines),
         NEW to \in (n + 1)..Len(Stream)
  PROVE  \E m2, s2 :
           Decoded(to, m2, s2, Push(SubSeq(Stream, n + 1, to)).rest,
                   Push(SubSeq(Stream, n + 1, to)).lines)
<1> DEFINE chunk == SubSeq(Stream, n + 1, to)
           d == [rest |-> buffer, lines |-> lines]
<1>1. n \in Nat /\ to \in Nat /\ n < to /\ to <= Len(Stream) /\ Len(Stream) \in Nat
  BY StreamFacts DEF Decoded
<1>2. /\ Len(chunk) = to - n
      /\ \A i \in 1..(to - n) : chunk[i] = Stream[n + i]
  BY <1>1, PieceIs DEF Piece
<1>3. PICK f : Scans(f, d, chunk, to - n) /\ Scan(d, chunk) = f[to - n]
  <2>1. to - n \in Nat
    BY <1>1
  <2> HIDE DEF chunk, d
  <2> QED BY <1>2, <2>1, ScanIs
<1> DEFINE Good(k) == /\ f[k] = [rest |-> f[k].rest, lines |-> f[k].lines]
                      /\ \E m2, s2 : Decoded(n + k, m2, s2, f[k].rest, f[k].lines)
           S == {k \in Nat : k <= to - n => Good(k)}
<1>4. 0 \in S
  <2>1. f[0] = d
    BY <1>1, <1>3 DEF Scans
  <2>2. d = [rest |-> d.rest, lines |-> d.lines] /\ d.rest = buffer /\ d.lines = lines
    OBVIOUS
  <2>3. n + 0 = n
    BY <1>1
  <2> QED BY <2>1, <2>2, <2>3
<1>5. ASSUME NEW k \in Nat, k \in S PROVE k + 1 \in S
  <2> SUFFICES ASSUME k + 1 <= to - n PROVE Good(k + 1)
    OBVIOUS
  <2>1. Good(k)
    BY <1>1, <1>5
  <2>2. f[k + 1] = Scanned(f[k], Stream[(n + k) + 1])
    <3>1. k + 1 \in 0..(to - n) /\ k + 1 # 0 /\ (k + 1) - 1 = k
      BY <1>1
    <3>2. f[k + 1] = Scanned(f[k], chunk[k + 1])
      BY <1>3, <3>1 DEF Scans
    <3>3. chunk[k + 1] = Stream[(n + k) + 1]
      <4>1. k + 1 \in 1..(to - n) /\ n + (k + 1) = (n + k) + 1
        BY <1>1
      <4> HIDE DEF chunk
      <4> QED BY <1>2, <4>1
    <3> QED BY <3>2, <3>3
  <2>3. n + k < Len(Stream) /\ (n + k) + 1 = n + (k + 1)
    BY <1>1
  <2>4. PICK m2, s2 : Decoded(n + k, m2, s2, f[k].rest, f[k].lines)
    BY <2>1
  <2>5. f[k] = [rest |-> f[k].rest, lines |-> f[k].lines]
    BY <2>1
  <2> HIDE DEF chunk, d, S, Good
  <2>6. /\ \E m3, s3 : Decoded((n + k) + 1, m3, s3, f[k + 1].rest, f[k + 1].lines)
        /\ f[k + 1] = [rest |-> f[k + 1].rest, lines |-> f[k + 1].lines]
    BY <2>2, <2>3, <2>4, <2>5, ScannedIs
  <2> QED BY <2>3, <2>6 DEF Good
<1>6. Good(to - n)
  <2>1. \A k \in Nat : k \in S
    <3> HIDE DEF S
    <3> QED BY <1>4, <1>5, Inductive
  <2>2. to - n \in Nat
    BY <1>1
  <2> QED BY <2>1, <2>2
<1>7. n + (to - n) = to
  BY <1>1
<1> HIDE DEF chunk
<1>8. Push(chunk) = f[to - n]
  BY <1>3 DEF Push
<1> QED BY <1>6, <1>7, <1>8 DEF chunk

-----------------------------------------------------------------------------

\* LinesAreRecords of what came out, when n characters were written.
InvalidLast(ls) == ls # <<>> /\ Last(ls).kind = "invalid"
AreRecords(ls, n, over) ==
  LET count == IF InvalidLast(ls) THEN Len(ls) - 1 ELSE Len(ls)
  IN  /\ count <= Len(Records)
      /\ \A k \in 1..count : ls[k].line = Records[k] /\ ls[k].kind # "invalid"
      /\ InvalidLast(ls) => /\ over /\ count < Len(Records)
                            /\ IsPrefix(Last(ls).line, Records[count + 1])
      /\ n = Len(Stream) /\ over => count = Len(Records)

LEMMA WholeIs ==
  ASSUME NEW k \in 1..RecordCount
  PROVE  Whole(k).line = Records[k] /\ Whole(k).kind # "invalid" /\ Len(Records) = RecordCount
<1>1. DOMAIN Records = 1..RecordCount /\ Records \in [1..RecordCount -> Range(Records)]
  BY StreamFacts DEF Records, Range
<1>2. Records[k] \in Range(Records)
  BY <1>1
<1>3. Len(Records) = RecordCount
  BY <1>1, StreamFacts
<1> QED BY <1>2, <1>3 DEF Whole, Kind

LEMMA RecordsLength == Len(Records) = RecordCount
BY StreamFacts DEF Records

\* Whole records, and no more to come when the stream has ended.
LEMMA WholeLines ==
  ASSUME NEW ls, NEW m \in 0..RecordCount, Len(ls) = m, ls \in Seq(Emitted),
         \A k \in 1..m : ls[k] = Whole(k), NEW n, NEW over \in BOOLEAN,
         n = Len(Stream) /\ over => m = RecordCount
  PROVE  AreRecords(ls, n, over)
<1>1. RecordCount \in Nat /\ m \in Nat /\ Len(Records) = RecordCount
  BY StreamFacts, RecordsLength
<1>2. ~InvalidLast(ls)
  <2> SUFFICES ASSUME ls # <<>> PROVE Last(ls).kind # "invalid"
    BY DEF InvalidLast
  <2>1. m \in 1..m /\ m \in 1..RecordCount
    BY <1>1
  <2>2. Last(ls) = Whole(m)
    BY <2>1 DEF Last
  <2> QED BY <2>1, <2>2, WholeIs
<1>3. ASSUME NEW k \in 1..m PROVE ls[k].line = Records[k] /\ ls[k].kind # "invalid"
  <2>1. k \in 1..RecordCount
    BY <1>1
  <2>2. ls[k] = Whole(k)
    OBVIOUS
  <2> QED BY <2>1, <2>2, WholeIs
<1>4. m <= Len(Records)
  BY <1>1
<1> QED BY <1>1, <1>2, <1>3, <1>4 DEF AreRecords

LEMMA DecodedLines ==
  ASSUME NEW n, NEW m, NEW s, NEW b, NEW ls, Decoded(n, m, s, b, ls), NEW w
  PROVE  AreRecords(ls, w, FALSE)
BY WholeLines DEF Decoded

\* The end of stdout.
LEMMA FlushedLines ==
  ASSUME NEW n, NEW m, NEW s, NEW b, NEW ls, Decoded(n, m, s, b, ls)
  PROVE  AreRecords(ls \o Handled(Chomp(b)), n, TRUE)
<1>1. /\ m \in 0..RecordCount /\ m \in Nat /\ n \in Nat /\ n <= Len(Stream) /\ Len(Stream) \in Nat
      /\ RecordCount \in Nat /\ ls \in Seq(Emitted) /\ Len(ls) = m /\ Len(Records) = RecordCount
      /\ \A k \in 1..m : ls[k] = Whole(k)
  BY StreamFacts, RecordsLength DEF Decoded
<1>2. ASSUME m < RecordCount
      PROVE  /\ m + 1 \in 1..RecordCount /\ BeginOf(m + 1) \in 1..Len(Stream)
             /\ EndOf(m + 1) \in 1..Len(Stream) /\ BeginOf(m + 1) <= EndOf(m + 1)
             /\ Records[m + 1] = SubSeq(Stream, BeginOf(m + 1), EndOf(m + 1))
             /\ Records[m + 1] \in Seq(Range(Stream)) /\ Records[m + 1] # <<>>
  <2>1. m + 1 \in 1..RecordCount
    BY <1>1, <1>2
  <2>2. Records[m + 1] \in Seq(Range(Stream)) /\ Records[m + 1] # <<>>
    <3>1. /\ BeginOf(m + 1) \in Nat /\ EndOf(m + 1) \in Nat /\ 1 <= BeginOf(m + 1)
          /\ BeginOf(m + 1) <= EndOf(m + 1) /\ EndOf(m + 1) <= Len(Stream)
          /\ Records[m + 1] = SubSeq(Stream, BeginOf(m + 1), EndOf(m + 1))
      BY <2>1, RecordFacts
    <3> QED BY <3>1, StreamFacts, PartIs
  <2> QED BY <2>1, <2>2, RecordFacts
<1>3. ASSUME Chomp(b) = <<>>, n = Len(Stream) PROVE m = RecordCount
  <2> SUFFICES ASSUME m < RecordCount PROVE FALSE
    BY <1>1
  <2>1. EndOf(m + 1) <= n
    BY <1>1, <1>2, <1>3
  <2>2. Chomp(b) = Records[m + 1]
    BY <2>1, LineIs
  <2> QED BY <1>2, <1>3, <2>2
<1>4. CASE Chomp(b) = <<>>
  <2>1. ls \o Handled(Chomp(b)) = ls
    BY <1>1, <1>4 DEF Handled
  <2> QED BY <1>1, <1>3, <1>4, <2>1, WholeLines
<1>5. CASE m < RecordCount /\ EndOf(m + 1) <= n
  <2> DEFINE out == ls \o Handled(Chomp(b))
  <2>1. Chomp(b) = Records[m + 1]
    BY <1>5, LineIs
  <2>2. Handled(Chomp(b)) = << Whole(m + 1) >> /\ Whole(m + 1) \in Emitted
    BY <1>2, <1>5, <2>1 DEF Handled, Whole, Emitted, Kind
  <2>3. out = Append(ls, Whole(m + 1))
    <3> HIDE DEF Whole, Emitted
    <3> QED BY <1>1, <2>2
  <2>4. /\ out \in Seq(Emitted) /\ Len(out) = m + 1 /\ m + 1 \in 0..RecordCount
        /\ \A k \in 1..(m + 1) : out[k] = Whole(k)
    <3> HIDE DEF out
    <3>1. ASSUME NEW k \in 1..(m + 1) PROVE out[k] = Whole(k)
      <4>1. CASE k = m + 1
        BY <1>1, <2>2, <2>3, <4>1
      <4>2. CASE k # m + 1
        BY <1>1, <2>2, <2>3, <4>2
      <4> QED BY <4>1, <4>2
    <3> QED BY <1>1, <1>5, <2>2, <2>3, <3>1
  <2>5. ASSUME n = Len(Stream) PROVE m + 1 = RecordCount
    <3> SUFFICES ASSUME m + 1 # RecordCount PROVE FALSE
      OBVIOUS
    <3>1. m + 2 \in 1..RecordCount
      BY <1>1, <1>5
    <3>2. BeginOf(m + 2) <= Len(Stream) /\ BeginOf(m + 2) \in Nat
      BY <3>1, RecordFacts
    <3>3. n < BeginOf(m + 2)
      BY <1>5, OneInALine
    <3> QED BY <1>1, <2>5, <3>2, <3>3
  <2> HIDE DEF out
  <2>6. AreRecords(out, n, TRUE)
    BY <2>4, <2>5, WholeLines
  <2> QED BY <2>6 DEF out
<1>6. CASE m < RecordCount /\ BeginOf(m + 1) <= n /\ n < EndOf(m + 1) /\ Chomp(b) # <<>>
  <2> DEFINE line == Chomp(b)
             out == ls \o Handled(line)
  <2>1. PICK j \in BeginOf(m + 1)..(EndOf(m + 1) - 1) :
               line = SubSeq(Stream, BeginOf(m + 1), j)
    BY <1>6, LineIs
  <2>2. line \notin Range(Records)
    BY <1>2, <1>6, <2>1, RecordFacts
  <2>3. line \in Seq(Range(Stream)) /\ IsPrefix(line, Records[m + 1])
    <3> DEFINE a == BeginOf(m + 1)
               z == EndOf(m + 1)
    <3>1. a \in Nat /\ j \in Nat /\ z \in Nat /\ 1 <= a /\ a <= j /\ j <= z /\ z <= Len(Stream)
      BY <1>1, <1>2, <1>6, <2>1
    <3>2. Stream \in Seq(Range(Stream))
      BY StreamFacts
    <3>3. line = SubSeq(Stream, a, j) /\ Records[m + 1] = SubSeq(Stream, a, z)
      BY <1>2, <1>6, <2>1
    <3> HIDE DEF a, z, line
    <3>4. SubSeq(Stream, a, j) \in Seq(Range(Stream)) /\ SubSeq(Stream, a, z) \in Seq(Range(Stream))
      BY <3>1, <3>2
    <3>5. Len(SubSeq(Stream, a, j)) = (j - a) + 1 /\ Len(SubSeq(Stream, a, z)) = (z - a) + 1
      BY <3>1, <3>2
    <3>6. \A i \in 1..((j - a) + 1) :
            SubSeq(Stream, a, j)[i] = SubSeq(Stream, a, z)[i]
      BY <3>1, <3>2
    <3> DEFINE x == SubSeq(Stream, a, j)
               y == SubSeq(Stream, a, z)
    <3> HIDE DEF x, y
    <3>7. /\ x \in Seq(Range(Stream)) /\ y \in Seq(Range(Stream)) /\ Len(x) <= Len(y)
          /\ Len(x) \in Nat /\ Len(y) \in Nat
          /\ \A i \in 1..Len(x) : x[i] = y[i]
      BY <3>1, <3>4, <3>5, <3>6 DEF x, y
    <3>8. SubSeq(x, 1, Len(x)) = SubSeq(y, 1, Len(x))
      <4>1. /\ SubSeq(x, 1, Len(x)) \in Seq(Range(Stream))
            /\ SubSeq(y, 1, Len(x)) \in Seq(Range(Stream))
        BY <3>7
      <4>2. Len(SubSeq(x, 1, Len(x))) = Len(x) /\ Len(SubSeq(y, 1, Len(x))) = Len(x)
        BY <3>7
      <4>3. \A i \in 1..Len(x) : SubSeq(x, 1, Len(x))[i] = SubSeq(y, 1, Len(x))[i]
        BY <3>7
      <4> QED BY <4>1, <4>2, <4>3
    <3>9. IsPrefix(x, y)
      BY <3>7, <3>8 DEF IsPrefix
    <3> QED BY <3>3, <3>4, <3>9 DEF x, y
  <2>4. Handled(line) = << [line |-> line, kind |-> "invalid"] >>
    BY <1>6, <2>2 DEF Handled, Kind
  <2> DEFINE last == [line |-> line, kind |-> "invalid"]
  <2>5. last \in Emitted /\ last.kind = "invalid" /\ last.line = line
    BY <2>3 DEF Emitted
  <2> HIDE DEF last, line
  <2>6. out = Append(ls, last)
    BY <1>1, <2>4, <2>5 DEF last
  <2> HIDE DEF out
  <2>7. Len(out) = m + 1 /\ out # <<>> /\ Last(out) = last /\ \A k \in 1..m : out[k] = ls[k]
    BY <1>1, <2>5, <2>6 DEF Last
  <2>8. InvalidLast(out)
    BY <2>5, <2>7 DEF InvalidLast
  <2>9. \A k \in 1..m : out[k].line = Records[k] /\ out[k].kind # "invalid"
    <3> TAKE k \in 1..m
    <3>1. k \in 1..RecordCount
      BY <1>1
    <3> QED BY <1>1, <2>7, <3>1, WholeIs
  <2>10. n # Len(Stream)
    BY <1>1, <1>2, <1>6
  <2>11. Len(out) - 1 = m /\ m <= Len(Records) /\ m < Len(Records)
    BY <1>1, <1>6, <2>7
  <2>12. AreRecords(out, n, TRUE)
    BY <2>3, <2>5, <2>7, <2>8, <2>9, <2>10, <2>11 DEF AreRecords
  <2> QED BY <2>12 DEF out, line
<1>7. \/ n < BeginOf(m + 1)
      \/ m < RecordCount /\ EndOf(m + 1) <= n
      \/ m < RecordCount /\ BeginOf(m + 1) <= n /\ n < EndOf(m + 1)
  <2>0. n \in Nat /\ n <= Len(Stream) /\ Len(Stream) \in Nat /\ (m = RecordCount \/ m < RecordCount)
    BY <1>1
  <2>1. CASE m = RecordCount
    <3>1. BeginOf(m + 1) = Len(Stream) + 1
      BY <2>1, StreamFacts
    <3> QED BY <2>0, <3>1
  <2>2. CASE m < RecordCount
    <3>1. BeginOf(m + 1) \in Nat /\ EndOf(m + 1) \in Nat
      BY <1>2, <2>2
    <3> QED BY <2>0, <2>2, <3>1
  <2> QED BY <2>0, <2>1, <2>2
<1>8. n < BeginOf(m + 1) => Chomp(b) = <<>>
  BY LineIs
<1> QED BY <1>4, <1>5, <1>6, <1>7, <1>8

-----------------------------------------------------------------------------

\* Until the end of stdout the decoder has what was handed over, and afterwards
\* pi writes no more.
OutputInv ==
  /\ read \in Nat /\ written \in Nat /\ read <= written /\ written <= Len(Stream)
  /\ ended \in BOOLEAN
  /\ ~ended => \E m, s : Decoded(read, m, s, buffer, lines)
  /\ ended => /\ child \in {"code", "signal"} /\ read = written
              /\ AreRecords(lines, written, ended)

\* A step that moves no character keeps it.
LEMMA OutputKept ==
  ASSUME OutputInv, UNCHANGED output, ended => child' \in {"code", "signal"}
  PROVE  OutputInv'
BY DEF OutputInv, output, Decoded, Piece, AreRecords, InvalidLast

LEMMA OutputStep == OutputInv /\ [PiNext]_childVars => OutputInv'
<1> SUFFICES ASSUME OutputInv, [PiNext]_childVars PROVE OutputInv'
  OBVIOUS
<1>0. Len(Stream) \in Nat
  BY StreamFacts
<1>1. ASSUME Data PROVE OutputInv'
  <2>1. PICK n \in (read + 1)..written :
          /\ lines' = Push(SubSeq(Stream, read + 1, n)).lines
          /\ buffer' = Push(SubSeq(Stream, read + 1, n)).rest
          /\ read' = n /\ UNCHANGED <<written, ended, proc>>
    BY <1>1 DEF Data
  <2>2. ~ended
    BY <2>1 DEF OutputInv
  <2>3. PICK m, s : Decoded(read, m, s, buffer, lines)
    BY <2>2 DEF OutputInv
  <2>4. n \in (read + 1)..Len(Stream) /\ n \in Nat /\ n <= written
    BY <1>0, <2>1 DEF OutputInv
  <2>5. \E m2, s2 : Decoded(n, m2, s2, buffer', lines')
    BY <2>1, <2>3, <2>4, PushedIs
  <2> QED BY <2>1, <2>2, <2>4, <2>5 DEF OutputInv, Decoded, Piece
<1>2. ASSUME StdoutEnd PROVE OutputInv'
  <2>1. PICK m, s : Decoded(read, m, s, buffer, lines)
    BY <1>2 DEF StdoutEnd, OutputInv
  <2>2. AreRecords(lines', read, TRUE)
    BY <1>2, <2>1, FlushedLines DEF StdoutEnd
  <2> QED BY <1>2, <2>2 DEF StdoutEnd, OutputInv, proc, AreRecords, InvalidLast
<1>3. ASSUME PiWrites PROVE OutputInv'
  <2>1. ~ended /\ written + 1 <= Len(Stream) /\ written + 1 \in Nat /\ read <= written + 1
    BY <1>0, <1>3 DEF PiWrites, OutputInv
  <2> QED BY <1>3, <2>1 DEF PiWrites, OutputInv, Decoded, Piece
<1>4. ASSUME StartPi \/ SpawnFails \/ PiKilled \/ \E how \in {"code", "signal"} : PiEnds(how)
      PROVE  OutputInv'
  BY <1>4, OutputKept DEF StartPi, SpawnFails, PiKilled, PiEnds, OutputInv
<1>5. ASSUME ExitEvent \/ Send \/ Kill \/ Stop \/ StopExited \/ StdinGraceOver
             \/ SigtermGraceOver \/ UNCHANGED childVars
      PROVE  OutputInv'
  <2>1. UNCHANGED <<output, child>>
    BY <1>5 DEF ExitEvent, Send, Kill, Stop, StopExited, StdinGraceOver, SigtermGraceOver,
                childVars, output
  <2> QED BY <2>1, OutputKept DEF OutputInv
<1> QED BY <1>1, <1>2, <1>3, <1>4, <1>5 DEF PiNext

\* rpc.ts, JsonlDecoder with the handlers of pi-process.ts: for any stream of
\* JSON lines, any cut of it into chunks and any death of pi, what is emitted are
\* the records of pi, whole, once each and in order; only the last line of a pi
\* that died may be cut off, and it is emitted as invalid.
THEOREM RecordsComeOut == PiSpec => []LinesAreRecords
<1>1. PiInit => OutputInv
  <2> SUFFICES ASSUME PiInit PROVE OutputInv
    OBVIOUS
  <2>1. Len(Stream) \in Nat /\ RecordCount \in Nat /\ EndOf(0) = 0
    BY StreamFacts
  <2>2. BeginOf(0 + 1) > 0
    <3>1. CASE RecordCount = 0
      BY <2>1, <3>1, StreamFacts
    <3>2. CASE RecordCount # 0
      <4>1. 0 + 1 \in 1..RecordCount
        BY <2>1, <3>2
      <4> QED BY <2>1, <4>1, RecordFacts
    <3> QED BY <3>1, <3>2
  <2>3. Piece(<<>>, 0, 0)
    BY DEF Piece
  <2>4. /\ 0 \in 0..Len(Stream) /\ 0 \in 0..RecordCount /\ 0 \in 0..0
        /\ \A j \in (0 + 1)..0 : Stream[j] # "lf"
        /\ \A k \in 1..0 : <<>>[k] = Whole(k)
    BY <2>1
  <2>5. Decoded(0, 0, 0, <<>>, <<>>)
    BY <2>1, <2>2, <2>3, <2>4 DEF Decoded
  <2>6. /\ read = 0 /\ written = 0 /\ ended = FALSE /\ buffer = <<>> /\ lines = <<>>
    BY DEF PiInit
  <2>7. \E m, s : Decoded(read, m, s, buffer, lines)
    BY <2>5, <2>6
  <2>8. read <= written /\ written <= Len(Stream) /\ read \in Nat /\ written \in Nat
    BY <2>1, <2>6
  <2> QED BY <2>6, <2>7, <2>8 DEF OutputInv
<1>2. OutputInv => LinesAreRecords
  <2> SUFFICES ASSUME OutputInv PROVE LinesAreRecords
    OBVIOUS
  <2>1. AreRecords(lines, written, ended)
    <3>1. CASE ended
      BY <3>1 DEF OutputInv
    <3>2. CASE ~ended
      <4>1. PICK m, s : Decoded(read, m, s, buffer, lines)
        BY <3>2 DEF OutputInv
      <4>2. AreRecords(lines, written, FALSE) /\ ended = FALSE
        BY <3>2, <4>1, DecodedLines DEF OutputInv
      <4> QED BY <4>2
    <3> QED BY <3>1, <3>2
  <2> QED BY <2>1 DEF AreRecords, InvalidLast, LinesAreRecords
<1> QED BY <1>1, <1>2, OutputStep, PTL DEF PiSpec
=============================================================================
