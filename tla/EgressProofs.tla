---------------------------- MODULE EgressProofs ----------------------------
(***************************************************************************)
(* Proofs about Egress, for any thread keys, Sessions, replies and faults: *)
(* what a reply wrote is never edited, an ended Session has no progress    *)
(* timer unless a steer resumed after its end, no progress of a turn is    *)
(* shown once a reply of that turn has run, and no Session writes into the *)
(* progress message of an earlier one.                                     *)
(*                                                                         *)
(* The last two are not inductive: they rest on the order of the tasks in  *)
(* a queue.  PathInv follows every tick from the timer that will enqueue   *)
(* it to the head of its queue, and says that the path it finds there is   *)
(* shut if a reply of its turn ran before it.  OwnInv says that a          *)
(* clearProgress stands between what two Sessions write.                   *)
(***************************************************************************)
EXTENDS Egress, TLAPS

-----------------------------------------------------------------------------
(* The chat.                                                               *)

\* The chat is a sequence, and what a key remembers is a progress message of
\* its own: two keys never share one.
ChatIsSequence == \E S : chat \in Seq(S)

KeysOwn ==
  /\ msgId \in [Key -> Nat \cup {None}]
  /\ \A k \in Key : msgId[k] # None =>
       /\ msgId[k] \in DOMAIN chat
       /\ chat[msgId[k]].kind = "progress" /\ chat[msgId[k]].key = k

RepliesStand ==
  \A m \in DOMAIN chat : chat[m].kind = "reply" => chat'[m] = chat[m]

\* An edit of the message a key remembers.
LEMMA EditStep ==
  ASSUME ChatIsSequence, KeysOwn, NEW k \in Key, msgId[k] # None,
         NEW message, Update(msgId[k], message, TRUE)
  PROVE  /\ ChatIsSequence' /\ RepliesStand
         /\ DOMAIN chat' = DOMAIN chat
         /\ chat'[msgId[k]] = message
         /\ \A m \in DOMAIN chat : m # msgId[k] => chat'[m] = chat[m]
<1>1. PICK S : chat \in Seq(S)
  BY DEF ChatIsSequence
<1>2. chat' = [chat EXCEPT ![msgId[k]] = message]
  BY DEF Update
<1>3. msgId[k] \in DOMAIN chat /\ chat[msgId[k]].kind = "progress"
  BY DEF KeysOwn
<1>4. chat \in Seq(S \cup {message})
  BY <1>1
<1>5. chat' \in Seq(S \cup {message})
  BY <1>2, <1>3, <1>4
<1>6. DOMAIN chat' = DOMAIN chat /\ chat'[msgId[k]] = message
  BY <1>1, <1>2, <1>3
<1>7. \A m \in DOMAIN chat : m # msgId[k] => chat'[m] = chat[m]
  BY <1>1, <1>2
<1> QED BY <1>3, <1>5, <1>6, <1>7 DEF ChatIsSequence, RepliesStand

\* A new message.
LEMMA PostStep ==
  ASSUME ChatIsSequence, NEW message, Post(message, TRUE)
  PROVE  /\ ChatIsSequence' /\ RepliesStand
         /\ DOMAIN chat \subseteq DOMAIN chat'
         /\ Len(chat) + 1 \in Nat /\ Len(chat) + 1 \in DOMAIN chat'
         /\ chat'[Len(chat) + 1] = message
         /\ \A m \in DOMAIN chat : chat'[m] = chat[m]
<1>1. PICK S : chat \in Seq(S)
  BY DEF ChatIsSequence
<1>2. chat' = Append(chat, message)
  BY DEF Post
<1>3. chat \in Seq(S \cup {message})
  BY <1>1
<1>4. chat' \in Seq(S \cup {message})
  BY <1>2, <1>3
<1>5. /\ Len(chat) \in Nat /\ DOMAIN chat = 1..Len(chat)
      /\ DOMAIN chat' = 1..(Len(chat) + 1)
      /\ chat'[Len(chat) + 1] = message
      /\ \A m \in DOMAIN chat : chat'[m] = chat[m]
  BY <1>2, <1>3
<1> QED BY <1>4, <1>5 DEF ChatIsSequence, RepliesStand

ChatInv == ChatIsSequence /\ KeysOwn

\* Forgetting a message keeps what is known of the others.
LEMMA ForgetStep ==
  ASSUME ChatInv, NEW k \in Key, chat' = chat,
         msgId' \in {msgId, [msgId EXCEPT ![k] = None]}
  PROVE  ChatInv' /\ RepliesStand
BY DEF ChatInv, ChatIsSequence, KeysOwn, RepliesStand

\* notifyProgressNow.
LEMMA NotifyStep ==
  ASSUME ChatInv, NEW k \in Key, Notify(k) PROVE ChatInv' /\ RepliesStand
<1> USE NoneAssumption DEF ChatInv
<1>1. PICK notice :
        /\ notice.kind = "progress" /\ notice.key = k
        /\ \/ UNCHANGED <<chat, msgId>>
           \/ /\ msgId[k] # None
              /\ \E ok \in BOOLEAN : Update(msgId[k], notice, ok)
              /\ UNCHANGED msgId
           \/ /\ msgId[k] = None
              /\ \E ok \in BOOLEAN :
                   /\ Post(notice, ok)
                   /\ msgId' = IF ok THEN [msgId EXCEPT ![k] = Len(chat) + 1] ELSE msgId
  <2> DEFINE t == Head(queue[k])
             n == [kind |-> "progress", key |-> k, by |-> t.by, turn |-> t.turn,
                   shows |-> t.shows]
  <2>1. n.kind = "progress" /\ n.key = k
    OBVIOUS
  <2> QED BY <2>1 DEF Notify
<1>2. CASE UNCHANGED <<chat, msgId>>
  BY <1>2, ForgetStep
<1>3. CASE msgId[k] # None /\ Update(msgId[k], notice, TRUE) /\ UNCHANGED msgId
  <2>1. \A j \in Key : j # k /\ msgId[j] # None => msgId[j] # msgId[k]
    BY <1>3 DEF KeysOwn
  <2>2. /\ ChatIsSequence' /\ RepliesStand
        /\ DOMAIN chat' = DOMAIN chat /\ chat'[msgId[k]] = notice
        /\ \A m \in DOMAIN chat : m # msgId[k] => chat'[m] = chat[m]
    BY <1>3, EditStep
  <2>3. KeysOwn'
    BY <1>1, <1>3, <2>1, <2>2 DEF KeysOwn
  <2> QED BY <2>2, <2>3
<1>4. CASE /\ Post(notice, TRUE)
           /\ msgId' = [msgId EXCEPT ![k] = Len(chat) + 1]
  BY <1>1, <1>4, PostStep DEF KeysOwn
<1> QED BY <1>1, <1>2, <1>3, <1>4 DEF Update, Post

\* deliverNow.
LEMMA DeliverStep ==
  ASSUME ChatInv, NEW k \in Key, Deliver(k) PROVE ChatInv' /\ RepliesStand
<1> USE NoneAssumption DEF ChatInv
<1>1. PICK part :
        \/ UNCHANGED <<chat, msgId>>
        \/ /\ msgId[k] # None /\ Update(msgId[k], part, TRUE)
           /\ msgId' = [msgId EXCEPT ![k] = None]
        \/ Post(part, TRUE) /\ UNCHANGED msgId
  BY DEF Deliver, PostPart, Post, MayOverwrite, Consumed
<1>2. CASE UNCHANGED <<chat, msgId>>
  BY <1>2, ForgetStep
<1>3. CASE /\ msgId[k] # None /\ Update(msgId[k], part, TRUE)
           /\ msgId' = [msgId EXCEPT ![k] = None]
  <2>1. \A j \in Key : j # k /\ msgId[j] # None => msgId[j] # msgId[k]
    BY <1>3 DEF KeysOwn
  <2> QED BY <1>3, <2>1, EditStep DEF KeysOwn
<1>4. CASE Post(part, TRUE) /\ UNCHANGED msgId
  BY <1>4, PostStep DEF KeysOwn
<1> QED BY <1>1, <1>2, <1>3, <1>4

LEMMA ChatStep ==
  ASSUME ChatInv, [Next]_vars PROVE ChatInv' /\ RepliesStand
<1>1. ASSUME NEW k \in Key, Notify(k) PROVE ChatInv' /\ RepliesStand
  BY <1>1, NotifyStep
<1>2. ASSUME NEW k \in Key, Deliver(k) PROVE ChatInv' /\ RepliesStand
  BY <1>2, DeliverStep
<1>3. ASSUME NEW k \in Key, Clear(k) PROVE ChatInv' /\ RepliesStand
  BY <1>3, ForgetStep DEF Clear, Forgotten
<1>4. CASE UNCHANGED <<chat, msgId>>
  BY <1>4, ForgetStep, KeyAssumption
<1> QED BY <1>1, <1>2, <1>3, <1>4
        DEF Next, Work, Run, Open, Start, SteerBegins, Steer, ToolStart, Tick,
            TurnEnds, End, PiStopped, Shutdown, CloseNotified, BeginTurn, Reply,
            FilesResolved, router, vars

\* tryUpdateProgress: chat.update reaches progress messages only, and each of
\* them from one key; no tick, reply or notice of any Session edits what a reply
\* wrote.
THEOREM RepliesAreNotEdited == Spec => ReplyStays
<1>1. Init => ChatInv
  BY DEF Init, ChatInv, ChatIsSequence, KeysOwn
<1>2. ChatInv /\ [Next]_vars => ChatInv' /\ RepliesStand
  BY ChatStep
<1> QED BY <1>1, <1>2, PTL DEF Spec, ReplyStays, RepliesStand

-----------------------------------------------------------------------------
(* The Sessions.                                                           *)

SessionTypes ==
  ses \in [Session ->
    [phase : Phase, key : Known, timer : BOOLEAN, turn : Nat,
     tools : Nat, last : Nat \cup {None}, steering : BOOLEAN]]

TurnsType == turns \in Nat

\* What a Session on its way out still has a timer for.
OutIsQuiet ==
  \A s \in Session :
    ses[s].phase \in {"closing", "stopping", "ended"} /\ ses[s].timer
      => ses[s].key \in strayed

\* A step keeps the types of the Sessions, and those on their way out quiet.
LEMMA SessionStep ==
  ASSUME SessionTypes, TurnsType, OutIsQuiet, [Next]_vars
  PROVE  SessionTypes' /\ TurnsType' /\ OutIsQuiet'
<1> USE KeyAssumption DEF SessionTypes, TurnsType, Known, Phase
<1>1. ASSUME NEW s \in Session, NEW k \in Known, NEW phase \in Phase,
             Reset(s, k, phase), strayed \subseteq strayed',
             phase \in {"closing", "stopping", "ended"} => k \in strayed'
      PROVE  SessionTypes' /\ TurnsType' /\ OutIsQuiet'
  <2>1. turns' \in Nat
    BY <1>1 DEF Reset
  <2>2. \A t \in Session : t # s => ses'[t] = ses[t]
    BY <1>1 DEF Reset
  <2>3. PICK next : /\ ses' = [ses EXCEPT ![s] = next]
                    /\ next = [ses[s] EXCEPT !.key = k, !.timer = TRUE, !.last = None,
                                 !.turn = turns + 1, !.phase = phase, !.steering = FALSE]
    BY <1>1 DEF Reset
  <2>4. next \in [phase : Phase, key : Known, timer : BOOLEAN, turn : Nat,
                  tools : Nat, last : Nat \cup {None}, steering : BOOLEAN]
        /\ next.phase = phase /\ next.key = k
    <3>1. ses[s] \in [phase : Phase, key : Known, timer : BOOLEAN, turn : Nat,
                      tools : Nat, last : Nat \cup {None}, steering : BOOLEAN]
      BY <1>1
    <3>2. turns + 1 \in Nat /\ k \in Known /\ phase \in Phase
      BY <1>1
    <3> HIDE DEF Known, Phase, SessionTypes
    <3> QED BY <2>3, <3>1, <3>2
  <2>5. SessionTypes' /\ ses'[s] = next
    BY <2>3, <2>4
  <2> QED BY <1>1, <2>1, <2>2, <2>4, <2>5 DEF OutIsQuiet
<1>2. ASSUME NEW s \in Session, NEW phase \in Phase, ClearAllTimers(s, phase),
             UNCHANGED <<turns, strayed>>
      PROVE  SessionTypes' /\ TurnsType' /\ OutIsQuiet'
  BY <1>2 DEF ClearAllTimers, OutIsQuiet
<1>3. ASSUME NEW s \in Session, NEW k \in Known, BeginTurn(s, k)
      PROVE  SessionTypes' /\ TurnsType' /\ OutIsQuiet'
  BY <1>1, <1>3 DEF BeginTurn
<1>4. ASSUME NEW s \in Session, Steer(s)
      PROVE  SessionTypes' /\ TurnsType' /\ OutIsQuiet'
  <2>1. ses[s].key \in Known /\ ses[s].phase \in Phase
    OBVIOUS
  <2>2. strayed \subseteq strayed'
    BY <1>4 DEF Steer
  <2>3. ses[s].phase \in {"closing", "stopping", "ended"} => ses[s].key \in strayed'
    BY <1>4 DEF Steer
  <2>4. Reset(s, ses[s].key, ses[s].phase)
    BY <1>4 DEF Steer
  <2> HIDE DEF Known, Phase
  <2> QED BY <1>1, <2>1, <2>2, <2>3, <2>4
<1>5. ASSUME NEW s \in Session,
             \/ Start(s) \/ SteerBegins(s) \/ ToolStart(s) \/ TurnEnds(s) \/ PiStopped(s)
      PROVE  SessionTypes' /\ TurnsType' /\ OutIsQuiet'
  <2>1. CASE Start(s)
    BY <2>1 DEF Start, OutIsQuiet
  <2>2. CASE SteerBegins(s)
    BY <2>2 DEF SteerBegins, OutIsQuiet
  <2>3. CASE ToolStart(s)
    BY <2>3 DEF ToolStart, OutIsQuiet
  <2>4. CASE TurnEnds(s)
    BY <2>4 DEF TurnEnds, OutIsQuiet
  <2>5. CASE PiStopped(s)
    BY <2>5 DEF PiStopped, OutIsQuiet
  <2> QED BY <1>5, <2>1, <2>2, <2>3, <2>4, <2>5
<1>6. ASSUME NEW s \in Session, Tick(s)
      PROVE  SessionTypes' /\ TurnsType' /\ OutIsQuiet'
  BY <1>6 DEF Tick, OutIsQuiet
<1>7. ASSUME NEW s \in Session, End(s)
      PROVE  SessionTypes' /\ TurnsType' /\ OutIsQuiet'
  <2>1. \E phase \in Phase : ClearAllTimers(s, phase)
    BY <1>7 DEF End
  <2> QED BY <1>2, <1>7, <2>1 DEF End
<1>8. ASSUME NEW s \in Session, Shutdown(s)
      PROVE  SessionTypes' /\ TurnsType' /\ OutIsQuiet'
  BY <1>2, <1>8 DEF Shutdown
<1>9. ASSUME NEW s \in Session, CloseNotified(s)
       PROVE  SessionTypes' /\ TurnsType' /\ OutIsQuiet'
  BY <1>9 DEF CloseNotified, OutIsQuiet
<1>10. ASSUME NEW k \in Key, Deliver(k)
       PROVE  SessionTypes' /\ TurnsType' /\ OutIsQuiet'
  <2>1. UNCHANGED <<turns, strayed>>
    BY <1>10 DEF Deliver
  <2>2. PICK r : ses' = ses \/ ses' = [ses EXCEPT ![replies[r].by].timer = FALSE]
    BY <1>10 DEF Deliver, PostPart, Sent, Settle
  <2>3. CASE replies[r].by \in Session
    BY <2>1, <2>2, <2>3 DEF OutIsQuiet
  <2>4. CASE replies[r].by \notin Session
    <3>1. ses' = ses
      BY <2>2, <2>4
    <3> QED BY <2>1, <3>1 DEF OutIsQuiet
  <2> QED BY <2>3, <2>4
<1>11. CASE UNCHANGED <<ses, turns, strayed>>
  BY <1>11 DEF OutIsQuiet
<1> QED BY <1>3, <1>4, <1>5, <1>6, <1>7, <1>8, <1>9, <1>10, <1>11
        DEF Next, Work, Run, Clear, Open, Notify, Reply, FilesResolved, vars

\* clearAllTimers: a Session that left the registry, by its orderly end, the exit
\* of pi, a shutdown or an abort, writes no progress any more, unless a steer
\* that had drained before resumed after it.
THEOREM EndedIsQuiet == Spec => []QuietAfterEnd
<1>1. Init => SessionTypes /\ TurnsType /\ OutIsQuiet
  BY KeyAssumption DEF Init, SessionTypes, TurnsType, OutIsQuiet, Phase, Known
<1>2. OutIsQuiet => QuietAfterEnd
  BY DEF OutIsQuiet, QuietAfterEnd
<1> QED BY <1>1, <1>2, SessionStep, PTL DEF Spec

-----------------------------------------------------------------------------
(* The queues.                                                             *)

Opens(e) == e.do \in {"open", "clear"}
ReplyOf(e, T) == e.do = "reply" /\ replies[e.reply].turn = T

\* No reply of turn T that has run, or stands in the queue of k before place j,
\* is followed by something that opens the path again before place j.
Shut(k, T, j) ==
  /\ <<k, T>> \in ran =>
       k \in closed /\ \A i \in DOMAIN queue[k] : i < j => ~Opens(queue[k][i])
  /\ \A h, i \in DOMAIN queue[k] :
       h < i /\ i < j /\ ReplyOf(queue[k][h], T) => ~Opens(queue[k][i])

\* A tick finds the path shut if a reply of its turn ran before it ...
TicksShut ==
  \A k \in Key \ strayed : \A j \in DOMAIN queue[k] :
    queue[k][j].do = "tick" => Shut(k, queue[k][j].turn, j)

\* ... and so does the one that a timer is still to enqueue.
TimersShut ==
  \A s \in Session :
    ses[s].timer /\ ses[s].key \notin strayed =>
      Shut(ses[s].key, ses[s].turn, Len(queue[ses[s].key]) + 1)

QueuedKnown ==
  \A k \in Key : \A j \in DOMAIN queue[k] :
    queue[k][j].do = "reply" =>
      /\ queue[k][j].reply \in DOMAIN replies
      /\ replies[queue[k][j].reply].state # "resolving"

\* The next turn is a new one for whatever has a turn.
TurnsBehind ==
  /\ \A k \in Key, T \in Nat : <<k, T>> \in ran => T <= turns
  /\ \A r \in DOMAIN replies : replies[r].turn <= turns
  /\ \A s \in Session : ses[s].turn <= turns

\* A reply that has sent a part has closed the path.
PartsClosed ==
  \A k \in Key : sentParts[k] # 0 =>
    queue[k] # <<>> /\ queue[k][1].do = "reply" /\ k \in closed

ReplyShape ==
  [by : Session, to : Key, files : BOOLEAN, parts : Nat, turn : Nat,
   state : {"resolving", "queued"} \cup Outcome]

QueueTypes ==
  /\ \E S : queue \in [Key -> Seq(S)]
  /\ sentParts \in [Key -> Nat]
ReplyTypes == replies \in Seq(ReplyShape)

\* A step gives no other turn to a reply that is in a queue.
TurnKept ==
  \A r \in DOMAIN replies :
    replies[r].state # "resolving" =>
      /\ r \in DOMAIN replies' /\ replies'[r].state # "resolving"
      /\ replies'[r].turn = replies[r].turn

\* What Enqueue does to the queues.
LEMMA EnqueueEffect ==
  ASSUME QueueTypes, NEW k \in Key, NEW e, Enqueue(k, e)
  PROVE  /\ \E S : queue' \in [Key -> Seq(S)]
         /\ \A j \in Key \ {k} : queue'[j] = queue[j]
         /\ Len(queue[k]) \in Nat /\ DOMAIN queue[k] = 1..Len(queue[k])
         /\ Len(queue'[k]) = Len(queue[k]) + 1
         /\ DOMAIN queue'[k] = 1..(Len(queue[k]) + 1)
         /\ \A i \in DOMAIN queue[k] : queue'[k][i] = queue[k][i]
         /\ queue'[k][Len(queue[k]) + 1] = e
<1>1. PICK S : queue \in [Key -> Seq(S)]
  BY DEF QueueTypes
<1>2. queue' = [queue EXCEPT ![k] = Append(queue[k], e)]
  BY DEF Enqueue
<1>3. queue[k] \in Seq(S \cup {e})
  BY <1>1
<1>4. Append(queue[k], e) \in Seq(S \cup {e})
  BY <1>3
<1>5. /\ Len(queue[k]) \in Nat /\ DOMAIN queue[k] = 1..Len(queue[k])
      /\ Len(Append(queue[k], e)) = Len(queue[k]) + 1
      /\ DOMAIN Append(queue[k], e) = 1..(Len(queue[k]) + 1)
      /\ \A i \in DOMAIN queue[k] : Append(queue[k], e)[i] = queue[k][i]
      /\ Append(queue[k], e)[Len(queue[k]) + 1] = e
  BY <1>3
<1>6. \A j \in Key : queue[j] \in Seq(S \cup {e})
  BY <1>1
<1>7. queue' \in [Key -> Seq(S \cup {e})]
  BY <1>1, <1>2, <1>4, <1>6
<1>8. queue'[k] = Append(queue[k], e) /\ \A j \in Key \ {k} : queue'[j] = queue[j]
  BY <1>1, <1>2
<1> QED BY <1>5, <1>7, <1>8

\* What Pop does to them.
LEMMA PopEffect ==
  ASSUME QueueTypes, NEW k \in Key, queue[k] # <<>>, Pop(k)
  PROVE  /\ \E S : queue' \in [Key -> Seq(S)]
         /\ \A j \in Key \ {k} : queue'[j] = queue[j]
         /\ Len(queue[k]) \in Nat /\ Len(queue[k]) >= 1
         /\ DOMAIN queue[k] = 1..Len(queue[k])
         /\ Head(queue[k]) = queue[k][1]
         /\ Len(queue'[k]) = Len(queue[k]) - 1
         /\ DOMAIN queue'[k] = 1..(Len(queue[k]) - 1)
         /\ \A i \in 1..(Len(queue[k]) - 1) : queue'[k][i] = queue[k][i + 1]
<1>1. PICK S : queue \in [Key -> Seq(S)]
  BY DEF QueueTypes
<1>2. queue' = [queue EXCEPT ![k] = Tail(queue[k])]
  BY DEF Pop
<1>3. queue[k] \in Seq(S)
  BY <1>1
<1>4. Tail(queue[k]) \in Seq(S)
  BY <1>3
<1>5. /\ Len(queue[k]) \in Nat /\ Len(queue[k]) >= 1
      /\ DOMAIN queue[k] = 1..Len(queue[k])
      /\ Head(queue[k]) = queue[k][1]
      /\ Len(Tail(queue[k])) = Len(queue[k]) - 1
      /\ DOMAIN Tail(queue[k]) = 1..(Len(queue[k]) - 1)
      /\ \A i \in 1..(Len(queue[k]) - 1) : Tail(queue[k])[i] = queue[k][i + 1]
  BY <1>3
<1>6. queue' \in [Key -> Seq(S)]
  BY <1>1, <1>2, <1>4
<1>7. queue'[k] = Tail(queue[k]) /\ \A j \in Key \ {k} : queue'[j] = queue[j]
  BY <1>1, <1>2
<1> QED BY <1>5, <1>6, <1>7

\* A reply that is called, or a notice.
LEMMA ReplyAdded ==
  ASSUME ReplyTypes, NEW rec \in ReplyShape, replies' = Append(replies, rec)
  PROVE  /\ ReplyTypes' /\ TurnKept
         /\ Len(replies) \in Nat /\ DOMAIN replies' = DOMAIN replies \cup {Len(replies) + 1}
         /\ replies'[Len(replies) + 1] = rec
         /\ \A r \in DOMAIN replies : replies'[r] = replies[r]
<1> USE DEF ReplyTypes
<1>1. replies' \in Seq(ReplyShape)
  OBVIOUS
<1>2. /\ Len(replies) \in Nat /\ DOMAIN replies' = DOMAIN replies \cup {Len(replies) + 1}
      /\ replies'[Len(replies) + 1] = rec
      /\ \A r \in DOMAIN replies : replies'[r] = replies[r]
  OBVIOUS
<1> QED BY <1>1, <1>2 DEF TurnKept

\* A reply that is over.
LEMMA ReplySettled ==
  ASSUME ReplyTypes, NEW r \in DOMAIN replies, NEW outcome \in Outcome,
         replies' = [replies EXCEPT ![r].state = outcome]
  PROVE  /\ ReplyTypes' /\ TurnKept
         /\ DOMAIN replies' = DOMAIN replies
         /\ \A q \in DOMAIN replies : replies'[q].turn = replies[q].turn
<1> USE DEF ReplyTypes
<1>1. replies[r] \in ReplyShape
  OBVIOUS
<1>2. PICK rec : rec = [replies[r] EXCEPT !.state = outcome]
  OBVIOUS
<1>3. rec \in ReplyShape /\ rec.turn = replies[r].turn /\ rec.state = outcome
  BY <1>1, <1>2 DEF ReplyShape
<1>4. replies' = [replies EXCEPT ![r] = rec]
  BY <1>2
<1>5. replies' \in Seq(ReplyShape)
  BY <1>3, <1>4
<1>6. DOMAIN replies' = DOMAIN replies /\ replies'[r] = rec
      /\ \A q \in DOMAIN replies \ {r} : replies'[q] = replies[q]
  BY <1>3, <1>4
<1>7. outcome # "resolving"
  BY DEF Outcome
<1> QED BY <1>3, <1>5, <1>6, <1>7 DEF TurnKept

\* A reply in a queue keeps its turn.
LEMMA ReplyKept ==
  ASSUME QueuedKnown, TurnKept, NEW k \in Key, NEW j \in DOMAIN queue[k], NEW T,
         queue[k][j].do = "reply"
  PROVE  replies'[queue[k][j].reply].turn = replies[queue[k][j].reply].turn
BY DEF QueuedKnown, TurnKept

\* A task at the end of a queue leaves every place up to it shut, and also the
\* next place unless it opens the path.
LEMMA ShutEnqueued ==
  ASSUME QueueTypes, QueuedKnown, TurnKept, NEW k \in Key, NEW e, Enqueue(k, e),
         UNCHANGED <<closed, ran>>, NEW T
  PROVE  /\ \A j \in 1..(Len(queue[k]) + 1) : Shut(k, T, j) => Shut(k, T, j)'
         /\ ~Opens(e) /\ Shut(k, T, Len(queue[k]) + 1)
              => \A j \in 1..(Len(queue[k]) + 2) : Shut(k, T, j)'
<1>1. /\ Len(queue[k]) \in Nat /\ DOMAIN queue[k] = 1..Len(queue[k])
      /\ DOMAIN queue'[k] = 1..(Len(queue[k]) + 1)
      /\ \A i \in DOMAIN queue[k] : queue'[k][i] = queue[k][i]
      /\ queue'[k][Len(queue[k]) + 1] = e
  BY EnqueueEffect
<1>2. \A h \in DOMAIN queue[k] : ReplyOf(queue[k][h], T)' => ReplyOf(queue[k][h], T)
  BY <1>1, ReplyKept DEF ReplyOf
<1>3. \A j \in 1..(Len(queue[k]) + 1) : Shut(k, T, j) => Shut(k, T, j)'
  BY <1>1, <1>2 DEF Shut, Opens, ReplyOf
<1>4. ASSUME ~Opens(e), Shut(k, T, Len(queue[k]) + 1)
      PROVE  \A j \in 1..(Len(queue[k]) + 2) : Shut(k, T, j)'
  <2>1. ASSUME <<k, T>> \in ran'
        PROVE  k \in closed' /\ \A i \in DOMAIN queue'[k] : ~Opens(queue'[k][i])
    <3>1. k \in closed /\ \A i \in DOMAIN queue[k] : ~Opens(queue[k][i])
      BY <1>1, <1>4, <2>1 DEF Shut
    <3> QED BY <1>1, <1>4, <3>1
  <2>2. ASSUME NEW h \in DOMAIN queue'[k], NEW i \in DOMAIN queue'[k], h < i,
               ReplyOf(queue[k][h], T)'
        PROVE  ~Opens(queue'[k][i])
    <3>1. CASE i = Len(queue[k]) + 1
      BY <1>1, <1>4, <3>1
    <3>2. CASE i \in DOMAIN queue[k]
      BY <1>1, <1>2, <1>4, <2>2, <3>2 DEF Shut
    <3> QED BY <1>1, <3>1, <3>2
  <2> QED BY <2>1, <2>2 DEF Shut, Opens, ReplyOf
<1> QED BY <1>3, <1>4

\* A queue that a step leaves alone stays as it is.
LEMMA ShutElsewhere ==
  ASSUME QueuedKnown, TurnKept, NEW k \in Key, queue'[k] = queue[k],
         k \in closed' <=> k \in closed, NEW T, <<k, T>> \in ran' <=> <<k, T>> \in ran,
         NEW j, Shut(k, T, j)
  PROVE  Shut(k, T, j)'
<1>1. \A h \in DOMAIN queue[k] : ReplyOf(queue[k][h], T)' => ReplyOf(queue[k][h], T)
  BY ReplyKept DEF ReplyOf
<1> QED BY <1>1 DEF Shut, Opens, ReplyOf

\* The head leaves the queue.  If it opened the path, no reply of the turn ran
\* before it; if it was a reply, it has closed the path.
LEMMA ShutPopped ==
  ASSUME QueueTypes, QueuedKnown, TurnKept, NEW k \in Key, queue[k] # <<>>, Pop(k),
         NEW T, NEW j \in Nat, j >= 1, Shut(k, T, j + 1),
         \/ Opens(queue[k][1]) /\ ran' = ran
         \/ /\ ~Opens(queue[k][1]) /\ (k \in closed => k \in closed')
            /\ <<k, T>> \in ran' =>
                 <<k, T>> \in ran \/ (ReplyOf(queue[k][1], T) /\ k \in closed')
  PROVE  Shut(k, T, j)'
<1>1. /\ Len(queue[k]) \in Nat /\ Len(queue[k]) >= 1
      /\ DOMAIN queue[k] = 1..Len(queue[k])
      /\ DOMAIN queue'[k] = 1..(Len(queue[k]) - 1)
      /\ \A i \in 1..(Len(queue[k]) - 1) : queue'[k][i] = queue[k][i + 1]
  BY PopEffect
<1>2. \A h \in DOMAIN queue'[k] : ReplyOf(queue[k][h], T)' => ReplyOf(queue[k][h + 1], T)
  <2> TAKE h \in DOMAIN queue'[k]
  <2>1. h + 1 \in DOMAIN queue[k] /\ queue'[k][h] = queue[k][h + 1]
    BY <1>1
  <2>2. queue[k][h + 1].do = "reply" =>
          replies'[queue[k][h + 1].reply].turn = replies[queue[k][h + 1].reply].turn
    BY <2>1, ReplyKept
  <2> QED BY <2>1, <2>2 DEF ReplyOf
<1>3. <<k, T>> \in ran' => k \in closed' /\ \A i \in DOMAIN queue[k] :
                            1 < i /\ i < j + 1 => ~Opens(queue[k][i])
  <2>1. CASE Opens(queue[k][1]) /\ ran' = ran
    BY <1>1, <2>1 DEF Shut
  <2>2. CASE <<k, T>> \in ran
    BY <1>1, <2>2 DEF Shut
  <2>3. CASE ReplyOf(queue[k][1], T) /\ k \in closed'
    BY <1>1, <2>3 DEF Shut
  <2> QED BY <2>1, <2>2, <2>3
<1>4. ASSUME NEW h \in DOMAIN queue'[k], NEW i \in DOMAIN queue'[k],
             h < i, i < j, ReplyOf(queue[k][h], T)'
      PROVE  ~Opens(queue'[k][i])
  <2>1. /\ h + 1 \in DOMAIN queue[k] /\ i + 1 \in DOMAIN queue[k]
        /\ h + 1 < i + 1 /\ i + 1 < j + 1 /\ queue'[k][i] = queue[k][i + 1]
    BY <1>1, <1>4
  <2> QED BY <1>2, <1>4, <2>1 DEF Shut
<1>5. ASSUME NEW i \in DOMAIN queue'[k], i < j, <<k, T>> \in ran'
      PROVE  ~Opens(queue'[k][i])
  <2>1. /\ i + 1 \in DOMAIN queue[k] /\ 1 < i + 1 /\ i + 1 < j + 1
        /\ queue'[k][i] = queue[k][i + 1]
    BY <1>1, <1>5
  <2> QED BY <1>3, <1>5, <2>1
<1> QED BY <1>3, <1>4, <1>5 DEF Shut, Opens, ReplyOf

\* The head is a reply that has sent a part and has more of them.
LEMMA ShutByPart ==
  ASSUME QueueTypes, QueuedKnown, TurnKept, NEW k \in Key, queue[k] # <<>>,
         queue' = queue, queue[k][1].do = "reply", k \in closed',
         NEW T, <<k, T>> \in ran' => <<k, T>> \in ran \/ ReplyOf(queue[k][1], T),
         NEW j \in Nat, Shut(k, T, j)
  PROVE  Shut(k, T, j)'
<1>1. Len(queue[k]) \in Nat /\ Len(queue[k]) >= 1 /\ DOMAIN queue[k] = 1..Len(queue[k])
  BY DEF QueueTypes
<1>2. \A h \in DOMAIN queue[k] : ReplyOf(queue[k][h], T)' => ReplyOf(queue[k][h], T)
  BY ReplyKept DEF ReplyOf
<1>3. ~Opens(queue[k][1])
  BY DEF Opens
<1> QED BY <1>1, <1>2, <1>3 DEF Shut, Opens, ReplyOf

DataInv == QueueTypes /\ QueuedKnown /\ PartsClosed

\* The queues stay well formed when a task joins one ...
LEMMA DataEnqueued ==
  ASSUME DataInv, TurnKept, NEW k \in Key, NEW e, Enqueue(k, e),
         UNCHANGED <<sentParts, closed>>,
         e.do = "reply" => e.reply \in DOMAIN replies' /\ replies'[e.reply].state # "resolving"
  PROVE  DataInv'
<1> USE DEF DataInv
<1>1. /\ \E S : queue' \in [Key -> Seq(S)]
      /\ \A q \in Key \ {k} : queue'[q] = queue[q]
      /\ Len(queue[k]) \in Nat /\ DOMAIN queue[k] = 1..Len(queue[k])
      /\ DOMAIN queue'[k] = 1..(Len(queue[k]) + 1)
      /\ \A i \in DOMAIN queue[k] : queue'[k][i] = queue[k][i]
      /\ queue'[k][Len(queue[k]) + 1] = e
  BY EnqueueEffect
<1>2. QueueTypes'
  BY <1>1 DEF QueueTypes
<1>3. \A q \in Key : \A j \in DOMAIN queue'[q] :
        \/ q = k /\ j = Len(queue[k]) + 1
        \/ j \in DOMAIN queue[q] /\ queue'[q][j] = queue[q][j]
  <2> TAKE q \in Key
  <2> TAKE j \in DOMAIN queue'[q]
  <2>1. CASE q = k
    BY <1>1, <2>1
  <2>2. CASE q # k
    BY <1>1, <2>2
  <2> QED BY <2>1, <2>2
<1>4. QueuedKnown'
  BY <1>1, <1>3 DEF QueuedKnown, TurnKept
<1>5. ASSUME NEW q \in Key, queue[q] # <<>>
      PROVE  queue'[q] # <<>> /\ queue'[q][1] = queue[q][1]
  <2>1. PICK S : queue[q] \in Seq(S)
    BY DEF QueueTypes
  <2>2. 1 \in DOMAIN queue[q]
    BY <1>5, <2>1
  <2> QED BY <1>1, <1>5, <2>2
<1>6. PartsClosed'
  BY <1>5 DEF PartsClosed
<1> QED BY <1>2, <1>4, <1>6

\* ... when its head is over ...
LEMMA DataPopped ==
  ASSUME DataInv, TurnKept, NEW k \in Key, queue[k] # <<>>, Pop(k),
         sentParts' \in [Key -> Nat], sentParts'[k] = 0,
         \A q \in Key \ {k} : sentParts'[q] = sentParts[q],
         \A q \in Key \ {k} : q \in closed => q \in closed'
  PROVE  DataInv'
<1> USE DEF DataInv
<1>1. /\ \E S : queue' \in [Key -> Seq(S)]
      /\ \A q \in Key \ {k} : queue'[q] = queue[q]
      /\ Len(queue[k]) \in Nat /\ DOMAIN queue[k] = 1..Len(queue[k])
      /\ DOMAIN queue'[k] = 1..(Len(queue[k]) - 1)
      /\ \A i \in 1..(Len(queue[k]) - 1) : queue'[k][i] = queue[k][i + 1]
  BY PopEffect
<1>3. QueueTypes'
  BY <1>1 DEF QueueTypes
<1>4. \A q \in Key : \A j \in DOMAIN queue'[q] :
        \E i \in DOMAIN queue[q] : queue'[q][j] = queue[q][i]
  <2> TAKE q \in Key
  <2> TAKE j \in DOMAIN queue'[q]
  <2>1. CASE q = k
    BY <1>1, <2>1
  <2>2. CASE q # k
    BY <1>1, <2>2
  <2> QED BY <2>1, <2>2
<1>5. QueuedKnown'
  BY <1>4 DEF QueuedKnown, TurnKept
<1>6. PartsClosed'
  BY <1>1 DEF PartsClosed
<1> QED BY <1>3, <1>5, <1>6

\* ... and when a step leaves them alone.
LEMMA DataKept ==
  ASSUME DataInv, TurnKept, UNCHANGED <<queue, sentParts, closed>>
  PROVE  DataInv'
BY DEF DataInv, QueueTypes, QueuedKnown, PartsClosed, TurnKept

\* What replies a step may leave.
LEMMA RepliesSame ==
  ASSUME replies' = replies PROVE TurnKept
BY DEF TurnKept

SessionInv == SessionTypes /\ TurnsType /\ OutIsQuiet
QueueInv == DataInv /\ ReplyTypes /\ TurnsBehind

\* What a step of deliverNow does: the reply at the head is over, or it has
\* more parts.
LEMMA DeliverEffect ==
  ASSUME DataInv, NEW k \in Key, Deliver(k)
  PROVE  \E r \in DOMAIN replies :
           /\ queue[k] # <<>> /\ queue[k][1].do = "reply" /\ r = queue[k][1].reply
           /\ replies[r].state # "resolving"
           /\ closed' = closed \cup {k} /\ ran' = ran \cup {<<k, replies[r].turn>>}
           /\ UNCHANGED <<turns, strayed>>
           /\ \/ /\ Pop(k) /\ sentParts' = [sentParts EXCEPT ![k] = 0]
                 /\ \E outcome \in Outcome :
                      replies' = [replies EXCEPT ![r].state = outcome]
                 /\ \/ ses' = ses
                    \/ ses' = [ses EXCEPT ![replies[r].by].timer = FALSE]
              \/ /\ UNCHANGED <<queue, replies, ses>>
                 /\ sentParts' = [sentParts EXCEPT ![k] = @ + 1]
<1> DEFINE r == queue[k][1].reply
<1>1. queue[k] # <<>> /\ Head(queue[k]).do = "reply"
  BY DEF Deliver, Is
<1>2. Head(queue[k]) = queue[k][1] /\ 1 \in DOMAIN queue[k]
  BY <1>1 DEF DataInv, QueueTypes
<1>3. r \in DOMAIN replies /\ replies[r].state # "resolving"
  BY <1>1, <1>2 DEF DataInv, QueuedKnown
<1>4. closed' = closed \cup {k}
  BY DEF Deliver, Closes, DataInv, PartsClosed
<1>5. ran' = ran \cup {<<k, replies[r].turn>>} /\ UNCHANGED <<turns, strayed>>
  BY <1>2 DEF Deliver
<1>6. ASSUME NEW outcome \in Outcome, Settle(k, r, outcome)
      PROVE  /\ Pop(k) /\ sentParts' = [sentParts EXCEPT ![k] = 0]
             /\ replies' = [replies EXCEPT ![r].state = outcome]
             /\ ses' = ses \/ ses' = [ses EXCEPT ![replies[r].by].timer = FALSE]
  BY <1>6 DEF Settle
<1>7. \/ \E outcome \in Outcome : Settle(k, r, outcome)
      \/ /\ UNCHANGED <<queue, replies, ses>>
         /\ sentParts' = [sentParts EXCEPT ![k] = @ + 1]
  BY <1>2 DEF Deliver, PostPart, Sent, Outcome
<1> QED BY <1>1, <1>2, <1>3, <1>4, <1>5, <1>6, <1>7

LEMMA QueueStep ==
  ASSUME SessionInv, QueueInv, [Next]_vars
  PROVE  QueueInv' /\ TurnKept
<1> USE DEF QueueInv
<1> DEFINE Goal == QueueInv' /\ TurnKept
<1>1. ASSUME UNCHANGED <<queue, sentParts, closed, ran, replies, turns>>,
             \A s \in Session : ses'[s].turn = ses[s].turn
      PROVE  Goal
  BY <1>1, DataKept, RepliesSame DEF ReplyTypes, TurnsBehind
<1>2. ASSUME NEW s \in Session, NEW k \in Key, NEW phase, Reset(s, k, phase),
             UNCHANGED <<router, replies>>
      PROVE  Goal
  <2>1. DataInv'
    BY <1>2, RepliesSame, DataEnqueued DEF Reset, router
  <2>2. turns' = turns + 1 /\ turns \in Nat
    BY <1>2 DEF Reset, SessionInv, TurnsType
  <2>3. \A t \in Session : ses'[t].turn \in {ses[t].turn, turns + 1}
    BY <1>2 DEF Reset, SessionInv, SessionTypes
  <2>4. \A t \in Session : ses[t].turn \in Nat
    BY DEF SessionInv, SessionTypes
  <2>5. \A r \in DOMAIN replies : replies[r].turn \in Nat
    <3>1. \A r \in DOMAIN replies : replies[r] \in ReplyShape
      BY DEF ReplyTypes
    <3> QED BY <3>1 DEF ReplyShape
  <2>6. TurnsBehind'
    BY <1>2, <2>2, <2>3, <2>4, <2>5 DEF TurnsBehind, router
  <2> QED BY <1>2, <2>1, <2>6, RepliesSame DEF ReplyTypes
<1>3. ASSUME NEW k \in Key, NEW e, Enqueue(k, e), e.do # "reply",
             UNCHANGED <<sentParts, closed, ran, replies, turns>>,
             \A s \in Session : ses'[s].turn = ses[s].turn
      PROVE  Goal
  BY <1>3, DataEnqueued, RepliesSame DEF ReplyTypes, TurnsBehind
<1>4. ASSUME NEW rec \in ReplyShape, replies' = Append(replies, rec), rec.turn <= turns,
             UNCHANGED <<sentParts, closed, ran, turns>>,
             \A s \in Session : ses'[s].turn = ses[s].turn,
             \/ queue' = queue
             \/ \E k \in Key : /\ Enqueue(k, [do |-> "reply", reply |-> Len(replies) + 1])
                              /\ rec.state # "resolving"
      PROVE  Goal
  <2>1. /\ ReplyTypes' /\ TurnKept
        /\ Len(replies) \in Nat /\ DOMAIN replies' = DOMAIN replies \cup {Len(replies) + 1}
        /\ replies'[Len(replies) + 1] = rec
        /\ \A r \in DOMAIN replies : replies'[r] = replies[r]
    BY <1>4, ReplyAdded
  <2>2. DataInv'
    BY <1>4, <2>1, DataKept, DataEnqueued
  <2>3. TurnsBehind'
    BY <1>4, <2>1 DEF TurnsBehind
  <2> QED BY <2>1, <2>2, <2>3
<1> HIDE DEF Goal
<1>5. ASSUME NEW s \in Session,
             \/ Start(s) \/ SteerBegins(s) \/ ToolStart(s) \/ TurnEnds(s) \/ PiStopped(s)
      PROVE  Goal
  <2>1. UNCHANGED <<queue, sentParts, closed, ran, replies, turns>>
    BY <1>5 DEF Start, SteerBegins, ToolStart, TurnEnds, PiStopped, router
  <2>2. \A t \in Session : ses'[t].turn = ses[t].turn
    BY <1>5 DEF Start, SteerBegins, ToolStart, TurnEnds, PiStopped, SessionInv, SessionTypes
  <2> QED BY <1>1, <2>1, <2>2
<1>6. ASSUME NEW s \in Session, NEW k \in Known, BeginTurn(s, k)
      PROVE  Goal
  BY <1>2, <1>6 DEF BeginTurn, Known
<1>7. ASSUME NEW s \in Session, Steer(s)
      PROVE  Goal
  <2>1. ses[s].key \in Key
    BY DEF SessionInv, SessionTypes, Known
  <2> QED BY <1>2, <1>7, <2>1 DEF Steer
<1>8. ASSUME NEW s \in Session, Tick(s) \/ End(s) \/ CloseNotified(s)
      PROVE  Goal
  <2>1. ses[s].key \in Key
    BY DEF SessionInv, SessionTypes, Known
  <2>2. \A t \in Session : ses'[t].turn = ses[t].turn
    BY <1>8 DEF Tick, End, ClearAllTimers, CloseNotified, SessionInv, SessionTypes
  <2>3. PICK e : e.do # "reply" /\ Enqueue(ses[s].key, e)
    BY <1>8 DEF Tick, End, CloseNotified
  <2>4. UNCHANGED <<sentParts, closed, ran, replies, turns>>
    BY <1>8 DEF Tick, End, CloseNotified, router
  <2> QED BY <1>3, <2>1, <2>2, <2>3, <2>4
<1>9. ASSUME NEW s \in Session, NEW to \in Key, NEW files \in BOOLEAN,
             NEW parts \in 1..MaxParts, Reply(s, to, files, parts)
      PROVE  Goal
  <2> DEFINE rec == [by |-> s, to |-> to, files |-> files, parts |-> parts,
                     turn |-> IF files THEN 0 ELSE ses[s].turn,
                     state |-> IF files THEN "resolving" ELSE "queued"]
  <2>1. ses[s].key \in Key /\ ses[s].turn \in Nat /\ ses[s].turn <= turns /\ turns \in Nat
    BY DEF SessionInv, SessionTypes, TurnsType, TurnsBehind, Known
  <2>2. rec \in ReplyShape /\ rec.turn <= turns /\ (~files => rec.state # "resolving")
    BY <2>1, BoundAssumption DEF ReplyShape
  <2>3. replies' = Append(replies, rec) /\ UNCHANGED <<sentParts, closed, ran, turns, ses>>
    BY <1>9 DEF Reply, router
  <2>4. \/ queue' = queue
        \/ ~files /\ Enqueue(ses[s].key, [do |-> "reply", reply |-> Len(replies) + 1])
    BY <1>9 DEF Reply, Hand
  <2> HIDE DEF rec
  <2> QED BY <1>4, <2>1, <2>2, <2>3, <2>4
<1>10. ASSUME NEW s \in Session, Shutdown(s)
       PROVE  Goal
  <2> DEFINE rec == [by |-> s, to |-> SessionKey, files |-> FALSE, parts |-> 1,
                     turn |-> ses[s].turn, state |-> "queued"]
  <2>1. ses[s].key \in Key /\ ses[s].turn \in Nat /\ ses[s].turn <= turns /\ turns \in Nat
    BY DEF SessionInv, SessionTypes, TurnsType, TurnsBehind, Known
  <2>2. rec \in ReplyShape /\ rec.turn <= turns /\ rec.state # "resolving"
    BY <2>1, KeyAssumption DEF ReplyShape
  <2>3. replies' = Append(replies, rec) /\ UNCHANGED <<sentParts, closed, ran, turns>>
    BY <1>10 DEF Shutdown, router
  <2>4. Enqueue(ses[s].key, [do |-> "reply", reply |-> Len(replies) + 1])
    BY <1>10 DEF Shutdown, Hand
  <2>5. \A t \in Session : ses'[t].turn = ses[t].turn
    BY <1>10 DEF Shutdown, ClearAllTimers, SessionInv, SessionTypes
  <2> HIDE DEF rec
  <2> QED BY <1>4, <2>1, <2>2, <2>3, <2>4, <2>5
<1>11. ASSUME NEW r \in DOMAIN replies, FilesResolved(r)
       PROVE  Goal
  <2>0. PICK kept \in BOOLEAN :
          replies' = [replies EXCEPT ![r] =
                        [replies[r] EXCEPT !.state = "queued", !.files = kept,
                                           !.turn = ses[replies[r].by].turn]]
    BY <1>11 DEF FilesResolved
  <2>1. PICK rec :
          /\ replies' = [replies EXCEPT ![r] = rec]
          /\ rec = [replies[r] EXCEPT !.state = "queued", !.files = kept,
                                      !.turn = ses[replies[r].by].turn]
    BY <2>0
  <2>2. replies[r] \in ReplyShape /\ replies[r].by \in Session
    <3>1. replies[r] \in ReplyShape
      BY DEF ReplyTypes
    <3> QED BY <3>1 DEF ReplyShape
  <2>3. /\ ses[replies[r].by].turn \in Nat /\ ses[replies[r].by].key \in Key
        /\ ses[replies[r].by].turn <= turns
    BY <2>2 DEF SessionInv, SessionTypes, TurnsBehind, Known
  <2>4. rec \in ReplyShape /\ rec.turn <= turns /\ rec.state # "resolving"
    BY <2>1, <2>2, <2>3 DEF ReplyShape
  <2>5. /\ ReplyTypes' /\ DOMAIN replies' = DOMAIN replies /\ replies'[r] = rec
        /\ \A q \in DOMAIN replies \ {r} : replies'[q] = replies[q]
    BY <2>1, <2>4 DEF ReplyTypes
  <2>6. TurnKept
    BY <1>11, <2>5 DEF TurnKept, FilesResolved
  <2>7. DataInv'
    <3>1. Enqueue(ses[replies[r].by].key, [do |-> "reply", reply |-> r])
          /\ UNCHANGED <<sentParts, closed>>
      BY <1>11 DEF FilesResolved, Hand, router
    <3> QED BY <2>3, <2>4, <2>5, <2>6, <3>1, DataEnqueued
  <2>8. TurnsBehind'
    BY <1>11, <2>4, <2>5 DEF TurnsBehind, FilesResolved, router
  <2> QED BY <2>5, <2>6, <2>7, <2>8 DEF Goal
<1>12. ASSUME NEW k \in Key, Clear(k) \/ Open(k) \/ Notify(k)
       PROVE  Goal
  <2>1. /\ queue[k] # <<>> /\ Pop(k) /\ UNCHANGED <<sentParts, ses, turns, replies, ran>>
        /\ \A q \in Key \ {k} : q \in closed => q \in closed'
    BY <1>12 DEF Clear, Open, Notify, Is
  <2>2. sentParts[k] = 0
    <3>1. queue[k][1].do # "reply"
      BY <1>12, <2>1, PopEffect DEF Clear, Open, Notify, Is, DataInv
    <3> QED BY <3>1 DEF DataInv, PartsClosed
  <2>3. DataInv'
    BY <2>1, <2>2, DataPopped, RepliesSame DEF DataInv, QueueTypes
  <2> QED BY <2>1, <2>3, RepliesSame DEF Goal, ReplyTypes, TurnsBehind
<1>13. ASSUME NEW k \in Key, Deliver(k)
       PROVE  Goal
  <2>1. PICK r \in DOMAIN replies :
          /\ queue[k] # <<>> /\ queue[k][1].do = "reply"
          /\ closed' = closed \cup {k} /\ ran' = ran \cup {<<k, replies[r].turn>>}
          /\ turns' = turns
          /\ \/ /\ Pop(k) /\ sentParts' = [sentParts EXCEPT ![k] = 0]
                /\ \E outcome \in Outcome :
                     replies' = [replies EXCEPT ![r].state = outcome]
                /\ ses' = ses \/ ses' = [ses EXCEPT ![replies[r].by].timer = FALSE]
             \/ /\ UNCHANGED <<queue, replies, ses>>
                /\ sentParts' = [sentParts EXCEPT ![k] = @ + 1]
    BY <1>13, DeliverEffect
  <2>2. /\ ReplyTypes' /\ TurnKept /\ DOMAIN replies' = DOMAIN replies
        /\ \A q \in DOMAIN replies : replies'[q].turn = replies[q].turn
    BY <2>1, ReplySettled, RepliesSame DEF ReplyTypes
  <2>3. \A t \in Session : ses'[t].turn = ses[t].turn
    <3>1. CASE ses' = ses
      BY <3>1
    <3>2. CASE ses' = [ses EXCEPT ![replies[r].by].timer = FALSE]
      <4>1. replies[r] \in ReplyShape
        BY DEF ReplyTypes
      <4>2. replies[r].by \in Session
        BY <4>1 DEF ReplyShape
      <4> QED BY <3>2, <4>2 DEF SessionInv, SessionTypes
    <3> QED BY <2>1, <3>1, <3>2
  <2>4. DataInv'
    <3>1. CASE Pop(k) /\ sentParts' = [sentParts EXCEPT ![k] = 0]
      <4>1. queue[k] # <<>> /\ \A q \in Key \ {k} : q \in closed => q \in closed'
        BY <2>1
      <4>2. TurnKept
        BY <2>2
      <4>3. /\ sentParts' \in [Key -> Nat] /\ sentParts'[k] = 0
            /\ \A q \in Key \ {k} : sentParts'[q] = sentParts[q]
        BY <3>1 DEF DataInv, QueueTypes
      <4> QED BY <3>1, <4>1, <4>2, <4>3, DataPopped
    <3>2. CASE queue' = queue /\ replies' = replies /\ sentParts' = [sentParts EXCEPT ![k] = @ + 1]
      <4>1. sentParts' \in [Key -> Nat] /\ \A q \in Key \ {k} : sentParts'[q] = sentParts[q]
        BY <3>2 DEF DataInv, QueueTypes
      <4> QED BY <2>1, <3>2, <4>1 DEF DataInv, QueueTypes, QueuedKnown, PartsClosed
    <3> QED BY <2>1, <3>1, <3>2
  <2>5. TurnsBehind'
    <3>1. \A q \in Key, T \in Nat : <<q, T>> \in ran' => T <= turns
      BY <2>1 DEF TurnsBehind
    <3> QED BY <2>1, <2>2, <2>3, <3>1 DEF TurnsBehind
  <2> QED BY <2>2, <2>4, <2>5 DEF Goal
<1>14. CASE UNCHANGED vars
  <2>1. UNCHANGED <<queue, sentParts, closed, ran, replies, turns, ses>>
    BY <1>14 DEF vars
  <2> QED BY <1>1, <2>1 DEF Goal
<1> QED BY <1>5, <1>6, <1>7, <1>8, <1>9, <1>10, <1>11, <1>12, <1>13, <1>14
        DEF Next, Work, Run, Goal

\* Sessions follow each other, and one that has had no turn has no timer.
OneLive ==
  /\ \A s, t \in Session : s < t /\ ses[t].phase # "none" => ses[s].phase = "ended"
  /\ \A s \in Session :
       ses[s].phase \in {"none", "starting"} => ~ses[s].timer /\ ~ses[s].steering

LEMMA LiveStep ==
  ASSUME SessionTypes, OneLive, [Next]_vars PROVE OneLive'
<1> USE BoundAssumption DEF SessionTypes, Session
<1> DEFINE Rec == [phase : Phase, key : Known, timer : BOOLEAN, turn : Nat,
                   tools : Nat, last : Nat \cup {None}, steering : BOOLEAN]
<1>1. ASSUME NEW s \in Session, NEW k, NEW phase, Reset(s, k, phase),
             \/ ses[s].phase \in {"starting", "idle"} /\ phase = "busy"
             \/ ses[s].steering /\ phase = ses[s].phase
      PROVE  OneLive'
  <2>1. PICK next : /\ ses' = [ses EXCEPT ![s] = next]
                    /\ next = [ses[s] EXCEPT !.key = k, !.timer = TRUE, !.last = None,
                                 !.turn = turns + 1, !.phase = phase, !.steering = FALSE]
    BY <1>1 DEF Reset
  <2>2. ses[s] \in Rec
    OBVIOUS
  <2>3. next.phase = phase
    BY <2>1, <2>2
  <2>4. phase \notin {"none", "starting"}
    BY <1>1 DEF OneLive
  <2>5. ses[s].phase # "none"
    BY <1>1 DEF OneLive
  <2>6. ses'[s].phase = phase /\ \A t \in Session \ {s} : ses'[t] = ses[t]
    BY <2>1, <2>3
  <2> QED BY <1>1, <2>4, <2>5, <2>6 DEF OneLive
<1>2. ASSUME NEW s \in Session, NEW k, BeginTurn(s, k) PROVE OneLive'
  BY <1>1, <1>2 DEF BeginTurn
<1>3. ASSUME NEW s \in Session, Steer(s) PROVE OneLive'
  BY <1>1, <1>3 DEF Steer
<1>4. ASSUME NEW s \in Session, Start(s) PROVE OneLive'
  BY <1>4 DEF Start, OneLive
<1>5. ASSUME NEW s \in Session, SteerBegins(s) PROVE OneLive'
  BY <1>5 DEF SteerBegins, OneLive
<1>6. ASSUME NEW s \in Session, ToolStart(s) PROVE OneLive'
  BY <1>6 DEF ToolStart, OneLive
<1>7. ASSUME NEW s \in Session, Tick(s) PROVE OneLive'
  BY <1>7 DEF Tick, OneLive
<1>8. ASSUME NEW s \in Session, TurnEnds(s) PROVE OneLive'
  BY <1>8 DEF TurnEnds, OneLive
<1>9. ASSUME NEW s \in Session, End(s) PROVE OneLive'
  <2>1. PICK phase \in {"stopping", "ended"} :
          /\ ses[s].phase \in {"starting", "busy", "idle"}
          /\ ses' = [ses EXCEPT ![s].phase = phase, ![s].timer = FALSE]
    BY <1>9 DEF End, ClearAllTimers
  <2>2. ses'[s].phase = phase /\ \A t \in Session \ {s} : ses'[t] = ses[t]
    BY <2>1
  <2> QED BY <2>1, <2>2 DEF OneLive
<1>10. ASSUME NEW s \in Session, PiStopped(s) PROVE OneLive'
  BY <1>10 DEF PiStopped, OneLive
<1>11. ASSUME NEW s \in Session, Shutdown(s) PROVE OneLive'
  BY <1>11 DEF Shutdown, ClearAllTimers, OneLive
<1>12. ASSUME NEW s \in Session, CloseNotified(s) PROVE OneLive'
  BY <1>12 DEF CloseNotified, OneLive
<1>13. ASSUME NEW k \in Key, Deliver(k) PROVE OneLive'
  <2>1. PICK r : ses' = ses \/ ses' = [ses EXCEPT ![replies[r].by].timer = FALSE]
    BY <1>13 DEF Deliver, PostPart, Sent, Settle
  <2>2. CASE replies[r].by \in Session
    <3>1. \A t \in Session : /\ ses'[t].phase = ses[t].phase
                             /\ ses'[t].steering = ses[t].steering
                             /\ ses'[t].timer => ses[t].timer
      <4>1. CASE ses' = ses
        BY <4>1
      <4>2. CASE ses' = [ses EXCEPT ![replies[r].by].timer = FALSE]
        <5> TAKE t \in Session
        <5>1. CASE t = replies[r].by
          BY <4>2, <5>1
        <5>2. CASE t # replies[r].by
          BY <4>2, <5>2
        <5> QED BY <5>1, <5>2
      <4> QED BY <2>1, <4>1, <4>2
    <3> QED BY <3>1 DEF OneLive
  <2>3. CASE replies[r].by \notin Session
    BY <2>1, <2>3 DEF OneLive
  <2> QED BY <2>2, <2>3
<1>14. CASE UNCHANGED ses
  BY <1>14 DEF OneLive
<1> QED BY <1>2, <1>3, <1>4, <1>5, <1>6, <1>7, <1>8, <1>9, <1>10, <1>11, <1>12,
           <1>13, <1>14
        DEF Next, Work, Run, Clear, Open, Notify, Reply, FilesResolved, vars

ShutInv == TicksShut /\ TimersShut

\* The timer of s is as it was or off.
TimerKept(s) ==
  ses'[s].timer =>
    ses[s].timer /\ ses'[s].key = ses[s].key /\ ses'[s].turn = ses[s].turn

\* Another task: a tick comes from a timer, and a task that opens the path of k
\* meets no timer of k, or one with a turn that is new.
LEMMA ShutInvEnqueued ==
  ASSUME DataInv, SessionTypes, ShutInv, TurnKept, NEW k \in Key, NEW e, Enqueue(k, e),
         UNCHANGED <<closed, ran>>, strayed \subseteq strayed',
         e.do = "tick" /\ k \notin strayed => Shut(k, e.turn, Len(queue[k]) + 1),
         \A s \in Session : ses'[s].timer /\ ses'[s].key \notin strayed' =>
           \/ TimerKept(s) /\ (ses[s].key # k \/ ~Opens(e))
           \/ \A j \in Nat : Shut(ses[s].key, ses[s].turn, j)'
  PROVE  ShutInv'
<1> USE DEF DataInv, ShutInv
<1>1. /\ \A q \in Key \ {k} : queue'[q] = queue[q]
      /\ Len(queue[k]) \in Nat /\ DOMAIN queue[k] = 1..Len(queue[k])
      /\ Len(queue'[k]) = Len(queue[k]) + 1
      /\ DOMAIN queue'[k] = 1..(Len(queue[k]) + 1)
      /\ \A i \in DOMAIN queue[k] : queue'[k][i] = queue[k][i]
      /\ queue'[k][Len(queue[k]) + 1] = e
  BY EnqueueEffect
<1>2. ASSUME NEW T, NEW j \in 1..(Len(queue[k]) + 1), Shut(k, T, j)
      PROVE  Shut(k, T, j)'
  BY <1>2, ShutEnqueued
<1>3. ASSUME NEW q \in Key \ {k}, NEW T, NEW j, Shut(q, T, j)
      PROVE  Shut(q, T, j)'
  BY <1>1, <1>3, ShutElsewhere
<1>4. TicksShut'
  <2> SUFFICES ASSUME NEW q \in Key \ strayed', NEW j \in DOMAIN queue'[q],
                      queue'[q][j].do = "tick"
               PROVE  Shut(q, queue[q][j].turn, j)'
    BY DEF TicksShut
  <2>1. CASE q # k
    BY <1>1, <1>3, <2>1 DEF TicksShut
  <2>2. CASE q = k /\ j \in DOMAIN queue[k]
    BY <1>1, <1>2, <2>2 DEF TicksShut
  <2>3. CASE q = k /\ j = Len(queue[k]) + 1
    BY <1>1, <1>2, <2>3
  <2> QED BY <1>1, <2>1, <2>2, <2>3
<1>5. TimersShut'
  <2> SUFFICES ASSUME NEW s \in Session, ses'[s].timer, ses'[s].key \notin strayed'
               PROVE  Shut(ses[s].key, ses[s].turn, Len(queue[ses[s].key]) + 1)'
    BY DEF TimersShut
  <2>1. CASE TimerKept(s) /\ (ses[s].key # k \/ ~Opens(e))
    <3>1. /\ ses[s].key \in Key /\ ses'[s].key = ses[s].key /\ ses'[s].turn = ses[s].turn
          /\ Shut(ses[s].key, ses[s].turn, Len(queue[ses[s].key]) + 1)
      BY <2>1 DEF TimerKept, TimersShut, SessionTypes, Known
    <3>2. CASE ses[s].key # k
      BY <1>1, <1>3, <3>1, <3>2
    <3>3. CASE ses[s].key = k /\ ~Opens(e)
      <4>1. PICK T : T = ses[s].turn
        OBVIOUS
      <4>2. Shut(k, T, Len(queue[k]) + 1)
        BY <3>1, <3>3, <4>1
      <4>3. \A j \in 1..(Len(queue[k]) + 2) : Shut(k, T, j)'
        BY <3>3, <4>2, ShutEnqueued
      <4> QED BY <1>1, <3>1, <3>3, <4>1, <4>3
    <3> QED BY <2>1, <3>2, <3>3
  <2>2. CASE \A j \in Nat : Shut(ses[s].key, ses[s].turn, j)'
    BY <2>2
  <2> QED BY <2>1, <2>2
<1> QED BY <1>4, <1>5

\* The head leaves the queue of k.
LEMMA ShutInvPopped ==
  ASSUME DataInv, SessionTypes, ShutInv, TurnKept, NEW k \in Key, queue[k] # <<>>, Pop(k),
         UNCHANGED strayed, \A s \in Session : TimerKept(s),
         \A q \in Key \ {k} :
           /\ q \in closed' <=> q \in closed
           /\ \A T : <<q, T>> \in ran' <=> <<q, T>> \in ran,
         \/ Opens(queue[k][1]) /\ ran' = ran
         \/ /\ ~Opens(queue[k][1]) /\ (k \in closed => k \in closed')
            /\ \A T : <<k, T>> \in ran' =>
                 <<k, T>> \in ran \/ (ReplyOf(queue[k][1], T) /\ k \in closed')
  PROVE  ShutInv'
<1> USE DEF DataInv, ShutInv
<1>1. /\ \A q \in Key \ {k} : queue'[q] = queue[q]
      /\ Len(queue[k]) \in Nat /\ Len(queue[k]) >= 1 /\ DOMAIN queue[k] = 1..Len(queue[k])
      /\ Len(queue'[k]) = Len(queue[k]) - 1
      /\ DOMAIN queue'[k] = 1..(Len(queue[k]) - 1)
      /\ \A i \in 1..(Len(queue[k]) - 1) : queue'[k][i] = queue[k][i + 1]
  BY PopEffect
<1>2. ASSUME NEW T, NEW j \in Nat, j >= 1, Shut(k, T, j + 1)
      PROVE  Shut(k, T, j)'
  BY <1>2, ShutPopped
<1>3. ASSUME NEW q \in Key \ {k}, NEW T, NEW j, Shut(q, T, j)
      PROVE  Shut(q, T, j)'
  <2>1. /\ q \in closed' <=> q \in closed
        /\ <<q, T>> \in ran' <=> <<q, T>> \in ran
    OBVIOUS
  <2> QED BY <1>1, <1>3, <2>1, ShutElsewhere
<1>4. TicksShut'
  <2> SUFFICES ASSUME NEW q \in Key \ strayed, NEW j \in DOMAIN queue'[q],
                      queue'[q][j].do = "tick"
               PROVE  Shut(q, queue[q][j].turn, j)'
    BY DEF TicksShut
  <2>1. CASE q # k
    BY <1>1, <1>3, <2>1 DEF TicksShut
  <2>2. CASE q = k
    <3>1. j \in Nat /\ j >= 1 /\ j + 1 \in DOMAIN queue[k] /\ queue'[k][j] = queue[k][j + 1]
      <4>1. j \in 1..(Len(queue[k]) - 1)
        BY <1>1, <2>2
      <4> QED BY <1>1, <4>1
    <3>2. PICK T : T = queue[k][j + 1].turn
      OBVIOUS
    <3>3. Shut(k, T, j + 1)
      BY <2>2, <3>1, <3>2 DEF TicksShut
    <3>4. Shut(k, T, j)'
      BY <1>2, <3>1, <3>3
    <3> QED BY <2>2, <3>1, <3>2, <3>4
  <2> QED BY <2>1, <2>2
<1>5. TimersShut'
  <2> SUFFICES ASSUME NEW s \in Session, ses'[s].timer, ses'[s].key \notin strayed
               PROVE  Shut(ses[s].key, ses[s].turn, Len(queue[ses[s].key]) + 1)'
    BY DEF TimersShut
  <2>1. PICK T : T = ses[s].turn
    OBVIOUS
  <2>2. /\ ses[s].key \in Key /\ ses'[s].key = ses[s].key /\ ses'[s].turn = T
        /\ Shut(ses[s].key, T, Len(queue[ses[s].key]) + 1)
    BY <2>1 DEF TimerKept, TimersShut, SessionTypes, Known
  <2>3. CASE ses[s].key # k
    BY <1>1, <1>3, <2>2, <2>3
  <2>4. CASE ses[s].key = k
    <3>1. Len(queue[k]) \in Nat /\ Len(queue[k]) >= 1
      BY <1>1
    <3>2. Shut(k, T, Len(queue[k]) + 1)
      BY <2>2, <2>4
    <3>3. PICK j \in Nat : j >= 1 /\ j = Len(queue[k])
      BY <3>1
    <3>4. Shut(k, T, j)'
      BY <1>2, <3>2, <3>3
    <3>5. j = Len(queue'[k]) + 1
      BY <1>1, <3>3
    <3> QED BY <2>2, <2>4, <3>4, <3>5
  <2> QED BY <2>3, <2>4
<1> QED BY <1>4, <1>5

\* A step keeps every path shut that a reply has closed for its turn.
LEMMA ShutStep ==
  ASSUME SessionInv, QueueInv, OneLive, ShutInv, [Next]_vars, QueueInv', TurnKept
  PROVE  ShutInv'
<1> USE DEF SessionInv, QueueInv
<1>1. ASSUME UNCHANGED <<queue, closed, ran, strayed>>, \A s \in Session : TimerKept(s)
      PROVE  ShutInv'
  <2>1. ASSUME NEW q \in Key, NEW T, NEW j, Shut(q, T, j)
        PROVE  Shut(q, T, j)'
    BY <1>1, <2>1, ShutElsewhere DEF DataInv
  <2>2. TicksShut'
    BY <1>1, <2>1 DEF ShutInv, TicksShut
  <2>3. TimersShut'
    <3> SUFFICES ASSUME NEW s \in Session, ses'[s].timer, ses'[s].key \notin strayed
                 PROVE  Shut(ses[s].key, ses[s].turn, Len(queue[ses[s].key]) + 1)'
      BY <1>1 DEF TimersShut
    <3>1. /\ ses[s].key \in Key /\ ses'[s].key = ses[s].key /\ ses'[s].turn = ses[s].turn
          /\ Shut(ses[s].key, ses[s].turn, Len(queue[ses[s].key]) + 1)
      BY <1>1 DEF TimerKept, ShutInv, TimersShut, SessionTypes, Known
    <3> QED BY <1>1, <2>1, <3>1
  <2> QED BY <2>2, <2>3 DEF ShutInv
<1>2. ASSUME NEW s \in Session, NEW k \in Key, NEW e, Enqueue(k, e),
             UNCHANGED <<closed, ran, strayed>>, \A t \in Session : TimerKept(t),
             e.do = "tick" => ses[s].timer /\ k = ses[s].key /\ e.turn = ses[s].turn,
             Opens(e) => \A t \in Session :
               ses'[t].timer /\ ses[t].key = k => k \in strayed
      PROVE  ShutInv'
  <2>1. e.do = "tick" /\ k \notin strayed => Shut(k, e.turn, Len(queue[k]) + 1)
    BY <1>2 DEF ShutInv, TimersShut
  <2>2. \A t \in Session : ses'[t].timer /\ ses'[t].key \notin strayed' =>
          TimerKept(t) /\ (ses[t].key # k \/ ~Opens(e))
    BY <1>2 DEF TimerKept
  <2> QED BY <1>2, <2>1, <2>2, ShutInvEnqueued
\* A new turn: nothing that has run or is queued is of it, and no other Session
\* has a timer for the key.
<1>3. ASSUME NEW s \in Session, NEW k \in Known, NEW phase, Reset(s, k, phase),
             UNCHANGED <<router, replies>>, strayed \subseteq strayed',
             ses[s].phase \in {"starting", "busy", "idle"} \/ k \in strayed'
      PROVE  ShutInv'
  <2> DEFINE e == [do |-> "open"]
  <2>1. k \in Key /\ Enqueue(k, e) /\ turns' = turns + 1 /\ turns \in Nat
        /\ UNCHANGED <<closed, ran, replies>> /\ e.do # "tick"
    BY <1>3 DEF Reset, Known, TurnsType, router
  <2>2. \A t \in Session \ {s} : ses'[t] = ses[t]
    BY <1>3 DEF Reset, SessionTypes
  <2>3. ses'[s].turn = turns + 1 /\ ses'[s].key = k
    BY <1>3 DEF Reset, SessionTypes
  <2>4. \A j \in Nat : Shut(ses[s].key, ses[s].turn, j)'
    <3>1. PICK T \in Nat : T = turns + 1 /\ T > turns
      BY <2>1
    <3>2. <<k, T>> \notin ran'
      BY <2>1, <3>1 DEF TurnsBehind
    <3>3. \A r \in DOMAIN replies' : replies'[r].turn # T
      <4>1. \A r \in DOMAIN replies : replies[r] \in ReplyShape
        BY DEF ReplyTypes
      <4>2. \A r \in DOMAIN replies : replies[r].turn \in Nat
        BY <4>1 DEF ReplyShape
      <4> QED BY <2>1, <3>1, <4>2 DEF TurnsBehind
    <3>4. \A h \in DOMAIN queue'[k] : ~ReplyOf(queue[k][h], T)'
      BY <2>1, <3>3 DEF ReplyOf, DataInv, QueuedKnown
    <3> QED BY <2>3, <3>1, <3>2, <3>4 DEF Shut
  <2>5. ASSUME NEW t \in Session \ {s}, ses'[t].timer, ses'[t].key \notin strayed'
        PROVE  TimerKept(t) /\ (ses[t].key # k \/ ~Opens(e))
    <3>1. ses[t].timer /\ ses[t].key \notin strayed
      BY <1>3, <2>2, <2>5
    <3>2. ses[t].phase \notin {"none", "ended"}
      BY <3>1 DEF OneLive, OutIsQuiet
    <3>3. ses[s].phase \notin {"starting", "busy", "idle"}
      BY <3>2, BoundAssumption DEF OneLive, Session
    <3> QED BY <1>3, <2>2, <2>5, <3>3 DEF TimerKept
  <2> QED BY <1>3, <2>1, <2>4, <2>5, ShutInvEnqueued
<1>4. ASSUME NEW s \in Session,
             \/ Start(s) \/ SteerBegins(s) \/ ToolStart(s) \/ TurnEnds(s) \/ PiStopped(s)
      PROVE  ShutInv'
  <2>1. UNCHANGED <<queue, closed, ran, strayed>>
    BY <1>4 DEF Start, SteerBegins, ToolStart, TurnEnds, PiStopped, router
  <2>2. \A t \in Session : TimerKept(t)
    BY <1>4 DEF Start, SteerBegins, ToolStart, TurnEnds, PiStopped, SessionTypes, TimerKept
  <2> QED BY <1>1, <2>1, <2>2
<1>5. ASSUME NEW s \in Session, NEW k \in Known, BeginTurn(s, k)
      PROVE  ShutInv'
  BY <1>3, <1>5 DEF BeginTurn
<1>6. ASSUME NEW s \in Session, Steer(s)
      PROVE  ShutInv'
  <2>1. ses[s].key \in Known /\ ses[s].phase \in Phase
    BY DEF SessionTypes
  <2>2. ses[s].phase \in {"starting", "busy", "idle"} \/ ses[s].key \in strayed'
    <3>1. ses[s].phase # "none"
      BY <1>6 DEF Steer, OneLive
    <3> QED BY <1>6, <2>1, <3>1 DEF Steer, Phase
  <2> QED BY <1>3, <1>6, <2>1, <2>2 DEF Steer
<1>7. ASSUME NEW s \in Session, Tick(s)
      PROVE  ShutInv'
  <2> DEFINE e == [do |-> "tick", by |-> s, turn |-> ses[s].turn, shows |-> ses[s].tools]
  <2>1. \A t \in Session : TimerKept(t)
    BY <1>7 DEF Tick, SessionTypes, TimerKept
  <2>2. ses[s].key \in Key /\ ses[s].timer /\ Enqueue(ses[s].key, e)
        /\ UNCHANGED <<closed, ran, strayed>>
    BY <1>7 DEF Tick, SessionTypes, Known, router
  <2>3. e.turn = ses[s].turn /\ ~Opens(e)
    BY DEF Opens
  <2> QED BY <1>2, <2>1, <2>2, <2>3
<1>8. ASSUME NEW s \in Session, End(s) \/ CloseNotified(s)
      PROVE  ShutInv'
  <2> DEFINE e == [do |-> "clear"]
             k == ses[s].key
  <2>1. \A t \in Session : TimerKept(t) /\ (t # s => ses'[t] = ses[t])
    BY <1>8 DEF End, ClearAllTimers, CloseNotified, SessionTypes, TimerKept
  <2>2. k \in Key /\ Enqueue(k, e) /\ UNCHANGED <<closed, ran, strayed>> /\ e.do # "tick"
    BY <1>8 DEF End, CloseNotified, SessionTypes, Known, router
  <2>3. ses'[s].timer => k \in strayed
    BY <1>8 DEF End, ClearAllTimers, CloseNotified, SessionTypes, OutIsQuiet
  <2>4. ses[s].phase \notin {"none", "ended"}
    BY <1>8 DEF End, CloseNotified
  <2>5. \A t \in Session \ {s} : ses[t].phase \in {"none", "ended"}
    BY <2>4, BoundAssumption DEF OneLive, Session
  <2>6. \A t \in Session : ses'[t].timer /\ ses[t].key = k => k \in strayed
    BY <2>1, <2>3, <2>5 DEF OneLive, OutIsQuiet
  <2> HIDE DEF e, k
  <2> QED BY <1>2, <2>1, <2>2, <2>6
<1>9. ASSUME NEW s \in Session,
             \/ \E to \in Key, files \in BOOLEAN, parts \in 1..MaxParts :
                  Reply(s, to, files, parts)
             \/ Shutdown(s)
      PROVE  ShutInv'
  <2>1. \A t \in Session : TimerKept(t)
    BY <1>9 DEF Reply, Shutdown, ClearAllTimers, SessionTypes, TimerKept
  <2>2. ses[s].key \in Key /\ UNCHANGED <<closed, ran, strayed>>
    BY <1>9 DEF Reply, Shutdown, SessionTypes, Known, router
  <2>3. CASE queue' = queue
    BY <1>1, <2>1, <2>2, <2>3
  <2>4. CASE Hand(s, Len(replies) + 1)
    BY <1>2, <2>1, <2>2, <2>4 DEF Hand, Opens
  <2> QED BY <1>9, <2>3, <2>4 DEF Reply, Shutdown
<1>10. ASSUME NEW r \in DOMAIN replies, FilesResolved(r)
       PROVE  ShutInv'
  <2>1. replies[r] \in ReplyShape
    BY DEF ReplyTypes
  <2>2. PICK s \in Session : s = replies[r].by
    BY <2>1 DEF ReplyShape
  <2>3. ses[s].key \in Key /\ UNCHANGED <<closed, ran, strayed, ses>> /\ Hand(s, r)
    BY <1>10, <2>2 DEF FilesResolved, SessionTypes, Known, router
  <2>4. \A t \in Session : TimerKept(t)
    BY <2>3 DEF TimerKept
  <2> QED BY <1>2, <2>3, <2>4 DEF Hand, Opens
<1>11. ASSUME NEW k \in Key, Clear(k) \/ Open(k) \/ Notify(k)
       PROVE  ShutInv'
  <2>1. /\ queue[k] # <<>> /\ Pop(k) /\ UNCHANGED <<ses, ran, strayed>>
        /\ \A q \in Key \ {k} : q \in closed' <=> q \in closed
    BY <1>11 DEF Clear, Open, Notify, Is
  <2>2. \A t \in Session : TimerKept(t)
    BY <2>1 DEF TimerKept
  <2>3. \/ Opens(queue[k][1])
        \/ ~Opens(queue[k][1]) /\ closed' = closed
    BY <1>11, <2>1, PopEffect DEF Clear, Open, Notify, Is, Opens, DataInv
  <2> QED BY <2>1, <2>2, <2>3, ShutInvPopped
<1>12. ASSUME NEW k \in Key, Deliver(k)
       PROVE  ShutInv'
  <2>1. PICK r \in DOMAIN replies :
          /\ queue[k] # <<>> /\ queue[k][1].do = "reply" /\ r = queue[k][1].reply
          /\ closed' = closed \cup {k} /\ ran' = ran \cup {<<k, replies[r].turn>>}
          /\ strayed' = strayed
          /\ \/ /\ Pop(k)
                /\ ses' = ses \/ ses' = [ses EXCEPT ![replies[r].by].timer = FALSE]
             \/ UNCHANGED <<queue, replies, ses>>
    BY <1>12, DeliverEffect
  <2>2. \A t \in Session : TimerKept(t)
    <3>1. CASE ses' = ses
      BY <3>1 DEF TimerKept
    <3>2. CASE ses' = [ses EXCEPT ![replies[r].by].timer = FALSE]
      <4>1. replies[r] \in ReplyShape
        BY DEF ReplyTypes
      <4>2. replies[r].by \in Session
        BY <4>1 DEF ReplyShape
      <4> QED BY <3>2, <4>2 DEF SessionTypes, TimerKept
    <3> QED BY <2>1, <3>1, <3>2
  <2>3. ~Opens(queue[k][1]) /\ k \in closed'
        /\ \A T : <<k, T>> \in ran' => <<k, T>> \in ran \/ ReplyOf(queue[k][1], T)
    BY <2>1 DEF Opens, ReplyOf
  <2>4. \A q \in Key \ {k} : /\ q \in closed' <=> q \in closed
                             /\ \A T : <<q, T>> \in ran' <=> <<q, T>> \in ran
    BY <2>1
  <2>5. CASE Pop(k)
    BY <2>1, <2>2, <2>3, <2>4, <2>5, ShutInvPopped
  <2>6. CASE UNCHANGED <<queue, replies, ses>>
    <3>1. ASSUME NEW q \in Key, NEW T, NEW j \in Nat, Shut(q, T, j)
          PROVE  Shut(q, T, j)'
      <4>1. CASE q = k
        BY <2>1, <2>3, <2>6, <3>1, <4>1, ShutByPart DEF DataInv
      <4>2. CASE q # k
        BY <2>4, <2>6, <3>1, <4>2, ShutElsewhere DEF DataInv
      <4> QED BY <4>1, <4>2
    <3>2. \A q \in Key : Len(queue[q]) \in Nat /\ DOMAIN queue[q] \subseteq Nat
      BY DEF DataInv, QueueTypes
    <3>3. TicksShut'
      BY <2>1, <2>6, <3>1, <3>2 DEF ShutInv, TicksShut
    <3>4. TimersShut'
      <4>1. \A s \in Session : ses[s].key \in Key
        BY DEF SessionTypes, Known
      <4> QED BY <2>1, <2>6, <3>1, <3>2, <4>1 DEF ShutInv, TimersShut
    <3> QED BY <3>3, <3>4 DEF ShutInv
  <2> QED BY <2>1, <2>5, <2>6
<1>13. CASE UNCHANGED vars
  <2>1. UNCHANGED <<queue, closed, ran, strayed, ses>>
    BY <1>13 DEF vars
  <2> QED BY <1>1, <2>1 DEF TimerKept
<1> QED BY <1>4, <1>5, <1>6, <1>7, <1>8, <1>9, <1>10, <1>11, <1>12, <1>13
        DEF Next, Work, Run

PathInv == SessionInv /\ QueueInv /\ OneLive /\ ShutInv

\* PathInv is an invariant of the Egress.
THEOREM PathShut == Spec => []PathInv
<1>1. Init => PathInv
  <2> SUFFICES ASSUME Init PROVE PathInv
    OBVIOUS
  <2>1. SessionInv
    BY KeyAssumption
    DEF Init, SessionInv, SessionTypes, TurnsType, OutIsQuiet, Phase, Known
  <2>2. \A k \in Key : queue[k] = <<>> /\ sentParts[k] = 0
    BY DEF Init
  <2>3. QueueTypes
    <3>1. queue \in [Key -> Seq({})] /\ sentParts \in [Key -> Nat]
      BY DEF Init
    <3> QED BY <3>1 DEF QueueTypes
  <2>4. DataInv
    BY <2>2, <2>3 DEF DataInv, QueuedKnown, PartsClosed
  <2>5. QueueInv
    BY <2>4 DEF Init, QueueInv, ReplyTypes, TurnsBehind
  <2>6. OneLive /\ ShutInv
    BY <2>2 DEF Init, OneLive, ShutInv, TicksShut, TimersShut
  <2> QED BY <2>1, <2>5, <2>6 DEF PathInv
<1>2. PathInv /\ [Next]_vars => PathInv'
  <2> SUFFICES ASSUME PathInv, [Next]_vars PROVE PathInv'
    OBVIOUS
  <2>1. SessionInv'
    BY SessionStep DEF PathInv, SessionInv
  <2>2. QueueInv' /\ TurnKept
    BY QueueStep DEF PathInv
  <2>3. OneLive'
    BY LiveStep DEF PathInv, SessionInv
  <2>4. ShutInv'
    BY <2>2, ShutStep DEF PathInv
  <2> QED BY <2>1, <2>2, <2>3, <2>4 DEF PathInv
<1> QED BY <1>1, <1>2, PTL DEF Spec

\* A progress message that a step writes comes from a tick at the head of the
\* queue of its key, which found the path open.
LEMMA WrittenByTick ==
  ASSUME ChatInv, DataInv, [Next]_vars, NEW m \in DOMAIN chat',
         chat'[m].kind = "progress", m \in DOMAIN chat => chat[m] # chat'[m]
  PROVE  \E k \in Key :
           /\ Notify(k) /\ k \notin closed
           /\ 1 \in DOMAIN queue[k] /\ queue[k][1].do = "tick"
           /\ chat'[m].key = k /\ chat'[m].by = queue[k][1].by
           /\ chat'[m].turn = queue[k][1].turn
           /\ m \in DOMAIN chat => msgId[k] = m
<1>1. chat' # chat
  OBVIOUS
<1>2. ASSUME NEW k \in Key, Deliver(k) PROVE FALSE
  <2>1. PICK part : /\ part.kind = "reply"
                    /\ \/ msgId[k] # None /\ Update(msgId[k], part, TRUE)
                       \/ Post(part, TRUE)
    <3> DEFINE p == [kind |-> "reply", reply |-> Head(queue[k]).reply,
                     part |-> sentParts[k] + 1]
    <3>1. \/ chat' = chat
          \/ msgId[k] # None /\ Update(msgId[k], p, TRUE)
          \/ Post(p, TRUE)
      BY <1>2 DEF Deliver, PostPart, Post, MayOverwrite
    <3>2. p.kind = "reply"
      OBVIOUS
    <3> HIDE DEF p
    <3> QED BY <1>1, <3>1, <3>2
  <2>2. CASE msgId[k] # None /\ Update(msgId[k], part, TRUE)
    BY <2>1, <2>2, EditStep DEF ChatInv
  <2>3. CASE Post(part, TRUE)
    <3>1. PICK S : chat \in Seq(S)
      BY DEF ChatInv, ChatIsSequence
    <3>2. DOMAIN chat' = DOMAIN chat \cup {Len(chat) + 1}
      <4>1. chat \in Seq(S \cup {part})
        BY <3>1
      <4> QED BY <2>3, <4>1 DEF Post
    <3> QED BY <2>1, <2>3, <3>2, PostStep DEF ChatInv
  <2> QED BY <2>1, <2>2, <2>3
<1>3. PICK k \in Key : Notify(k)
  BY <1>1, <1>2, KeyAssumption
  DEF Next, Work, Run, Clear, Open, Start, SteerBegins, Steer, ToolStart, Tick, TurnEnds,
      End, PiStopped, Shutdown, CloseNotified, BeginTurn, Reply, FilesResolved, router, vars
<1>4. 1 \in DOMAIN queue[k] /\ queue[k][1] = Head(queue[k]) /\ queue[k][1].do = "tick"
  BY <1>3 DEF Notify, Is, DataInv, QueueTypes
<1> DEFINE t == queue[k][1]
           notice == [kind |-> "progress", key |-> k, by |-> t.by, turn |-> t.turn,
                      shows |-> t.shows]
<1>5. /\ k \notin closed
      /\ \/ msgId[k] # None /\ Update(msgId[k], notice, TRUE)
         \/ Post(notice, TRUE)
  BY <1>1, <1>3, <1>4 DEF Notify, Update, Post
<1>6. chat'[m] = notice /\ (m \in DOMAIN chat => msgId[k] = m)
  <2> HIDE DEF notice
  <2>1. CASE msgId[k] # None /\ Update(msgId[k], notice, TRUE)
    BY <2>1, EditStep DEF ChatInv
  <2>2. CASE Post(notice, TRUE)
    <3>1. PICK S : chat \in Seq(S)
      BY DEF ChatInv, ChatIsSequence
    <3>2. DOMAIN chat' = DOMAIN chat \cup {Len(chat) + 1} /\ Len(chat) + 1 \notin DOMAIN chat
      BY <2>2, <3>1 DEF Post
    <3> QED BY <2>2, <3>2, PostStep DEF ChatInv
  <2> QED BY <1>5, <2>1, <2>2
<1> QED BY <1>3, <1>4, <1>5, <1>6

\* Section 8 of ingress-egress.md: deliverNow and notifyProgressNow share a queue,
\* and once a reply has run no tick of its turn is shown under its key, unless a
\* steer resumed after the end of its Session.
THEOREM RepliesCloseTheTurn == Spec => NoTickAfterReply
<1> DEFINE Written ==
      \A m \in DOMAIN chat' :
        /\ chat'[m].kind = "progress"
        /\ m \in DOMAIN chat => chat[m] # chat'[m]
        => \/ <<chat'[m].key, chat'[m].turn>> \notin ran
           \/ chat'[m].key \in strayed
<1>1. ChatInv /\ PathInv /\ [Next]_vars => Written
  <2> SUFFICES ASSUME ChatInv, PathInv, [Next]_vars, NEW m \in DOMAIN chat',
                      chat'[m].kind = "progress",
                      m \in DOMAIN chat => chat[m] # chat'[m],
                      chat'[m].key \notin strayed
               PROVE  <<chat'[m].key, chat'[m].turn>> \notin ran
    OBVIOUS
  <2>1. PICK k \in Key :
          /\ k \notin closed /\ 1 \in DOMAIN queue[k] /\ queue[k][1].do = "tick"
          /\ chat'[m].key = k /\ chat'[m].turn = queue[k][1].turn
    BY WrittenByTick DEF PathInv, QueueInv
  <2>2. Shut(k, queue[k][1].turn, 1)
    BY <2>1 DEF PathInv, ShutInv, TicksShut
  <2> QED BY <2>1, <2>2 DEF Shut
<1>2. Spec => []ChatInv
  <2>1. Init => ChatInv
    BY DEF Init, ChatInv, ChatIsSequence, KeysOwn
  <2>2. ChatInv /\ [Next]_vars => ChatInv'
    BY ChatStep
  <2> QED BY <2>1, <2>2, PTL DEF Spec
<1> QED BY <1>1, <1>2, PathShut, PTL DEF Spec, NoTickAfterReply

-----------------------------------------------------------------------------
(* Whose progress message a key remembers.                                 *)

\* clearProgress is queued between two places.
ClearIn(k, i, j) ==
  \E h \in DOMAIN queue[k] : i < h /\ h < j /\ queue[k][h].do = "clear"

\* The place of what Session s has written for k: 0 is the message k remembers.
WroteBy(k, i, s) ==
  \/ i = 0 /\ msgId[k] # None /\ chat[msgId[k]].by = s
  \/ i \in DOMAIN queue[k] /\ queue[k][i].do = "tick" /\ queue[k][i].by = s

\* A Session that may still tick there, and has its clearProgress before it.
Working(s, k) ==
  s \in Session /\ ses[s].phase \in {"busy", "idle", "closing"} /\ ses[s].key = k

\* A clearProgress stands between what two Sessions have written, and behind
\* what a Session has written that works there no more.
Apart(k) ==
  \A i, j \in Nat : \A s, t :
    i < j /\ s # t /\ WroteBy(k, i, s) /\ WroteBy(k, j, t) => ClearIn(k, i, j)
Covered(k) ==
  \A i \in Nat : \A s :
    WroteBy(k, i, s) => Working(s, k) \/ ClearIn(k, i, Len(queue[k]) + 1)

OwnInv == \A k \in Key \ strayed : Apart(k) /\ Covered(k)

\* What a key remembers is what it was, or nothing.
AuthorKept(k) == \A s : WroteBy(k, 0, s)' => WroteBy(k, 0, s)

WorkKept(k) == \A s : Working(s, k) => Working(s, k)'

\* A queue that a step leaves alone.
LEMMA OwnStill ==
  ASSUME QueueTypes, NEW k \in Key, Apart(k), Covered(k), queue'[k] = queue[k],
         AuthorKept(k), WorkKept(k)
  PROVE  Apart(k)' /\ Covered(k)'
<1>1. DOMAIN queue[k] \subseteq Nat \ {0}
  BY DEF QueueTypes
<1>2. \A i \in Nat : \A s : WroteBy(k, i, s)' => WroteBy(k, i, s)
  BY <1>1 DEF WroteBy, AuthorKept
<1>3. \A i, j : ClearIn(k, i, j) => ClearIn(k, i, j)'
  BY DEF ClearIn
<1>4. Apart(k)'
  BY <1>2, <1>3 DEF Apart
<1>5. Covered(k)'
  BY <1>2, <1>3 DEF Covered, WorkKept
<1> QED BY <1>4, <1>5

\* A task joins the queue: a tick of a Session that is the only one to work, or
\* the clearProgress of one that works no more.
LEMMA OwnEnqueued ==
  ASSUME QueueTypes, NEW k \in Key, NEW e, Enqueue(k, e), Apart(k), Covered(k),
         AuthorKept(k),
         e.do = "tick" => Working(e.by, k)' /\ \A s : Working(s, k) => s = e.by,
         e.do = "clear" \/ WorkKept(k)
  PROVE  Apart(k)' /\ Covered(k)'
<1>1. PICK n \in Nat :
      /\ n = Len(queue[k]) /\ DOMAIN queue[k] = 1..n
      /\ Len(queue'[k]) = n + 1 /\ DOMAIN queue'[k] = 1..(n + 1)
      /\ \A i \in DOMAIN queue[k] : queue'[k][i] = queue[k][i]
      /\ queue'[k][n + 1] = e
  BY EnqueueEffect
<1>2. ASSUME NEW i \in Nat, NEW s, WroteBy(k, i, s)'
      PROVE  \/ i <= n /\ WroteBy(k, i, s)
             \/ i = n + 1 /\ e.do = "tick" /\ e.by = s
  <2>1. CASE i = 0
    <3>1. i \notin DOMAIN queue'[k]
      BY <1>1, <2>1
    <3>2. WroteBy(k, 0, s)'
      BY <1>2, <2>1
    <3> QED BY <1>1, <2>1, <3>2 DEF AuthorKept
  <2>2. CASE i \in 1..n
    BY <1>1, <1>2, <2>2 DEF WroteBy
  <2>3. CASE i = n + 1
    BY <1>1, <1>2, <2>3 DEF WroteBy
  <2>4. CASE i > n + 1
    BY <1>1, <1>2, <2>4 DEF WroteBy
  <2> QED BY <1>1, <2>1, <2>2, <2>3, <2>4
<1>3. \A i, j \in Nat : ClearIn(k, i, j) => ClearIn(k, i, j)'
  BY <1>1 DEF ClearIn
<1>4. Apart(k)'
  <2> SUFFICES ASSUME NEW i \in Nat, NEW j \in Nat, NEW s, NEW t, i < j, s # t,
                      WroteBy(k, i, s)', WroteBy(k, j, t)'
               PROVE  ClearIn(k, i, j)'
    BY DEF Apart
  <2>1. i <= n /\ WroteBy(k, i, s)
    <3>1. j <= n + 1
      BY <1>1, <1>2
    <3> QED BY <1>1, <1>2, <3>1
  <2>2. CASE WroteBy(k, j, t)
    BY <1>3, <2>1, <2>2 DEF Apart
  <2>3. CASE j = n + 1 /\ e.do = "tick" /\ e.by = t
    <3>1. ~Working(s, k)
      BY <2>3
    <3>2. ClearIn(k, i, n + 1)
      BY <1>1, <2>1, <3>1 DEF Covered
    <3>3. n + 1 \in Nat
      BY <1>1
    <3> QED BY <1>3, <2>3, <3>2, <3>3
  <2> QED BY <1>2, <2>2, <2>3
<1>5. Covered(k)'
  <2> SUFFICES ASSUME NEW i \in Nat, NEW s, WroteBy(k, i, s)', ~Working(s, k)'
               PROVE  ClearIn(k, i, n + 2)'
    <3>1. Len(queue'[k]) + 1 = n + 2
      BY <1>1
    <3> QED BY <3>1 DEF Covered
  <2>1. i <= n /\ WroteBy(k, i, s)
    BY <1>2
  <2>2. CASE e.do = "clear"
    BY <1>1, <2>1, <2>2 DEF ClearIn
  <2>3. CASE WorkKept(k)
    <3>1. ClearIn(k, i, n + 1)
      BY <1>1, <2>1, <2>3 DEF Covered, WorkKept
    <3> QED BY <1>1, <3>1 DEF ClearIn
  <2> QED BY <2>2, <2>3
<1> QED BY <1>4, <1>5

\* The head leaves the queue; a tick may have written what is remembered then, a
\* clearProgress leaves nothing remembered.
LEMMA OwnPopped ==
  ASSUME QueueTypes, NEW k \in Key, queue[k] # <<>>, Pop(k), Apart(k), Covered(k),
         WorkKept(k),
         \A s : WroteBy(k, 0, s)' =>
           /\ WroteBy(k, 0, s) \/ WroteBy(k, 1, s)
           /\ queue[k][1].do # "clear"
  PROVE  Apart(k)' /\ Covered(k)'
<1>1. PICK n \in Nat :
      /\ n = Len(queue[k]) /\ n >= 1 /\ DOMAIN queue[k] = 1..n
      /\ Len(queue'[k]) = n - 1 /\ DOMAIN queue'[k] = 1..(n - 1)
      /\ \A i \in 1..(n - 1) : queue'[k][i] = queue[k][i + 1]
  BY PopEffect
\* Where what is at place i now was before.
<1>2. ASSUME NEW i \in Nat, NEW s, WroteBy(k, i, s)'
      PROVE  \E h \in Nat : /\ WroteBy(k, h, s) /\ h <= i + 1
                            /\ i = 0 => queue[k][1].do # "clear"
                            /\ i # 0 => h = i + 1
  <2>1. CASE i = 0
    <3>1. WroteBy(k, 0, s)'
      BY <1>2, <2>1
    <3> QED BY <2>1, <3>1
  <2>2. CASE i # 0
    <3>1. i \in 1..(n - 1) /\ queue'[k][i].do = "tick" /\ queue'[k][i].by = s
      BY <1>1, <1>2, <2>2 DEF WroteBy
    <3>2. i + 1 \in DOMAIN queue[k] /\ queue'[k][i] = queue[k][i + 1]
      BY <1>1, <3>1
    <3>3. WroteBy(k, i + 1, s)
      BY <3>1, <3>2 DEF WroteBy
    <3> QED BY <2>2, <3>3
  <2> QED BY <2>1, <2>2
<1>3. ASSUME NEW i \in Nat, NEW j \in Nat, NEW h \in Nat, ClearIn(k, h, j + 1),
             i = 0 => queue[k][1].do # "clear", i # 0 => h = i + 1
      PROVE  ClearIn(k, i, j)'
  <2>1. PICK g \in DOMAIN queue[k] : h < g /\ g < j + 1 /\ queue[k][g].do = "clear"
    BY <1>3 DEF ClearIn
  <2>2. g \in 2..n
    BY <1>1, <1>3, <2>1
  <2>3. g - 1 \in 1..(n - 1) /\ (g - 1) + 1 = g /\ i < g - 1 /\ g - 1 < j
    BY <1>1, <1>3, <2>1, <2>2
  <2>4. g - 1 \in DOMAIN queue'[k] /\ queue'[k][g - 1] = queue[k][g]
    BY <1>1, <2>3
  <2> QED BY <2>1, <2>3, <2>4 DEF ClearIn
<1>4. Apart(k)'
  <2> SUFFICES ASSUME NEW i \in Nat, NEW j \in Nat, NEW s, NEW t, i < j, s # t,
                      WroteBy(k, i, s)', WroteBy(k, j, t)'
               PROVE  ClearIn(k, i, j)'
    BY DEF Apart
  <2>1. PICK h \in Nat : /\ WroteBy(k, h, s) /\ h <= i + 1
                         /\ i = 0 => queue[k][1].do # "clear"
                         /\ i # 0 => h = i + 1
    BY <1>2
  <2>2. WroteBy(k, j + 1, t)
    BY <1>2
  <2>3. j + 1 \in Nat /\ h < j + 1
    BY <2>1
  <2>4. ClearIn(k, h, j + 1)
    BY <2>1, <2>2, <2>3 DEF Apart
  <2> QED BY <1>3, <2>1, <2>4
<1>5. Covered(k)'
  <2> SUFFICES ASSUME NEW i \in Nat, NEW s, WroteBy(k, i, s)', ~Working(s, k)'
               PROVE  ClearIn(k, i, n)'
    <3>1. Len(queue'[k]) + 1 = n
      BY <1>1
    <3> QED BY <3>1 DEF Covered
  <2>1. PICK h \in Nat : /\ WroteBy(k, h, s) /\ h <= i + 1
                         /\ i = 0 => queue[k][1].do # "clear"
                         /\ i # 0 => h = i + 1
    BY <1>2
  <2>2. ClearIn(k, h, n + 1)
    BY <1>1, <2>1 DEF Covered, WorkKept
  <2> QED BY <1>1, <1>3, <2>1, <2>2
<1> QED BY <1>4, <1>5

LEMMA AuthorSame ==
  ASSUME QueueTypes', NEW k \in Key, msgId'[k] = msgId[k],
         msgId[k] # None => chat'[msgId[k]] = chat[msgId[k]]
  PROVE  AuthorKept(k)
<1>1. 0 \notin DOMAIN queue'[k]
  BY DEF QueueTypes
<1> QED BY <1>1 DEF AuthorKept, WroteBy

\* No key remembers what a step of another key edits or posts.
LEMMA AuthorElsewhere ==
  ASSUME ChatInv, QueueTypes', NEW k \in Key, Notify(k) \/ Deliver(k), NEW q \in Key \ {k}
  PROVE  AuthorKept(q)
<1> USE NoneAssumption
<1>1. PICK message :
        /\ \/ UNCHANGED chat
           \/ msgId[k] # None /\ Update(msgId[k], message, TRUE)
           \/ Post(message, TRUE)
        /\ msgId'[q] = msgId[q]
  <2>1. CASE Notify(k)
    <3>1. msgId'[q] = msgId[q]
      BY <2>1 DEF Notify, ChatInv, KeysOwn
    <3> QED BY <2>1, <3>1 DEF Notify, Update, Post
  <2>2. CASE Deliver(k)
    <3>1. msgId'[q] = msgId[q]
      BY <2>2 DEF Deliver, Consumed, ChatInv, KeysOwn
    <3> QED BY <2>2, <3>1 DEF Deliver, PostPart, Post, MayOverwrite
  <2> QED BY <2>1, <2>2
<1>2. ASSUME msgId[q] # None
      PROVE  chat'[msgId[q]] = chat[msgId[q]]
  <2>1. msgId[q] \in DOMAIN chat /\ (msgId[k] # None => msgId[k] # msgId[q])
    BY <1>2 DEF ChatInv, KeysOwn
  <2> QED BY <1>1, <2>1, EditStep, PostStep DEF ChatInv
<1> QED BY <1>1, <1>2, AuthorSame

\* What is remembered after notifyProgressNow was there before or is its tick.
LEMMA NotifyAuthor ==
  ASSUME ChatInv, QueueTypes, QueueTypes', NEW k \in Key, Notify(k), NEW s,
         WroteBy(k, 0, s)'
  PROVE  WroteBy(k, 0, s) \/ WroteBy(k, 1, s)
<1> USE NoneAssumption
<1> DEFINE t == Head(queue[k])
           n == [kind |-> "progress", key |-> k, by |-> t.by, turn |-> t.turn,
                 shows |-> t.shows]
<1>1. t.do = "tick" /\ t = queue[k][1] /\ 1 \in DOMAIN queue[k] /\ 0 \notin DOMAIN queue'[k]
  BY DEF Notify, Is, QueueTypes
<1>2. PICK notice :
        /\ notice.by = t.by
        /\ \/ UNCHANGED <<chat, msgId>>
           \/ msgId[k] # None /\ Update(msgId[k], notice, TRUE) /\ UNCHANGED msgId
           \/ Post(notice, TRUE) /\ msgId' = [msgId EXCEPT ![k] = Len(chat) + 1]
  <2>1. n.by = t.by
    OBVIOUS
  <2> QED BY <2>1 DEF Notify, Update, Post
<1> HIDE DEF t, n
<1>3. msgId'[k] # None /\ chat'[msgId'[k]].by = s
  BY <1>1 DEF WroteBy
<1>4. CASE UNCHANGED <<chat, msgId>>
  BY <1>3, <1>4 DEF WroteBy
<1>5. CASE chat'[msgId'[k]] = notice
  BY <1>1, <1>2, <1>3, <1>5 DEF WroteBy
<1>6. CASE msgId[k] # None /\ Update(msgId[k], notice, TRUE) /\ UNCHANGED msgId
  BY <1>5, <1>6, EditStep DEF ChatInv
<1>7. CASE Post(notice, TRUE) /\ msgId' = [msgId EXCEPT ![k] = Len(chat) + 1]
  <2>1. msgId'[k] = Len(chat) + 1
    BY <1>7 DEF ChatInv, KeysOwn
  <2> QED BY <1>5, <1>7, <2>1, PostStep DEF ChatInv
<1> QED BY <1>2, <1>4, <1>6, <1>7

\* A reply leaves what is remembered, or nothing.
LEMMA DeliverAuthor ==
  ASSUME ChatInv, QueueTypes', NEW k \in Key, Deliver(k) PROVE AuthorKept(k)
<1> USE NoneAssumption
<1>1. 0 \notin DOMAIN queue'[k]
  BY DEF QueueTypes
<1>2. \/ msgId'[k] = None
      \/ /\ msgId'[k] = msgId[k]
         /\ \E part : UNCHANGED chat \/ Post(part, TRUE)
  BY DEF Deliver, PostPart, Post, Consumed, ChatInv, KeysOwn
<1>3. CASE msgId'[k] = None
  BY <1>1, <1>3 DEF AuthorKept, WroteBy
<1>4. CASE msgId'[k] = msgId[k] /\ UNCHANGED chat
  BY <1>4, AuthorSame
<1>5. ASSUME NEW part, msgId'[k] = msgId[k], Post(part, TRUE) PROVE AuthorKept(k)
  <2>1. msgId[k] # None => msgId[k] \in DOMAIN chat
    BY DEF ChatInv, KeysOwn
  <2> QED BY <1>5, <2>1, PostStep, AuthorSame DEF ChatInv
<1> QED BY <1>2, <1>3, <1>4, <1>5

\* The three kinds of step, for all keys.
LEMMA OwnInvStill ==
  ASSUME QueueTypes, QueueTypes', OwnInv, UNCHANGED <<queue, msgId, chat>>,
         strayed \subseteq strayed', \A q \in Key : WorkKept(q)
  PROVE  OwnInv'
<1> SUFFICES ASSUME NEW q \in Key \ strayed' PROVE Apart(q)' /\ Covered(q)'
  BY DEF OwnInv
<1>1. AuthorKept(q)
  BY AuthorSame
<1> QED BY <1>1, OwnStill DEF OwnInv

LEMMA OwnInvEnqueued ==
  ASSUME QueueTypes, QueueTypes', OwnInv, NEW k \in Key, NEW e, Enqueue(k, e),
         UNCHANGED <<msgId, chat>>, strayed \subseteq strayed',
         e.do = "tick" /\ k \notin strayed =>
           Working(e.by, k)' /\ \A s : Working(s, k) => s = e.by,
         \A q \in Key \ strayed' : WorkKept(q) \/ (q = k /\ e.do = "clear")
  PROVE  OwnInv'
<1> SUFFICES ASSUME NEW q \in Key \ strayed' PROVE Apart(q)' /\ Covered(q)'
  BY DEF OwnInv
<1>1. AuthorKept(q) /\ Apart(q) /\ Covered(q)
  BY AuthorSame DEF OwnInv
<1>2. CASE q = k
  BY <1>1, <1>2, OwnEnqueued
<1>3. CASE q # k
  BY <1>1, <1>3, EnqueueEffect, OwnStill
<1> QED BY <1>2, <1>3

LEMMA OwnInvPopped ==
  ASSUME QueueTypes, QueueTypes', OwnInv, NEW k \in Key, queue[k] # <<>>, Pop(k),
         UNCHANGED strayed, \A q \in Key : WorkKept(q),
         \A q \in Key \ {k} : AuthorKept(q),
         \A s : WroteBy(k, 0, s)' =>
           /\ WroteBy(k, 0, s) \/ WroteBy(k, 1, s)
           /\ queue[k][1].do # "clear"
  PROVE  OwnInv'
<1> SUFFICES ASSUME NEW q \in Key \ strayed' PROVE Apart(q)' /\ Covered(q)'
  BY DEF OwnInv
<1>1. Apart(q) /\ Covered(q)
  BY DEF OwnInv
<1>2. CASE q = k
  BY <1>1, <1>2, OwnPopped
<1>3. CASE q # k
  BY <1>1, <1>3, PopEffect, OwnStill
<1> QED BY <1>2, <1>3

\* What a step of a Session does to its work.
LEMMA WorkByOne ==
  ASSUME SessionTypes, NEW s \in Session, \A t \in Session \ {s} : ses'[t] = ses[t], NEW q,
         Working(s, q) => Working(s, q)'
  PROVE  WorkKept(q)
BY DEF WorkKept, Working

LEMMA WorkSame ==
  ASSUME \A t \in Session : ses'[t].phase = ses[t].phase /\ ses'[t].key = ses[t].key
  PROVE  \A q : WorkKept(q)
BY DEF WorkKept, Working

LEMMA OwnStep ==
  ASSUME PathInv, ChatInv, OwnInv, [Next]_vars PROVE OwnInv'
<1>1. /\ QueueTypes /\ SessionTypes /\ OutIsQuiet /\ OneLive
      /\ \A s \in Session : ses[s].key \in Key
  BY DEF PathInv, QueueInv, DataInv, SessionInv, SessionTypes, Known
<1>2. QueueTypes'
  BY QueueStep DEF PathInv, QueueInv, DataInv
<1>3. ASSUME NEW s \in Session,
             \/ Start(s) \/ SteerBegins(s) \/ ToolStart(s) \/ TurnEnds(s) \/ PiStopped(s)
      PROVE  OwnInv'
  <2>1. UNCHANGED <<queue, msgId, chat, strayed>>
    BY <1>3 DEF Start, SteerBegins, ToolStart, TurnEnds, PiStopped, router
  <2>2. \A t \in Session \ {s} : ses'[t] = ses[t]
    BY <1>1, <1>3
    DEF Start, SteerBegins, ToolStart, TurnEnds, PiStopped, SessionTypes
  <2>3. \A q : Working(s, q) => Working(s, q)'
    BY <1>1, <1>3
    DEF Start, SteerBegins, ToolStart, TurnEnds, PiStopped, SessionTypes, Working
  <2>4. \A q \in Key : WorkKept(q)
    BY <1>1, <2>2, <2>3, WorkByOne
  <2> QED BY <1>1, <1>2, <2>1, <2>4, OwnInvStill
<1>4. ASSUME NEW s \in Session, NEW k \in Key, NEW phase, Reset(s, k, phase),
             UNCHANGED <<msgId, chat>>, strayed \subseteq strayed',
             \A q \in Key \ strayed' : Working(s, q) =>
               q = k /\ phase \in {"busy", "idle", "closing"}
      PROVE  OwnInv'
  <2>1. PICK next : /\ ses' = [ses EXCEPT ![s] = next]
                    /\ next = [ses[s] EXCEPT !.key = k, !.timer = TRUE, !.last = None,
                                 !.turn = turns + 1, !.phase = phase, !.steering = FALSE]
    BY <1>4 DEF Reset
  <2>2. next.key = k /\ next.phase = phase
    <3>1. ses[s] \in [phase : Phase, key : Known, timer : BOOLEAN, turn : Nat,
                      tools : Nat, last : Nat \cup {None}, steering : BOOLEAN]
      BY <1>1 DEF SessionTypes
    <3> QED BY <2>1, <3>1
  <2>3. ses'[s] = next /\ \A t \in Session \ {s} : ses'[t] = ses[t]
    BY <1>1, <2>1 DEF SessionTypes
  <2>4. \A q \in Key \ strayed' : WorkKept(q)
    <3> TAKE q \in Key \ strayed'
    <3>1. Working(s, q) => Working(s, q)'
      BY <1>4, <2>2, <2>3 DEF Working
    <3> QED BY <1>1, <2>3, <3>1, WorkByOne
  <2> QED BY <1>1, <1>2, <1>4, <2>4, OwnInvEnqueued DEF Reset
<1>5. ASSUME NEW s \in Session, NEW k \in Known, BeginTurn(s, k)
      PROVE  OwnInv'
  <2>1. \A q \in Key \ strayed' : Working(s, q) => q = k
    BY <1>5 DEF BeginTurn, Working
  <2> QED BY <1>4, <1>5, <2>1 DEF BeginTurn, Known, router
<1>6. ASSUME NEW s \in Session, Steer(s)
      PROVE  OwnInv'
  <2>1. \A q : Working(s, q) =>
          q = ses[s].key /\ ses[s].phase \in {"busy", "idle", "closing"}
    BY DEF Working
  <2> QED BY <1>1, <1>4, <1>6, <2>1 DEF Steer, router
<1>7. ASSUME NEW s \in Session, Tick(s)
      PROVE  OwnInv'
  <2>0. PICK k \in Key : k = ses[s].key
    BY <1>1
  <2> DEFINE e == [do |-> "tick", by |-> s, turn |-> ses[s].turn, shows |-> ses[s].tools]
  <2>1. Enqueue(k, e) /\ UNCHANGED <<msgId, chat, strayed>> /\ ses[s].timer
        /\ e.do = "tick" /\ e.by = s
    BY <1>7, <2>0 DEF Tick, router
  <2>2. \A t \in Session : ses'[t].phase = ses[t].phase /\ ses'[t].key = ses[t].key
    BY <1>1, <1>7 DEF Tick, SessionTypes
  <2>3. \A q : WorkKept(q)
    BY <2>2, WorkSame
  <2>4. ASSUME k \notin strayed
        PROVE  Working(s, k)' /\ \A t : Working(t, k) => t = s
    <3>1. ses[s].phase \in {"busy", "idle"}
      BY <1>1, <2>0, <2>1, <2>4 DEF OneLive, OutIsQuiet, SessionTypes, Phase
    <3>2. \A t \in Session : t < s => ses[t].phase = "ended"
      BY <1>1, <3>1 DEF OneLive
    <3>3. \A t \in Session : s < t => ses[t].phase = "none"
      BY <1>1, <3>1 DEF OneLive
    <3>4. \A t \in Session : t < s \/ s < t \/ t = s
      BY BoundAssumption DEF Session
    <3>5. \A t : Working(t, k) => t = s
      BY <3>2, <3>3, <3>4 DEF Working
    <3>6. Working(s, k)'
      BY <2>0, <2>2, <3>1 DEF Working
    <3> QED BY <3>5, <3>6
  <2> HIDE DEF e
  <2> QED BY <1>1, <1>2, <2>1, <2>3, <2>4, OwnInvEnqueued
<1>8. ASSUME NEW s \in Session, End(s) \/ CloseNotified(s)
      PROVE  OwnInv'
  <2> DEFINE e == [do |-> "clear"]
  <2>1. Enqueue(ses[s].key, e) /\ UNCHANGED <<msgId, chat, strayed>> /\ e.do = "clear"
    BY <1>8 DEF End, CloseNotified, router
  <2>2. \A t \in Session \ {s} : ses'[t] = ses[t]
    BY <1>1, <1>8 DEF End, CloseNotified, ClearAllTimers, SessionTypes
  <2>3. \A q \in Key : WorkKept(q) \/ q = ses[s].key
    BY <1>1, <2>2, WorkByOne DEF Working
  <2> HIDE DEF e
  <2> QED BY <1>1, <1>2, <2>1, <2>3, OwnInvEnqueued
<1>9. ASSUME NEW k \in Key, NEW r, \/ UNCHANGED queue
                                   \/ Enqueue(k, [do |-> "reply", reply |-> r]),
             UNCHANGED <<msgId, chat, strayed>>, \A q \in Key : WorkKept(q)
      PROVE  OwnInv'
  <2> DEFINE e == [do |-> "reply", reply |-> r]
  <2>1. e.do = "reply" /\ (UNCHANGED queue \/ Enqueue(k, e))
    BY <1>9
  <2> HIDE DEF e
  <2> QED BY <1>1, <1>2, <1>9, <2>1, OwnInvStill, OwnInvEnqueued
<1>10. ASSUME NEW s \in Session, NEW to \in Key, NEW files \in BOOLEAN,
              NEW parts \in 1..MaxParts, Reply(s, to, files, parts)
       PROVE  OwnInv'
  <2>1. UNCHANGED <<msgId, chat, strayed, ses>>
    BY <1>10 DEF Reply, router
  <2>2. \/ UNCHANGED queue
        \/ Enqueue(ses[s].key, [do |-> "reply", reply |-> Len(replies) + 1])
    BY <1>10 DEF Reply, Hand
  <2>3. \A q \in Key : WorkKept(q)
    BY <2>1, WorkSame
  <2> QED BY <1>1, <1>9, <2>1, <2>2, <2>3
<1>11. ASSUME NEW s \in Session, Shutdown(s)
       PROVE  OwnInv'
  <2>1. UNCHANGED <<msgId, chat, strayed>>
        /\ Enqueue(ses[s].key, [do |-> "reply", reply |-> Len(replies) + 1])
    BY <1>11 DEF Shutdown, Hand, router
  <2>2. /\ \A t \in Session \ {s} : ses'[t] = ses[t]
        /\ ses'[s].phase = "closing" /\ ses'[s].key = ses[s].key
    BY <1>1, <1>11 DEF Shutdown, ClearAllTimers, SessionTypes
  <2>3. \A q \in Key : WorkKept(q)
    BY <1>1, <2>2, WorkByOne DEF Working
  <2> QED BY <1>1, <1>9, <2>1, <2>3
<1>12. ASSUME NEW r \in DOMAIN replies, FilesResolved(r)
       PROVE  OwnInv'
  <2>1. replies[r].by \in Session
    <3>1. replies[r] \in ReplyShape
      BY DEF PathInv, QueueInv, ReplyTypes
    <3> QED BY <3>1 DEF ReplyShape
  <2>2. /\ UNCHANGED <<msgId, chat, strayed, ses>>
        /\ Enqueue(ses[replies[r].by].key, [do |-> "reply", reply |-> r])
    BY <1>12 DEF FilesResolved, Hand, router
  <2>3. \A q \in Key : WorkKept(q)
    BY <2>2, WorkSame
  <2> QED BY <1>1, <1>9, <2>1, <2>2, <2>3
<1>13. ASSUME NEW k \in Key, Clear(k) \/ Open(k) \/ Notify(k)
       PROVE  OwnInv'
  <2>1. queue[k] # <<>> /\ Pop(k) /\ UNCHANGED <<strayed, ses>>
    BY <1>13 DEF Clear, Open, Notify, Is
  <2>2. \A q \in Key : WorkKept(q)
    BY <2>1, WorkSame
  <2>3. \A q \in Key \ {k} : AuthorKept(q)
    <3>1. CASE Notify(k)
      BY <1>2, <3>1, AuthorElsewhere
    <3>2. CASE Clear(k) \/ Open(k)
      BY <1>2, <3>2, AuthorSame DEF Clear, Open, Forgotten, ChatInv, KeysOwn
    <3> QED BY <1>13, <3>1, <3>2
  <2>4. Head(queue[k]) = queue[k][1]
    BY <1>1, <2>1, PopEffect
  <2>5. ASSUME NEW s, WroteBy(k, 0, s)'
        PROVE  /\ WroteBy(k, 0, s) \/ WroteBy(k, 1, s)
               /\ queue[k][1].do # "clear"
    <3>1. 0 \notin DOMAIN queue'[k]
      BY <1>2 DEF QueueTypes
    <3>2. CASE Clear(k)
      BY <2>5, <3>1, <3>2 DEF Clear, Forgotten, ChatInv, KeysOwn, WroteBy
    <3>3. CASE Open(k)
      <4>1. AuthorKept(k)
        BY <1>2, <3>3, AuthorSame DEF Open
      <4> QED BY <2>4, <2>5, <3>3, <4>1 DEF Open, Is, AuthorKept
    <3>4. CASE Notify(k)
      BY <1>1, <1>2, <2>4, <2>5, <3>4, NotifyAuthor DEF Notify, Is
    <3> QED BY <1>13, <3>2, <3>3, <3>4
  <2> QED BY <1>1, <1>2, <2>1, <2>2, <2>3, <2>5, OwnInvPopped
<1>14. ASSUME NEW k \in Key, Deliver(k)
       PROVE  OwnInv'
  <2>1. PICK r \in DOMAIN replies :
          /\ queue[k] # <<>> /\ queue[k][1].do = "reply" /\ strayed' = strayed
          /\ Pop(k) \/ UNCHANGED queue
          /\ ses' = ses \/ ses' = [ses EXCEPT ![replies[r].by].timer = FALSE]
    BY <1>14, DeliverEffect DEF PathInv, QueueInv
  <2>2. \A t \in Session : ses'[t].phase = ses[t].phase /\ ses'[t].key = ses[t].key
    BY <1>1, <2>1 DEF SessionTypes
  <2>3. \A q \in Key : WorkKept(q)
    BY <2>2, WorkSame
  <2>4. \A q \in Key : AuthorKept(q)
    BY <1>2, <1>14, AuthorElsewhere, DeliverAuthor
  <2>5. CASE Pop(k)
    <3>1. \A s : WroteBy(k, 0, s)' => WroteBy(k, 0, s)
      BY <2>4 DEF AuthorKept
    <3> QED BY <1>1, <1>2, <2>1, <2>3, <2>4, <2>5, <3>1, OwnInvPopped
  <2>6. CASE UNCHANGED queue
    <3> SUFFICES ASSUME NEW q \in Key \ strayed' PROVE Apart(q)' /\ Covered(q)'
      BY DEF OwnInv
    <3> QED BY <1>1, <2>1, <2>3, <2>4, <2>6, OwnStill DEF OwnInv
  <2> QED BY <2>1, <2>5, <2>6
<1>15. CASE UNCHANGED vars
  <2>1. UNCHANGED <<queue, msgId, chat, strayed, ses>>
    BY <1>15 DEF vars
  <2>2. \A q \in Key : WorkKept(q)
    BY <2>1, WorkSame
  <2> QED BY <1>1, <1>2, <2>1, <2>2, OwnInvStill
<1> QED BY <1>3, <1>5, <1>6, <1>7, <1>8, <1>10, <1>11, <1>12, <1>13, <1>14, <1>15
        DEF Next, Work, Run

\* clearProgress in router.ts: each Session has its own progress message. What a
\* tick of one Session finds remembered is its own or was cleared with the end of
\* the earlier Session, whatever is still queued, unless a Session left the key.
THEOREM SessionsKeepApart == Spec => UpdatesOwn
<1> DEFINE Edited ==
      \A m \in DOMAIN chat :
        /\ chat[m].kind = "progress" /\ chat'[m] # chat[m]
        /\ chat'[m].kind = "progress"
        => chat'[m].by = chat[m].by \/ chat[m].key \in strayed
<1>1. Init => OwnInv
  <2> SUFFICES ASSUME Init PROVE OwnInv
    OBVIOUS
  <2>1. \A k \in Key : queue[k] = <<>> /\ msgId[k] = None
    BY DEF Init
  <2>2. \A k \in Key : \A i, s : ~WroteBy(k, i, s)
    BY <2>1 DEF WroteBy
  <2> QED BY <2>2 DEF OwnInv, Apart, Covered
<1>2. ChatInv /\ PathInv /\ OwnInv /\ [Next]_vars => Edited
  <2> SUFFICES ASSUME ChatInv, PathInv, OwnInv, [Next]_vars, NEW m \in DOMAIN chat,
                      chat[m].kind = "progress", chat'[m] # chat[m],
                      chat'[m].kind = "progress", chat[m].key \notin strayed
               PROVE  chat'[m].by = chat[m].by
    OBVIOUS
  <2>1. m \in DOMAIN chat'
    <3>1. chat' # chat
      OBVIOUS
    <3>2. PICK k \in Key : Notify(k) \/ Deliver(k)
      BY <3>1
      DEF Next, Work, Run, Clear, Open, Start, SteerBegins, Steer, ToolStart, Tick,
          TurnEnds, End, PiStopped, Shutdown, CloseNotified, BeginTurn, Reply,
          FilesResolved, router, vars
    <3>3. PICK message : \/ msgId[k] # None /\ Update(msgId[k], message, TRUE)
                         \/ Post(message, TRUE)
      BY <3>1, <3>2 DEF Notify, Deliver, PostPart, Update, Post, MayOverwrite
    <3> QED BY <3>3, EditStep, PostStep DEF ChatInv
  <2>2. PICK k \in Key :
          /\ 1 \in DOMAIN queue[k] /\ queue[k][1].do = "tick"
          /\ chat'[m].by = queue[k][1].by /\ msgId[k] = m
    BY <2>1, WrittenByTick DEF PathInv, QueueInv
  <2>3. m # None /\ chat[m].key = k
    <3>1. DOMAIN chat \subseteq Nat
      BY DEF ChatInv, ChatIsSequence
    <3>2. m # None
      BY <3>1, NoneAssumption
    <3> QED BY <2>2, <3>2 DEF ChatInv, KeysOwn
  <2>4. WroteBy(k, 0, chat[m].by) /\ WroteBy(k, 1, chat'[m].by)
    BY <2>2, <2>3 DEF WroteBy
  <2>5. DOMAIN queue[k] \subseteq Nat
    BY DEF PathInv, QueueInv, DataInv, QueueTypes
  <2>6. ~ClearIn(k, 0, 1)
    BY <2>5 DEF ClearIn
  <2> QED BY <2>3, <2>4, <2>6 DEF OwnInv, Apart
<1>3. Spec => []ChatInv
  <2>1. Init => ChatInv
    BY DEF Init, ChatInv, ChatIsSequence, KeysOwn
  <2>2. ChatInv /\ [Next]_vars => ChatInv'
    BY ChatStep
  <2> QED BY <2>1, <2>2, PTL DEF Spec
<1>4. PathInv /\ ChatInv /\ OwnInv /\ [Next]_vars => OwnInv'
  BY OwnStep
<1> QED BY <1>1, <1>2, <1>3, <1>4, PathShut, PTL DEF Spec, UpdatesOwn
=============================================================================
