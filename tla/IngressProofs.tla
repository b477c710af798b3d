--------------------------- MODULE IngressProofs ---------------------------
(***************************************************************************)
(* Proofs about Ingress: its types, and that the two events of a mention   *)
(* and their redeliveries become one item while the post is remembered.    *)
(***************************************************************************)
EXTENDS Ingress, FiniteSetTheorems, TLAPS

\* A delivery that came through the codec and was not dropped after it.
Passed(d) == place[d] \notin {"none", "refused", "dropped"}

\* What the memory knows of, or knew once.
Remembered == seen \cup forgotten

OnePasses ==
  \A d, e \in Delivery :
    Passed(d) /\ Passed(e) /\ PostOf(d) = PostOf(e) /\ PostOf(d) \notin forgotten
      => d = e

PassedIsRemembered == \A d \in Delivery : Passed(d) => PostOf(d) \in Remembered

InboxIsDone == \A id \in inbox : \E d \in Delivery : d[1] = id /\ place[d] = "done"

Types ==
  /\ transport \in {"http", "socket"} /\ retries \in 0..MaxRetry
  /\ answered \subseteq Sent /\ seen \subseteq Post
  /\ cache \in [User -> {"unknown", "null", "name"}]
  /\ place \in [Delivery -> Place] /\ named \subseteq Delivery
  /\ inbox \subseteq Sent /\ forgotten \subseteq Post /\ unresolved \subseteq User

\* A delivery is of a post, and its event id has one post.
LEMMA DeliveryPost ==
  ASSUME NEW d \in Delivery
  PROVE  PostOf(d) \in Post /\ d[1] \in Sent /\ AuthorOf[PostOf(d)] \in User
BY PostAssumption DEF Delivery, PostOf, Sent, Id

\* The types hold of every state.
LEMMA TypesHold == Spec => []Types
<1>1. Init => Types
  BY BoundAssumption DEF Init, Types, Place
<1>2. Types /\ [Next]_vars => Types'
  <2> SUFFICES ASSUME Types, [Next]_vars PROVE Types'
    OBVIOUS
  <2> USE DeliveryPost DEF Types
  <2>1. ASSUME NEW d \in Delivery, Deliver(d) PROVE Types'
    <3>1. retries' \in 0..MaxRetry
      BY <2>1, BoundAssumption DEF Deliver, Due
    <3>2. place' \in [Delivery -> Place]
      BY <2>1 DEF Deliver, Normalize, Goto, Place
    <3>3. seen' \subseteq Post /\ forgotten' \subseteq Post /\ answered' \subseteq Sent
      BY <2>1 DEF Deliver, Normalize, Remember
    <3> QED BY <2>1, <3>1, <3>2, <3>3 DEF Deliver
  <2>2. ASSUME NEW d \in Delivery, Ack(d) PROVE Types'
    BY <2>2 DEF Ack, Goto, Place
  <2>3. ASSUME NEW d \in Delivery, Pipeline(d) PROVE Types'
    BY <2>3 DEF Pipeline, FirstSight, Goto, Place
  <2>4. ASSUME NEW d \in Delivery, Resolved(d) PROVE Types'
    BY <2>4 DEF Resolved, Goto, Place
  <2>5. ASSUME NEW d \in Delivery, Sink(d) PROVE Types'
    BY <2>5 DEF Sink, Goto, Place
  <2>6. ASSUME Restart PROVE Types'
    BY <2>6 DEF Restart, Place
  <2>7. ASSUME UNCHANGED vars PROVE Types'
    BY <2>7 DEF vars
  <2> QED BY <2>1, <2>2, <2>3, <2>4, <2>5, <2>6, <2>7 DEF Next, Work
<1> QED BY <1>1, <1>2, PTL DEF Spec

-----------------------------------------------------------------------------

MemoryIsBounded == IsFiniteSet(seen) /\ Cardinality(seen) <= Limit

\* Adding to a memory that is dropped when it is full keeps within the limit.
LEMMA RememberIsBounded ==
  ASSUME NEW S, IsFiniteSet(S), Cardinality(S) <= Limit, NEW p
  PROVE  IsFiniteSet(Remember(S, p)) /\ Cardinality(Remember(S, p)) <= Limit
<1>1. Cardinality(S) \in Nat /\ Limit \in Nat \ {0}
  BY FS_CardinalityType, BoundAssumption
<1>2. CASE Cardinality(S) >= Limit
  <2>1. Remember(S, p) = {p}
    BY <1>2 DEF Remember
  <2>2. IsFiniteSet({p}) /\ Cardinality({p}) = 1
    BY FS_Singleton
  <2>3. 1 <= Limit
    BY <1>1
  <2> QED BY <2>1, <2>2, <2>3
<1>3. CASE ~(Cardinality(S) >= Limit)
  <2>1. IsFiniteSet(S \cup {p}) /\ Cardinality(S \cup {p}) <= Cardinality(S) + 1
    BY <1>1, FS_AddElement
  <2>2. Cardinality(S \cup {p}) \in Nat
    BY <2>1, FS_CardinalityType
  <2> QED BY <1>1, <1>3, <2>1, <2>2 DEF Remember
<1> QED BY <1>2, <1>3

\* Every variable has its type, and the memory of seen messages of adapter.ts
\* never holds more than SEEN_MESSAGES_LIMIT posts.
THEOREM TypeCorrect == Spec => []TypeOK
<1>1. Init => MemoryIsBounded
  BY FS_EmptySet, BoundAssumption DEF Init, MemoryIsBounded
<1>2. MemoryIsBounded /\ [Next]_vars => MemoryIsBounded'
  <2> SUFFICES ASSUME MemoryIsBounded, [Next]_vars PROVE MemoryIsBounded'
    OBVIOUS
  <2>1. ASSUME NEW d \in Delivery, Deliver(d) PROVE MemoryIsBounded'
    BY <2>1, RememberIsBounded DEF Deliver, Normalize, MemoryIsBounded
  <2>2. CASE seen' = {}
    BY <2>2, FS_EmptySet, BoundAssumption DEF MemoryIsBounded
  <2>3. CASE seen' = seen
    BY <2>3 DEF MemoryIsBounded
  <2> QED BY <2>1, <2>2, <2>3
          DEF Next, Work, Ack, Pipeline, Resolved, Sink, Restart, vars
<1>3. Types /\ MemoryIsBounded => TypeOK
  BY DEF Types, MemoryIsBounded, TypeOK
<1> QED BY <1>1, <1>2, <1>3, TypesHold, PTL DEF Spec

-----------------------------------------------------------------------------

Memory == OnePasses /\ PassedIsRemembered /\ InboxIsDone

\* A step that lets no delivery pass, takes none back from the Inbox and forgets
\* nothing but what it puts among the forgotten keeps what is known of them.
LEMMA NonePasses ==
  ASSUME Memory, forgotten \subseteq forgotten',
         seen \cup forgotten \subseteq seen' \cup forgotten',
         \A d \in Delivery : Passed(d)' => Passed(d),
         \A d \in Delivery : place[d] = "done" => place'[d] = "done",
         \A id \in inbox' \ inbox :
           \E d \in Delivery : d[1] = id /\ place'[d] = "done"
  PROVE  Memory'
BY DEF Memory, OnePasses, PassedIsRemembered, InboxIsDone, Remembered

\* The delivery that passes is the first of its post since it was forgotten.
LEMMA FirstPasses ==
  ASSUME Types, Memory, NEW d \in Delivery, Deliver(d) PROVE Memory'
<1> DEFINE p == PostOf(d)
<1>0. p \in Post /\ place[d] = "none" /\ inbox' = inbox
  BY DeliveryPost DEF Deliver, Due
<1>1. CASE /\ Normalizes(p) /\ p \notin seen
           /\ seen' = Remember(seen, p) /\ forgotten' = forgotten \cup (seen \ seen')
           /\ place' = [place EXCEPT ![d] = "received"]
  <2>1. p \in seen' /\ seen \cup forgotten \subseteq seen' \cup forgotten'
    BY <1>1 DEF Remember
  <2>2. \A e \in Delivery : e # d => (Passed(e)' <=> Passed(e))
    BY <1>1 DEF Types, Passed
  <2>3. \A e \in Delivery :
          e # d /\ Passed(e) /\ PostOf(e) = p => p \in forgotten
    BY <1>1 DEF Memory, PassedIsRemembered, Remembered
  <2>4. OnePasses'
    <3> SUFFICES ASSUME NEW e \in Delivery, NEW f \in Delivery,
                        Passed(e)', Passed(f)', PostOf(e) = PostOf(f),
                        PostOf(e) \notin forgotten'
                 PROVE  e = f
      BY DEF OnePasses, PostOf
    <3>1. PostOf(e) \notin forgotten
      BY <1>1
    <3> QED BY <2>2, <2>3, <3>1 DEF Memory, OnePasses
  <2>5. PassedIsRemembered'
    BY <2>1, <2>2 DEF Memory, PassedIsRemembered, Remembered, PostOf
  <2>6. InboxIsDone'
    BY <1>0, <1>1 DEF Memory, InboxIsDone, Types
  <2> QED BY <2>4, <2>5, <2>6 DEF Memory
<1>2. CASE /\ seen' = seen /\ forgotten' = forgotten
           /\ \E where \in {"dropped", "refused"} :
                place' = [place EXCEPT ![d] = where]
  <2>1. \A e \in Delivery : Passed(e)' => Passed(e)
    BY <1>0, <1>2 DEF Types, Passed
  <2>2. \A e \in Delivery : place[e] = "done" => place'[e] = "done"
    BY <1>0, <1>2 DEF Types
  <2> QED BY <1>0, <1>2, <2>1, <2>2, NonePasses
<1> QED BY <1>1, <1>2 DEF Deliver, Normalize, SeenKey, Goto

\* The memory's invariant holds of every state.
LEMMA MemoryHolds == Spec => []Memory
<1>1. Init => Memory
  BY DEF Init, Memory, OnePasses, PassedIsRemembered, InboxIsDone, Passed
<1>2. Types /\ Memory /\ [Next]_vars => Memory'
  <2> SUFFICES ASSUME Types, Memory, [Next]_vars PROVE Memory'
    OBVIOUS
  <2>1. ASSUME NEW d \in Delivery, Deliver(d) PROVE Memory'
    BY <2>1, FirstPasses
  <2>2. ASSUME NEW d \in Delivery, Ack(d) PROVE Memory'
    BY <2>2, NonePasses DEF Ack, Goto, Types, Passed
  <2>3. ASSUME NEW d \in Delivery, Pipeline(d) PROVE Memory'
    BY <2>3, NonePasses DEF Pipeline, Goto, Types, Passed
  <2>4. ASSUME NEW d \in Delivery, Resolved(d) PROVE Memory'
    BY <2>4, NonePasses DEF Resolved, Goto, Types, Passed
  <2>5. ASSUME NEW d \in Delivery, Sink(d) PROVE Memory'
    BY <2>5, NonePasses DEF Sink, Goto, Types, Passed
  <2>6. ASSUME Restart PROVE Memory'
    <3>1. \A d \in Delivery : Passed(d)' => Passed(d)
      BY <2>6 DEF Restart, Types, Passed
    <3>2. \A d \in Delivery : place[d] = "done" => place'[d] = "done"
      BY <2>6 DEF Restart, Types
    <3> QED BY <2>6, <3>1, <3>2, NonePasses DEF Restart
  <2>7. ASSUME UNCHANGED vars PROVE Memory'
    BY <2>7, NonePasses DEF vars, Passed
  <2> QED BY <2>1, <2>2, <2>3, <2>4, <2>5, <2>6, <2>7 DEF Next, Work
<1> QED BY <1>1, <1>2, TypesHold, PTL DEF Spec

\* ingress-egress.md section 3, the deduplication of adapter.ts: however often
\* Slack delivers them, the app_mention and the message of one post become one
\* item of the Inbox, unless the post was dropped from the memory.
THEOREM OneItem == Spec => []OneItemPerPost
<1>1. Types /\ Memory => OneItemPerPost
  <2> SUFFICES ASSUME Types, Memory, NEW p \in Post, p \notin forgotten
               PROVE  Cardinality({id \in inbox : id[1] = p}) <= 1
    BY DEF OneItemPerPost
  <2> DEFINE items == {id \in inbox : id[1] = p}
  <2>1. ASSUME NEW i \in items, NEW j \in items PROVE i = j
    <3>1. PICK d \in Delivery : d[1] = i /\ place[d] = "done"
      BY DEF Memory, InboxIsDone
    <3>2. PICK e \in Delivery : e[1] = j /\ place[e] = "done"
      BY DEF Memory, InboxIsDone
    <3> QED BY <3>1, <3>2 DEF Memory, OnePasses, Passed, PostOf
  <2>2. CASE items = {}
    BY <2>2, FS_EmptySet
  <2>3. CASE items # {}
    <3>1. PICK i : i \in items
      BY <2>3
    <3>2. items = {i}
      BY <2>1, <3>1
    <3> QED BY <3>2, FS_Singleton
  <2> QED BY <2>2, <2>3
<1> QED BY <1>1, TypesHold, MemoryHolds, PTL

-----------------------------------------------------------------------------

\* A failure in the cache has a look-up behind it, and a delivery past the
\* resolver that has no name has one, too.
FailuresAreKnown == \A u \in User : cache[u] = "null" => u \in unresolved

NamesInv == FailuresAreKnown /\ UnnamedHasReason

\* ingress-egress.md section 4, the cache of user-resolver.ts: an event goes to
\* the sink without its sender's name only after a look-up of that user has
\* failed in this process or an earlier one, however many look-ups of a user
\* run at once and whichever of them stores its answer last.
THEOREM UnnamedIsExplained == Spec => []UnnamedHasReason
<1>1. Init => NamesInv
  BY DEF Init, NamesInv, FailuresAreKnown, UnnamedHasReason
<1>2. Types /\ NamesInv /\ [Next]_vars => NamesInv'
  <2> SUFFICES ASSUME Types, NamesInv, [Next]_vars PROVE NamesInv'
    OBVIOUS
  <2> USE DEF NamesInv, FailuresAreKnown, UnnamedHasReason
  <2>0. ASSUME NEW d \in Delivery PROVE PostOf(d)' = PostOf(d)
    BY DEF PostOf
  <2>1. ASSUME NEW d \in Delivery, Deliver(d) PROVE NamesInv'
    BY <2>0, <2>1 DEF Deliver, Normalize, Goto, Types
  <2>2. ASSUME NEW d \in Delivery, Ack(d) PROVE NamesInv'
    BY <2>0, <2>2 DEF Ack, Goto, Types
  <2>3. ASSUME NEW d \in Delivery, Pipeline(d) PROVE NamesInv'
    <3>1. AuthorOf[PostOf(d)] \in User
      BY DeliveryPost
    <3>2. cache' = cache /\ unresolved' = unresolved
      BY <2>3 DEF Pipeline, FirstSight
    <3>3. CASE place'[d] # "sink"
      BY <2>0, <2>3, <3>2, <3>3 DEF Pipeline, Goto, Types
    <3>4. CASE place'[d] = "sink"
      <4>1. /\ cache[AuthorOf[PostOf(d)]] # "unknown"
            /\ named' = IF cache[AuthorOf[PostOf(d)]] = "name" THEN named \cup {d} ELSE named
        BY <2>3, <3>4 DEF Pipeline, Goto, Types
      <4>2. d \notin named' => AuthorOf[PostOf(d)] \in unresolved
        BY <3>1, <4>1 DEF Types
      <4> QED BY <2>0, <2>3, <3>2, <4>1, <4>2 DEF Pipeline, Goto, Types
    <3> QED BY <3>3, <3>4
  <2>4. ASSUME NEW d \in Delivery, Resolved(d) PROVE NamesInv'
    BY <2>0, <2>4, DeliveryPost DEF Resolved, Goto, Types
  <2>5. ASSUME NEW d \in Delivery, Sink(d) PROVE NamesInv'
    BY <2>0, <2>5 DEF Sink, Goto, Types
  <2>6. ASSUME Restart PROVE NamesInv'
    BY <2>0, <2>6 DEF Restart, Types
  <2>7. ASSUME UNCHANGED vars PROVE NamesInv'
    BY <2>0, <2>7 DEF vars
  <2> QED BY <2>1, <2>2, <2>3, <2>4, <2>5, <2>6, <2>7 DEF Next, Work
<1> QED BY <1>1, <1>2, TypesHold, PTL DEF Spec, NamesInv
=============================================================================
