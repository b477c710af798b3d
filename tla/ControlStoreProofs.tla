-------------------------- MODULE ControlStoreProofs --------------------------
(***************************************************************************)
(* Theorems about the two stores of the control state: LeaseStore, for any *)
(* set of processes, any TTLs and any horizon, and FirestoreInbox, for any *)
(* items and bounds.                                                       *)
(***************************************************************************)
EXTENDS LeaseStore, FirestoreInbox, TLAPS

-----------------------------------------------------------------------------
(* LeaseStore.  LeaseInv is inductive together with LeaseTypeOK as long as *)
(* no process releases a lapsed lease; its second half is inductive        *)
(* without that assumption, which is enough for LapsedStaysLapsed.         *)

\* The part of LeaseInv that survives stale releases.
RowMatchesHandle ==
  \A p \in Process :
    lease.owner = p /\ HasHandle(p) =>
      /\ lease.token = handle[p]
      /\ lease.expiresAt = validUntil[p]

(* LeaseTypeOK is an invariant: tokens and expiries stay natural numbers. *)
THEOREM LeaseTypeCorrect == LeaseSpec => []LeaseTypeOK
<1>1. LeaseInit => LeaseTypeOK
  BY DEF LeaseInit, LeaseTypeOK, NoLease, NoHandle
<1>2. LeaseTypeOK /\ [LeaseNext]_leaseVars => LeaseTypeOK'
  <2> SUFFICES ASSUME LeaseTypeOK, [LeaseNext]_leaseVars
               PROVE  LeaseTypeOK'
    OBVIOUS
  <2> USE DEF LeaseTypeOK, NoLease, NoHandle, HasHandle, RowPresent
  <2>1. NextToken \in Nat
    BY DEF NextToken
  <2>2. ASSUME NEW p \in Process, NEW ttl \in Ttl, Acquire(p, ttl)
        PROVE  LeaseTypeOK'
    <3>1. clock + ttl \in Nat
      BY TtlAssumption
    <3>2. lease' \in [owner : Process \cup {NoProcess}, token : Nat, expiresAt : Nat]
      BY <2>1, <2>2, <3>1 DEF Acquire, Row
    <3>3. QED
      BY <2>1, <2>2, <3>1, <3>2 DEF Acquire
  <2>3. ASSUME NEW p \in Process, NEW ttl \in Ttl, Renew(p, ttl)
        PROVE  LeaseTypeOK'
    <3>1. clock + ttl \in Nat
      BY TtlAssumption
    <3>2. lease' \in [owner : Process \cup {NoProcess}, token : Nat, expiresAt : Nat]
      BY <2>3, <3>1 DEF Renew, Row
    <3>3. QED
      BY <2>3, <3>1, <3>2 DEF Renew
  <2>4. ASSUME NEW p \in Process, Release(p)
        PROVE  LeaseTypeOK'
    BY <2>4 DEF Release
  <2>5. ASSUME NEW p \in Process, Drop(p)
        PROVE  LeaseTypeOK'
    BY <2>5 DEF Drop
  <2>6. CASE LeaseTick
    BY <2>6 DEF LeaseTick
  <2>7. CASE UNCHANGED leaseVars
    BY <2>7 DEF leaseVars
  <2>8. QED
    BY <2>2, <2>3, <2>4, <2>5, <2>6, <2>7 DEF LeaseNext
<1>3. QED
  BY <1>1, <1>2, PTL DEF LeaseSpec

(* A row and the Lease object of its owner agree, stale releases or not. *)
THEOREM RowMatchesHandleInvariant == LeaseSpec => []RowMatchesHandle
<1>1. LeaseInit => RowMatchesHandle
  BY NoProcessAssumption DEF LeaseInit, RowMatchesHandle, NoLease
<1>2. LeaseTypeOK /\ RowMatchesHandle /\ [LeaseNext]_leaseVars => RowMatchesHandle'
  <2> SUFFICES ASSUME LeaseTypeOK, RowMatchesHandle, [LeaseNext]_leaseVars
               PROVE  RowMatchesHandle'
    OBVIOUS
  <2> USE NoProcessAssumption DEF LeaseTypeOK, RowMatchesHandle, HasHandle, RowPresent, NoHandle
  <2>1. ASSUME NEW p \in Process, NEW ttl \in Ttl, Acquire(p, ttl)
        PROVE  RowMatchesHandle'
    BY <2>1 DEF Acquire, Row, NextToken, NoHandle
  <2>2. ASSUME NEW p \in Process, NEW ttl \in Ttl, Renew(p, ttl)
        PROVE  RowMatchesHandle'
    BY <2>2 DEF Renew, Row
  <2>3. ASSUME NEW p \in Process, Release(p)
        PROVE  RowMatchesHandle'
    BY <2>3 DEF Release, NoLease
  <2>4. ASSUME NEW p \in Process, Drop(p)
        PROVE  RowMatchesHandle'
    BY <2>4 DEF Drop, NoHandle
  <2>5. CASE LeaseTick
    BY <2>5 DEF LeaseTick
  <2>6. CASE UNCHANGED leaseVars
    BY <2>6 DEF leaseVars
  <2>7. QED
    BY <2>1, <2>2, <2>3, <2>4, <2>5, <2>6 DEF LeaseNext
<1>3. QED
  BY <1>1, <1>2, LeaseTypeCorrect, PTL DEF LeaseSpec

(* A lapsed lease is never revived by a renew, whatever the callers do. *)
THEOREM LapsedStays == LeaseSpec => LapsedStaysLapsed
<1>1. ASSUME LeaseTypeOK, RowMatchesHandle, [LeaseNext]_leaseVars
      PROVE  [\A p \in Process :
                HasHandle(p) /\ HasHandle(p)' /\ ~Live(p)
                  => ~Live(p)']_leaseVars
  <2> SUFFICES ASSUME NEW p \in Process, HasHandle(p), HasHandle(p)',
                      ~Live(p), LeaseNext
               PROVE  ~Live(p)'
    BY <1>1 DEF leaseVars, Live, HasHandle
  <2> USE <1>1, NoProcessAssumption DEF LeaseTypeOK, RowMatchesHandle, Live, HasHandle, RowPresent, NoHandle
  <2>1. ASSUME NEW q \in Process, NEW ttl \in Ttl, Acquire(q, ttl)
        PROVE  ~Live(p)'
    BY <2>1 DEF Acquire
  <2>2. ASSUME NEW q \in Process, NEW ttl \in Ttl, Renew(q, ttl)
        PROVE  ~Live(p)'
    BY <2>2 DEF Renew, Expired
  <2>3. ASSUME NEW q \in Process, Release(q)
        PROVE  ~Live(p)'
    BY <2>3 DEF Release
  <2>4. ASSUME NEW q \in Process, Drop(q)
        PROVE  ~Live(p)'
    BY <2>4 DEF Drop, NoHandle
  <2>5. CASE LeaseTick
    BY <2>5 DEF LeaseTick
  <2>6. QED
    BY <2>1, <2>2, <2>3, <2>4, <2>5 DEF LeaseNext
<1>2. QED
  BY <1>1, LeaseTypeCorrect, RowMatchesHandleInvariant, PTL DEF LeaseSpec, LapsedStaysLapsed

(* LeaseInv holds when the callers release only what they still hold. *)
THEOREM LeaseInvariant == ASSUME ~StaleRelease PROVE LeaseSpec => []LeaseInv
<1>1. LeaseInit => LeaseInv
  BY NoProcessAssumption DEF LeaseInit, LeaseInv, Live, NoLease, NoHandle, HasHandle
<1>2. LeaseTypeOK /\ LeaseInv /\ [LeaseNext]_leaseVars => LeaseInv'
  <2> SUFFICES ASSUME LeaseTypeOK, LeaseInv, [LeaseNext]_leaseVars
               PROVE  LeaseInv'
    OBVIOUS
  <2> USE NoProcessAssumption DEF LeaseTypeOK, LeaseInv, Live, HasHandle, RowPresent, NoHandle
  <2>1. ASSUME NEW p \in Process, NEW ttl \in Ttl, Acquire(p, ttl)
        PROVE  LeaseInv'
    BY <2>1, TtlAssumption DEF Acquire, Row, NextToken, NoHandle, Expired
  <2>2. ASSUME NEW p \in Process, NEW ttl \in Ttl, Renew(p, ttl)
        PROVE  LeaseInv'
    BY <2>2, TtlAssumption DEF Renew, Row, Expired
  <2>3. ASSUME NEW p \in Process, Release(p)
        PROVE  LeaseInv'
    BY <2>3 DEF Release, NoLease
  <2>4. ASSUME NEW p \in Process, Drop(p)
        PROVE  LeaseInv'
    BY <2>4 DEF Drop, NoHandle
  <2>5. CASE LeaseTick
    BY <2>5 DEF LeaseTick
  <2>6. CASE UNCHANGED leaseVars
    BY <2>6 DEF leaseVars
  <2>7. QED
    BY <2>1, <2>2, <2>3, <2>4, <2>5, <2>6 DEF LeaseNext
<1>3. QED
  BY <1>1, <1>2, LeaseTypeCorrect, PTL DEF LeaseSpec

(* Two processes never both hold a live lease, for any number of processes. *)
THEOREM Exclusion == ASSUME ~StaleRelease PROVE LeaseSpec => []MutualExclusion
<1>1. LeaseInv => MutualExclusion
  BY DEF LeaseInv, MutualExclusion
<1>2. QED
  BY <1>1, LeaseInvariant, PTL

-----------------------------------------------------------------------------
(* FirestoreInbox: what seq orders although create() calls land in any     *)
(* order, and that an ack is final.                                        *)

\* The documents there are, stored or on their way, without their status.
Key(d) == [seq |-> d.seq, ms |-> d.ms, call |-> d.call]
Exists(d) == d.status # "none"

\* The inductive step's view of TypeOK.
LEMMA TypeStep == ASSUME TypeOK, [Next]_vars PROVE TypeOK'
<1> USE BoundsAssumption DEF TypeOK, Document
<1>1. ASSUME NEW i \in Item, EnqueueCall(i) PROVE TypeOK'
  <2>1. NextCounter \in Nat
    BY DEF NextCounter
  <2>2. NextSeq \in Nat
    BY <2>1 DEF NextSeq
  <2> QED
    BY <1>1, <2>1, <2>2 DEF EnqueueCall
<1>2. ASSUME NEW i \in Item, EnqueueCommit(i) PROVE TypeOK'
  BY <1>2 DEF EnqueueCommit, NoDocument
<1>3. ASSUME NEW S \in SUBSET Item, Ack(S) PROVE TypeOK'
  BY <1>3 DEF Ack
<1>4. CASE Tick
  BY <1>4 DEF Tick
<1>5. CASE UNCHANGED vars
  BY <1>5 DEF vars
<1> QED
  BY <1>1, <1>2, <1>3, <1>4, <1>5 DEF Next

\* Documents and counters keep their types (FirestoreInboxStore).
THEOREM TypeCorrect == Spec => []TypeOK
<1>1. Init => TypeOK
  BY DEF Init, TypeOK, Document, NoDocument
<1> QED
  BY <1>1, TypeStep, PTL DEF Spec

-----------------------------------------------------------------------------

\* What nextSeq leaves behind in a document: its place within the burst of its
\* millisecond, and that no later call of that millisecond ties with it.
Placed(d) ==
  Exists(d) =>
    /\ d.ms <= lastSeqMs
    /\ d.ms <= d.seq /\ d.seq < d.ms + MaxBurst
    /\ d.call <= calls
    /\ d.ms = lastSeqMs => d.seq <= lastSeqMs + seqCounter

\* Two documents of one millisecond have the order of their calls.
InCallOrder(d, e) ==
  Exists(d) /\ Exists(e) /\ d.ms = e.ms /\ d.call < e.call => d.seq < e.seq

\* The strengthening that makes both order properties inductive: it speaks of
\* the documents in flight as well, because they are numbered before they land.
SeqInv ==
  /\ lastSeqMs <= nowMs
  /\ \A i \in Item : Placed(doc[i]) /\ Placed(flight[i])
  /\ \A i, j \in Item :
       /\ InCallOrder(doc[i], doc[j]) /\ InCallOrder(flight[i], flight[j])
       /\ InCallOrder(doc[i], flight[j]) /\ InCallOrder(flight[i], doc[j])

LEMMA SeqStep == ASSUME TypeOK, SeqInv, [Next]_vars PROVE SeqInv'
<1> USE BoundsAssumption
<1>1. ASSUME NEW i \in Item, EnqueueCall(i) PROVE SeqInv'
  <2>2. NextCounter \in Nat /\ NextSeq = nowMs + NextCounter
    BY DEF NextCounter, NextSeq, TypeOK
  <2>0. PICK new \in Document :
          new = [status |-> "unacked", seq |-> NextSeq, ms |-> nowMs,
                 call |-> calls + 1]
    <3>1. NextSeq \in Nat /\ nowMs \in Nat /\ calls + 1 \in Nat
      BY <2>2 DEF TypeOK
    <3>2. [status |-> "unacked", seq |-> NextSeq, ms |-> nowMs,
           call |-> calls + 1] \in Document
      BY <3>1 DEF Document
    <3> QED
      BY <3>2
  <2>1. /\ flight' = [flight EXCEPT ![i] = new] /\ doc' = doc
        /\ lastSeqMs' = nowMs /\ nowMs' = nowMs
        /\ seqCounter' = NextCounter /\ calls' = calls + 1
        /\ NextCounter < MaxBurst
    BY <1>1, <2>0 DEF EnqueueCall
  <2>3. Placed(new)'
    BY <2>0, <2>1, <2>2 DEF Placed, Exists, TypeOK
  <2>4. ASSUME NEW d \in Document, Placed(d)
        PROVE  Placed(d)' /\ InCallOrder(d, new)' /\ InCallOrder(new, d)'
    <3>1. CASE lastSeqMs = nowMs
      <4>1. NextCounter = seqCounter + 1
        BY <3>1 DEF NextCounter
      <4> QED
        BY <2>0, <2>1, <2>2, <2>4, <3>1, <4>1
        DEF Placed, InCallOrder, Exists, TypeOK, Document
    <3>2. CASE lastSeqMs < nowMs
      BY <2>0, <2>1, <2>2, <2>4, <3>2
      DEF Placed, InCallOrder, Exists, TypeOK, Document
    <3> QED
      BY <3>1, <3>2 DEF SeqInv, TypeOK
  <2>5. \A j \in Item : doc[j] \in Document /\ flight[j] \in Document
    BY DEF TypeOK
  <2>6. \A j \in Item : flight'[j] = IF j = i THEN new ELSE flight[j]
    BY <2>1 DEF TypeOK
  <2>7. (lastSeqMs <= nowMs)'
    BY <2>1 DEF TypeOK
  <2>8. InCallOrder(new, new)'
    BY <2>0, <2>1 DEF InCallOrder, Document
  <2>9. \A j \in Item : Placed(doc[j])' /\ Placed(flight[j])'
    BY <2>1, <2>3, <2>4, <2>5, <2>6 DEF SeqInv
  <2>10. ASSUME NEW j \in Item, NEW k \in Item
         PROVE  /\ InCallOrder(doc[j], doc[k])'
                /\ InCallOrder(flight[j], flight[k])'
                /\ InCallOrder(doc[j], flight[k])'
                /\ InCallOrder(flight[j], doc[k])'
    BY <2>1, <2>4, <2>5, <2>6, <2>8 DEF SeqInv, InCallOrder, Exists
  <2> QED
    BY <2>7, <2>9, <2>10 DEF SeqInv
<1>2. ASSUME NEW i \in Item, EnqueueCommit(i) PROVE SeqInv'
  <2>1. \A j \in Item :
          /\ doc'[j] = doc[j] \/ doc'[j] = flight[j]
          /\ flight'[j] = flight[j] \/ ~Exists(flight'[j])
    BY <1>2 DEF EnqueueCommit, TypeOK, NoDocument, Exists
  <2>2. UNCHANGED <<nowMs, lastSeqMs, seqCounter, calls>>
    BY <1>2 DEF EnqueueCommit
  <2> QED
    BY <2>1, <2>2 DEF SeqInv, Placed, InCallOrder, Exists
<1>3. ASSUME NEW S \in SUBSET Item, Ack(S) PROVE SeqInv'
  <2>1. ASSUME NEW j \in Item
        PROVE  /\ Key(doc'[j]) = Key(doc[j])
               /\ Exists(doc'[j]) <=> Exists(doc[j])
    BY <1>3, <2>1 DEF Ack, TypeOK, Document, Key, Exists, Stored
  <2>2. UNCHANGED <<nowMs, lastSeqMs, seqCounter, calls, flight>>
    BY <1>3 DEF Ack
  <2> QED
    BY <2>1, <2>2 DEF SeqInv, Placed, InCallOrder, Key
<1>4. CASE Tick
  BY <1>4 DEF Tick, SeqInv, Placed, InCallOrder, Exists, TypeOK
<1>5. CASE UNCHANGED vars
  BY <1>5 DEF vars, SeqInv, Placed, InCallOrder, Exists
<1> QED
  BY <1>1, <1>2, <1>3, <1>4, <1>5 DEF Next

\* The numbers nextSeq gave out keep their order, stored or in flight.
THEOREM SeqInvariant == Spec => []SeqInv
<1>1. Init => SeqInv
  BY DEF Init, SeqInv, Placed, InCallOrder, Exists, NoDocument
<1> QED
  BY <1>1, SeqStep, TypeCorrect, PTL DEF Spec

\* The calls of one millisecond are drained in their order, whatever order
\* their create() calls landed in.
THEOREM SameMillisecond == Spec => []SameMsOrder
<1>1. SeqInv => SameMsOrder
  BY DEF SeqInv, InCallOrder, Exists, SameMsOrder, Drained, DrainedBefore
<1> QED
  BY <1>1, SeqInvariant, PTL

\* Calls at least MaxBurst milliseconds apart are drained in their order.
THEOREM AcrossGap == Spec => []OrderAcrossGap
<1>1. TypeOK /\ SeqInv => OrderAcrossGap
  BY BoundsAssumption
  DEF TypeOK, Document, SeqInv, Placed, Exists, OrderAcrossGap, Drained,
      DrainedBefore
<1> QED
  BY <1>1, TypeCorrect, SeqInvariant, PTL

\* An acked item is in no later drain: create() finds its document and fails.
THEOREM AckStays == Spec => AckIsFinal
<1>1. TypeOK /\ [Next]_vars
        => [\A i \in Item : doc[i].status = "acked" => i \notin Drained']_vars
  <2> SUFFICES ASSUME TypeOK, Next, NEW i \in Item, doc[i].status = "acked"
               PROVE  doc'[i].status = "acked"
    BY DEF Drained
  <2>1. ASSUME NEW j \in Item, EnqueueCall(j) PROVE doc'[i].status = "acked"
    BY <2>1 DEF EnqueueCall
  <2>2. ASSUME NEW j \in Item, EnqueueCommit(j) PROVE doc'[i].status = "acked"
    BY <2>2 DEF EnqueueCommit, Stored, TypeOK
  <2>3. ASSUME NEW S \in SUBSET Item, Ack(S) PROVE doc'[i].status = "acked"
    BY <2>3 DEF Ack, TypeOK, Document
  <2>4. CASE Tick
    BY <2>4 DEF Tick
  <2> QED
    BY <2>1, <2>2, <2>3, <2>4 DEF Next
<1> QED
  BY <1>1, TypeCorrect, PTL DEF Spec, AckIsFinal

=============================================================================
