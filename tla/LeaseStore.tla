------------------------------ MODULE LeaseStore ------------------------------
(***************************************************************************)
(* The TTL lease that excludes two runs of one Session                     *)
(* (src/state/control/backends/*.ts, class *LeaseStore), for ONE           *)
(* sessionKey.  The in-memory, SQLite and Firestore stores run the same    *)
(* three read-modify-write operations, each inside one critical section    *)
(* (the event loop, a transaction), so each is one action.                 *)
(*                                                                         *)
(* An acquire that returns null, a renew that returns false and a release  *)
(* that matches nothing leave the store alone: they are stuttering steps.  *)
(* The caller's reaction to them belongs to the callers' modules.          *)
(***************************************************************************)
EXTENDS Integers

CONSTANTS
  Process,       \* the runner processes; a process is the `owner` string
  NoProcess,     \* the owner of a row that does not exist
  Ttl,           \* the TTLs asked for: leaseTtlMs, and the shorter one of /new
  MaxTime,       \* bound on the clock
  StaleRelease   \* may a process call release after its own lease lapsed?

ASSUME NoProcessAssumption == NoProcess \notin Process
ASSUME TtlAssumption == Ttl \subseteq Nat \ {0}
ASSUME MaxTimeAssumption == MaxTime \in Nat
ASSUME StaleReleaseAssumption == StaleRelease \in BOOLEAN

VARIABLES
  clock,        \* now(), shared by the processes
  lease,        \* the stored row, or NoLease
  handle,       \* handle[p]: the token of the Lease object p got from acquire
  validUntil    \* validUntil[p]: the expiry the store last confirmed to p,
                \* 0 once p gave the lease back (history variable)

leaseVars == <<clock, lease, handle, validUntil>>

NoLease == [owner |-> NoProcess, token |-> 0, expiresAt |-> 0]
NoHandle == -1

Row(p, token, expiresAt) ==
  [owner |-> p, token |-> token, expiresAt |-> expiresAt]

RowPresent == lease.owner # NoProcess
HasHandle(p) == handle[p] # NoHandle

(***************************************************************************)
(* A lapsed row may be taken over: expiresAt <= now().                     *)
(***************************************************************************)
Expired(row) == row.expiresAt <= clock

\* The first token is 0, a takeover increments it; a release forgets it.
NextToken == IF RowPresent THEN lease.token + 1 ELSE 0

LeaseInit ==
  /\ clock = 0
  /\ lease = NoLease
  /\ handle = [p \in Process |-> NoHandle]
  /\ validUntil = [p \in Process |-> 0]

\* Mutants of Acquire: no look at the current row; the sign of the TTL flipped.
AcquireUnchecked(p, ttl) ==
  /\ ~HasHandle(p)
  /\ lease' = Row(p, NextToken, clock + ttl)
  /\ handle' = [handle EXCEPT ![p] = NextToken]
  /\ validUntil' = [validUntil EXCEPT ![p] = clock + ttl]
  /\ UNCHANGED clock

AcquirePast(p, ttl) ==
  /\ ~HasHandle(p)
  /\ RowPresent => Expired(lease)
  /\ lease' = Row(p, NextToken, clock - ttl)
  /\ handle' = [handle EXCEPT ![p] = NextToken]
  /\ validUntil' = [validUntil EXCEPT ![p] = clock - ttl]
  /\ UNCHANGED clock

Acquire(p, ttl) ==
  /\ ~HasHandle(p)
  /\ RowPresent => Expired(lease)
  /\ lease' = Row(p, NextToken, clock + ttl)
  /\ handle' = [handle EXCEPT ![p] = NextToken]
  /\ validUntil' = [validUntil EXCEPT ![p] = clock + ttl]
  /\ UNCHANGED clock

\* Mutant of Renew: the expiry of the row is not looked at.
RenewLapsed(p, ttl) ==
  /\ HasHandle(p)
  /\ lease.token = handle[p]
  /\ lease.owner = p
  /\ lease' = Row(p, lease.token, clock + ttl)
  /\ validUntil' = [validUntil EXCEPT ![p] = clock + ttl]
  /\ UNCHANGED <<clock, handle>>

Renew(p, ttl) ==
  /\ HasHandle(p)
  /\ lease.token = handle[p]
  /\ lease.owner = p
  /\ ~Expired(lease)
  /\ lease' = Row(p, lease.token, clock + ttl)
  /\ validUntil' = [validUntil EXCEPT ![p] = clock + ttl]
  /\ UNCHANGED <<clock, handle>>

\* What p knows of its own lease.
Live(p) == HasHandle(p) /\ validUntil[p] > clock

\* Only the token is compared.  The Lease object stays in the caller's hands.
Release(p) ==
  /\ HasHandle(p)
  /\ StaleRelease \/ Live(p)
  /\ lease' = IF RowPresent /\ lease.token = handle[p]
              THEN NoLease ELSE lease
  /\ validUntil' = [validUntil EXCEPT ![p] = 0]
  /\ UNCHANGED <<clock, handle>>

\* The caller forgets its Lease object: it has finished, or it crashed.
Drop(p) ==
  /\ HasHandle(p)
  /\ handle' = [handle EXCEPT ![p] = NoHandle]
  /\ validUntil' = [validUntil EXCEPT ![p] = 0]
  /\ UNCHANGED <<clock, lease>>

LeaseTick ==
  /\ clock < MaxTime
  /\ clock' = clock + 1
  /\ UNCHANGED <<lease, handle, validUntil>>

LeaseNext ==
  \/ \E p \in Process, ttl \in Ttl : Acquire(p, ttl) \/ Renew(p, ttl)
  \/ \E p \in Process : Release(p) \/ Drop(p)
  \/ LeaseTick

LeaseSpec == LeaseInit /\ [][LeaseNext]_leaseVars

-----------------------------------------------------------------------------

\* Types of the store and of the processes' view of it.
LeaseTypeOK ==
  /\ clock \in Nat
  /\ lease \in [owner : Process \cup {NoProcess}, token : Nat, expiresAt : Nat]
  /\ handle \in [Process -> Nat \cup {NoHandle}]
  /\ validUntil \in [Process -> Nat]

\* The purpose of the lease: two processes never both hold one they were told
\* is unexpired.  It relies on the callers not releasing a lapsed lease.
MutualExclusion == \A p, q \in Process : Live(p) /\ Live(q) => p = q

\* The inductive strengthening of MutualExclusion: whatever a live process
\* believes is what the row says, and a row whose owner still has its Lease
\* object carries that object's token and the expiry the owner was last told.
LeaseInv ==
  /\ \A p \in Process : Live(p) => lease.owner = p
  /\ \A p \in Process :
       lease.owner = p /\ HasHandle(p) =>
         /\ lease.token = handle[p]
         /\ lease.expiresAt = validUntil[p]

\* A lease that lapsed is never revived: the holder of a lapsed Lease object
\* becomes live again only through a new acquire, so a late renew cannot bring
\* back an exclusion that another process may have taken over meanwhile.
LapsedStaysLapsed ==
  [][\A p \in Process :
       HasHandle(p) /\ HasHandle(p)' /\ ~Live(p) => ~Live(p)']_leaseVars

=============================================================================
