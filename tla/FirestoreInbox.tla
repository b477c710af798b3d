--------------------------- MODULE FirestoreInbox ---------------------------
(***************************************************************************)
(* The Firestore InboxStore of one runner instance, for one sessionKey     *)
(* (src/state/control/backends/firestore.ts, FirestoreInboxStore).         *)
(*                                                                         *)
(* enqueue computes a `seq` synchronously and then awaits create(), so it  *)
(* is two steps; concurrent enqueues commit in any order.  drain is a      *)
(* query sorted by seq, so the order it returns is a function of the state.*)
(***************************************************************************)
EXTENDS Integers

CONSTANTS
  Item,       \* dedupe ids (Slack event ids)
  MaxMs,      \* bound on the clock, in milliseconds
  MaxBurst,   \* bound on the enqueue calls within one millisecond
  MaxCalls    \* bound on the enqueue calls, redeliveries included

ASSUME BoundsAssumption ==
  MaxMs \in Nat /\ MaxBurst \in Nat \ {0} /\ MaxCalls \in Nat

VARIABLES
  nowMs,       \* the clock of the instance
  lastSeqMs,   \* millisecond of the last nextSeq()
  seqCounter,  \* calls of nextSeq() before the last one in that millisecond
  doc,         \* doc[i]: the stored document of item i
  flight,      \* flight[i]: the document an unfinished create() will write
  calls        \* number of enqueue calls so far (history)

vars == <<nowMs, lastSeqMs, seqCounter, doc, flight, calls>>

\* `ms` and `call` are history: when, and as which call, enqueue was invoked.
Document == [status : {"none", "unacked", "acked"},
             seq : Nat, ms : Nat, call : Nat]
NoDocument == [status |-> "none", seq |-> 0, ms |-> 0, call |-> 0]

Stored(i) == doc[i].status # "none"

Init ==
  /\ nowMs = 0
  /\ lastSeqMs = -1
  /\ seqCounter = 0
  /\ doc = [i \in Item |-> NoDocument]
  /\ flight = [i \in Item |-> NoDocument]
  /\ calls = 0

\* Mutant of NextCounter: the counter that separates one millisecond's calls
\* is never advanced.
NextCounterStuck == 0

\* Mutant of NextCounter: the counter restarts below zero.
NextCounterBelow == IF nowMs = lastSeqMs THEN seqCounter + 1 ELSE -1

NextCounter == IF nowMs = lastSeqMs THEN seqCounter + 1 ELSE 0

\* Mutant of NextSeq: a counter scaled as if the clock were in seconds.
NextSeqScaled == nowMs + 1000 * NextCounter

NextSeq == nowMs + NextCounter

\* enqueue up to its await: the first delivery of an item, or a redelivery.
EnqueueCall(i) ==
  /\ flight[i] = NoDocument
  /\ calls < MaxCalls
  /\ NextCounter < MaxBurst
  /\ flight' = [flight EXCEPT ![i] =
       [status |-> "unacked", seq |-> NextSeq, ms |-> nowMs, call |-> calls + 1]]
  /\ lastSeqMs' = nowMs
  /\ seqCounter' = NextCounter
  /\ calls' = calls + 1
  /\ UNCHANGED <<nowMs, doc>>

\* Mutant of EnqueueCommit: set() in the place of create().
EnqueueOverwrite(i) ==
  /\ flight[i] # NoDocument
  /\ doc' = [doc EXCEPT ![i] = flight[i]]
  /\ flight' = [flight EXCEPT ![i] = NoDocument]
  /\ UNCHANGED <<nowMs, lastSeqMs, seqCounter, calls>>

\* create() lands: it fails with ALREADY_EXISTS on a seen id, acked or not.
EnqueueCommit(i) ==
  /\ flight[i] # NoDocument
  /\ doc' = IF Stored(i) THEN doc ELSE [doc EXCEPT ![i] = flight[i]]
  /\ flight' = [flight EXCEPT ![i] = NoDocument]
  /\ UNCHANGED <<nowMs, lastSeqMs, seqCounter, calls>>

\* ack: one batch of updates on documents that exist.
Ack(S) ==
  /\ S # {}
  /\ \A i \in S : Stored(i)
  /\ doc' = [i \in Item |-> IF i \in S THEN [doc[i] EXCEPT !.status = "acked"]
                                       ELSE doc[i]]
  /\ UNCHANGED <<nowMs, lastSeqMs, seqCounter, flight, calls>>

Tick ==
  /\ nowMs < MaxMs
  /\ nowMs' = nowMs + 1
  /\ UNCHANGED <<lastSeqMs, seqCounter, doc, flight, calls>>

Next ==
  \/ \E i \in Item : EnqueueCall(i) \/ EnqueueCommit(i)
  \/ \E S \in SUBSET Item : Ack(S)
  \/ Tick

Spec == Init /\ [][Next]_vars

\* What drain() returns, and the order of two items in it: by seq.
Drained == {i \in Item : doc[i].status = "unacked"}
DrainedBefore(i, j) == doc[i].seq < doc[j].seq

-----------------------------------------------------------------------------

\* Types of the documents and of the counter state.
TypeOK ==
  /\ nowMs \in Nat
  /\ lastSeqMs \in Nat \cup {-1}
  /\ seqCounter \in Nat
  /\ doc \in [Item -> Document]
  /\ flight \in [Item -> Document]
  /\ calls \in Nat

\* Calls made within one millisecond come out of drain in call order, however
\* their create() calls were reordered: this is what seqCounter is for.
SameMsOrder ==
  \A i, j \in Drained :
    doc[i].ms = doc[j].ms /\ doc[i].call < doc[j].call => DrainedBefore(i, j)

\* Two calls at least MaxBurst milliseconds apart come out in call order: a
\* burst of n calls can overtake only the n - 1 milliseconds that follow it.
OrderAcrossGap ==
  \A i, j \in Drained :
    doc[i].ms + MaxBurst <= doc[j].ms => DrainedBefore(i, j)

\* message-dispatch.md section 8: an item that was acked stays out of every
\* later drain, even when the chat service delivers it again.
AckIsFinal ==
  [][\A i \in Item : doc[i].status = "acked" => i \notin Drained']_vars

=============================================================================
