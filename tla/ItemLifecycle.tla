---------------------------- MODULE ItemLifecycle ----------------------------
(***************************************************************************)
(* What a Session promises about each item of its Inbox, as long as the    *)
(* runner process lives: it is accepted once, taken into a delivery once   *)
(* for good, and acked only after that.  No item goes back from taken to   *)
(* waiting, and what is acked never returns.  The documents state this in  *)
(* pieces (docs/design/state.md section 3.1, message-dispatch.md sections  *)
(* 5, 7.2 and 8); Session.tla implements it.                               *)
(***************************************************************************)
CONSTANT Item

VARIABLE status  \* of each item

Status == {"new",      \* never enqueued
           "waiting",  \* in the Inbox, in no delivery
           "taken",    \* in promptedIds and not acked
           "done"}     \* acked

Init == status \in [Item -> {"new", "waiting"}]

\* The items of S go from one status to another in one step.
Move(S, from, to) ==
  /\ \A i \in S : status[i] = from
  /\ status' = [i \in Item |-> IF i \in S THEN to ELSE status[i]]

Accept(S) == Move(S, "new", "waiting")

Take(S) == Move(S, "waiting", "taken")

Ack(S) == Move(S, "taken", "done")

Next == \E S \in SUBSET Item : Accept(S) \/ Take(S) \/ Ack(S)

Spec == Init /\ [][Next]_status
=============================================================================
