-------------------------------- MODULE Gate --------------------------------
(***************************************************************************)
(* trigger.when, the tree of gates that decides whether an event may start *)
(* a Session (src/gate/gate.ts and src/gate/gates/).                       *)
(*                                                                         *)
(* A node is a leaf, a record whose gate names its kind, [and |-> nodes]   *)
(* or [or |-> nodes].  An event is a record with kind, bot, mention,       *)
(* sender (ids and resolved names), word (what keywords match) and added   *)
(* (emoji).                                                                *)
(***************************************************************************)
EXTENDS Naturals, Sequences

CONSTANTS
  Sort,       \* what an event can be
  Classifier, \* the classifier leaves, each a call of its own
  Node,       \* the nodes of the trees that are configured
  Depth,      \* how deep they are nested
  Height      \* how deep the tree below each node is

IsLeaf(node) == "gate" \in DOMAIN node
IsAnd(node) == "and" \in DOMAIN node
Children(node) == IF IsAnd(node) THEN node.and ELSE node.or

\* Trees read from a file: what is below a node is in the tree, and ends.
ASSUME TreeAssumption ==
  /\ Depth \in Nat /\ Height \in [Node -> 0..Depth]
  /\ \A node \in Node :
       IF IsLeaf(node) THEN node.gate = "classifier" => node.call \in Classifier
       ELSE \A i \in DOMAIN Children(node) :
              /\ Children(node)[i] \in Node
              /\ Height[Children(node)[i]] < Height[node]
ASSUME SortAssumption == \A s \in Sort : s.kind \in {"message", "reaction"}

\* What the calls of one evaluation come back with.
Answers == [Classifier -> {"yes", "no", "fail"}]

\* A parameter that the configuration leaves out asks nothing.
SenderMatches(leaf, ev) ==
  /\ leaf.is # {} => (IF ev.bot THEN "bot" ELSE "human") \in leaf.is
  /\ leaf.name # {} => ev.sender \in leaf.name

\* Mutant of Answered: a classifier that fails lets the event through.
AnsweredOpen(answer) == answer # "no"

\* ClassifierGate: a failed call, a timeout and an unreadable answer are a no.
Answered(answer) == answer = "yes"

\* decide of the gates.  Only messages are mentioned, matched or classified,
\* only reactions have an emoji.
Decide(leaf, ev, answers) ==
  LET message == ev.kind = "message"
  IN  \/ leaf.gate = "mention" /\ message /\ ev.mention
      \/ leaf.gate = "keyword" /\ message /\ ev.word \in leaf.arg
      \/ leaf.gate = "classifier" /\ message /\ Answered(answers[leaf.call])
      \/ leaf.gate = "reaction" /\ ~message /\ ev.added \in leaf.arg
      \/ leaf.gate = "sender" /\ SenderMatches(leaf, ev)
      \/ leaf.gate = "passthrough" /\ (message => ~ev.bot)

\* The call a leaf makes.
Calls(leaf, ev) ==
  IF leaf.gate = "classifier" /\ ev.kind = "message" THEN {leaf.call} ELSE {}

\* The children in order up to the first that decides, with the calls made on
\* the way.  An empty AND passes, an empty OR does not.
Combine(isAnd, of) ==
  LET deciding == {i \in DOMAIN of : of[i].trigger # isAnd}
      reached == {i \in DOMAIN of : \A j \in deciding : i <= j}
  IN  [trigger |-> (deciding # {}) # isAnd, asked |-> UNION {of[i].asked : i \in reached}]

\* evaluateNode.
Evaluate[node \in Node] ==
  [ev \in Sort |-> [answers \in Answers |->
    IF IsLeaf(node)
    THEN [trigger |-> Decide(node, ev, answers), asked |-> Calls(node, ev)]
    ELSE Combine(IsAnd(node),
           [i \in DOMAIN Children(node) |-> Evaluate[Children(node)[i]][ev][answers]])]]

Root(nodes) == [or |-> nodes]

\* evaluateWhen: the list at the top is an OR.
EvaluateWhen(nodes, ev, answers) == Evaluate[Root(nodes)][ev][answers]

\* buildWhen builds the whole tree and throws when a classifier in it has no
\* client.
Builds[node \in Node] ==
  [client \in BOOLEAN |->
    IF IsLeaf(node) THEN node.gate = "classifier" => client
    ELSE \A i \in DOMAIN Children(node) : Builds[Children(node)[i]][client]]

\* defaultWhen.
DefaultWhen(isDm) ==
  IF isDm THEN <<>> ELSE <<[gate |-> "mention", arg |-> {}]>>

-----------------------------------------------------------------------------
(* The meaning of the tree, without an order: what config.md section 4     *)
(* promises to whoever writes it.                                          *)

\* No call is a yes.
NoAnswers == [c \in Classifier |-> "no"]

\* Does the tree hold of an event when these classifiers do?
Means[node \in Node] ==
  [ev \in Sort |-> [yes \in SUBSET Classifier |->
    IF IsLeaf(node)
    THEN IF node.gate = "classifier" THEN ev.kind = "message" /\ node.call \in yes
         ELSE Decide(node, ev, NoAnswers)
    ELSE IF IsAnd(node)
    THEN \A i \in DOMAIN Children(node) : Means[Children(node)[i]][ev][yes]
    ELSE \E i \in DOMAIN Children(node) : Means[Children(node)[i]][ev][yes]]]
=============================================================================
