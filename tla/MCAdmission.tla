---------------------------- MODULE MCAdmission ----------------------------
(* Events of every kind that the gates tell apart, and two configurations   *)
(* whose trees nest AND and OR around classifiers.                         *)
EXTENDS Admission, TLC

CONSTANTS e1, e2

Symmetry == Permutations(Event)

Message(bot, mention, word, cmd) ==
  [kind |-> "message", bot |-> bot, mention |-> mention, sender |-> "u1",
   word |-> word, added |-> "", cmd |-> cmd]

MCSort ==
  {Message(FALSE, TRUE, "", "none"), Message(FALSE, FALSE, "go", "none"),
   Message(TRUE, FALSE, "go", "none"),
   Message(FALSE, TRUE, "", "newRest"), Message(FALSE, TRUE, "", "new"),
   Message(FALSE, TRUE, "", "disable"), Message(FALSE, TRUE, "", "enable"),
   [kind |-> "reaction", bot |-> FALSE, mention |-> FALSE, sender |-> "u1",
    word |-> "", added |-> "eyes", cmd |-> "none"]}

Leaf(kind, arg) == [gate |-> kind, arg |-> arg]
Senders(is, name) == [gate |-> "sender", is |-> is, name |-> name]
Classify(call) == [gate |-> "classifier", call |-> call]

MCClassifier == {"c1", "c2"}

MCConfig ==
  {[allowBots |-> FALSE, whileRunning |-> "passthrough", debounce |-> TRUE,
    when |-> <<Leaf("mention", {}), Leaf("reaction", {"eyes"}),
               [and |-> <<Leaf("passthrough", {}), Classify("c1")>>]>>],
   [allowBots |-> TRUE, whileRunning |-> "evaluate", debounce |-> FALSE,
    when |-> <<[and |-> <<[or |-> <<Classify("c1"), Leaf("keyword", {"go"}), Classify("c2")>>],
                          Senders({"bot"}, {})>>],
               [and |-> <<Leaf("mention", {}), Senders({}, {"u1"})>>]>>]}

\* The nodes of these trees, by their height.
RECURSIVE HeightOf(_)
HeightOf(node) ==
  IF IsLeaf(node) \/ Children(node) = <<>> THEN 0
  ELSE LET below == {HeightOf(Children(node)[i]) : i \in DOMAIN Children(node)}
       IN  1 + CHOOSE h \in below : \A other \in below : other <= h

RECURSIVE Below(_)
Below(node) ==
  {node} \cup IF IsLeaf(node) THEN {}
              ELSE UNION {Below(Children(node)[i]) : i \in DOMAIN Children(node)}

MCNode == UNION {Below(Root(c.when)) : c \in MCConfig}
            \cup Below(Root(DefaultWhen(IsDm)))
MCHeight == [node \in MCNode |-> HeightOf(node)]
=============================================================================
