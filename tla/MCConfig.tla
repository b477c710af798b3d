------------------------------ MODULE MCConfig ------------------------------
EXTENDS Config, TLC

CONSTANTS l1, l2

MCEnv == [SET |-> "value", EMPTY |-> ""]

Rule(key) == [array |-> "allowedDomains", key |-> key, entry |-> key]
Credential(mode) == [array |-> "envVars", key |-> "TOKEN", entry |-> mode]
Rules(rules) == [kind |-> "rules", rules |-> rules]

Top(fields, sandbox) == [fields |-> fields, sandbox |-> sandbox]
EntryFor(id, part, fields, sandbox) ==
  [channel |-> id, part |-> part, fields |-> fields, sandbox |-> sandbox]
Value(parts) == [x \in parts |-> "set"]

DmEntry == EntryFor("dm", [trigger |-> Value({"when"})],
                    [model |-> "dm/model"], NoSandbox)

\* Every way the layers may write and overwrite the keys of the two parts.
Layered ==
  {[agent |-> Top(a, NoSandbox),
    channels |-> <<EntryFor("default", p, b, NoSandbox)>> \o o] :
    a \in {<<>>, [model |-> "top/model", systemPrompt |-> PromptRef]},
    b \in {<<>>, [model |-> "base/model"]},
    p \in {<<>>, [trigger |-> Value({"when", "whileRunning"}),
                  session |-> Value({"mode"})]},
    o \in {<<>>, <<DmEntry>>} \cup
          {<<EntryFor("C1", part, fields, NoSandbox), DmEntry>> :
             part \in {[trigger |-> Value({"when"})],
                       [session |-> Value({"affinity"}), reply |-> Value({"mode"})]},
             fields \in {<<>>, [systemPrompt |-> "inline"]}}}

\* Every combination of three layers of the sandbox.
Sandboxed ==
  {[agent |-> Top(<<>>, t),
    channels |-> <<EntryFor("default", <<>>, <<>>, b),
                   EntryFor("C1", <<>>, <<>>, o)>>] :
    t \in {NoSandbox, SandboxOff, Rules({Rule("a"), Credential("deny")}),
           [kind |-> "path", rules |-> {}]},
    b \in {NoSandbox, SandboxOff, Rules({Rule("b")})},
    o \in {NoSandbox, SandboxOff, Rules({Rule("a"), Rule("c")}),
           Rules({Credential("mask")})}}

Ref(name, dflt) == [name |-> name, dflt |-> dflt]

\* A reference that resolves, one with a default, and one that does not.
WithEnv ==
  {[agent |-> Top(<<>>, NoSandbox),
    channels |-> <<EntryFor("default", <<>>, <<>>, NoSandbox),
                   EntryFor("C1", <<>>, [env |-> [VAR |-> ref]], NoSandbox)>>] :
    ref \in {Ref("SET", None), Ref("EMPTY", None), Ref("EMPTY", "default"),
             Ref("UNSET", "default"), Ref("UNSET", None)}}

Other ==
  {[agent |-> Top(<<>>, NoSandbox), channels |-> <<DmEntry>>],
   [agent |-> Top(<<>>, NoSandbox),
    channels |-> <<EntryFor("default", <<>>, <<>>, NoSandbox),
                   EntryFor("C1", [trigger |-> Value({"when"})], <<>>, NoSandbox),
                   EntryFor("C1", [reply |-> Value({"mode"})], <<>>, NoSandbox)>>]}

WithFiles ==
  [agent |-> Top([systemPrompt |-> PromptRef], [kind |-> "path", rules |-> {}]),
   channels |-> <<EntryFor("default", <<>>, <<>>, NoSandbox)>>]

MCEdited == {WithFiles, Missing}

MCContents == Layered \cup Sandboxed \cup WithEnv \cup Other \cup {Broken} \cup MCEdited

MCRuleFiles == {{Rule("a")}, Broken}

Lookups == Permutations(Lookup)
=============================================================================
