---------------------------- MODULE ConfigMerge ----------------------------
(***************************************************************************)
(* The pure part of src/config: how the blocks agent and channels of the   *)
(* configuration file become the effective settings of one Channel         *)
(* (config-source.ts, sandbox-config.ts, root-config.ts, env-ref.ts), and  *)
(* what the command dump says of them (dump.ts).                           *)
(*                                                                         *)
(* The content of a file is a record [agent, channels].  A layer (the      *)
(* agent block, or an entry of channels, a sequence as in the file) is a   *)
(* partial function from the keys it writes to values, and sandbox, which  *)
(* merges by a rule of its own, is [kind, rules] with kind one of          *)
(* "unset", "off", "rules" and, in the agent block, "path".  A rule is     *)
(* [array, key, entry]: an element of one of the eight arrays, a string    *)
(* (then entry = key) or a credential named by its key.                    *)
(***************************************************************************)
EXTENDS Naturals, Sequences

CONSTANTS
  None,    \* undefined, and the null that a DM without an entry resolves to
  Failed,  \* an exception
  Missing, \* the content of a file that is not there
  Broken,  \* the content of a file that does not parse or validate
  Env      \* the environment of the process: a partial function from names

NoSandbox == [kind |-> "unset", rules |-> {}]
SandboxOff == [kind |-> "off", rules |-> {}]

\* The keys of the Channel part, and the parts of their values that a dump
\* names.  Such a value is a function from the parts it writes.
Parts == [trigger |-> {"allowBots", "whileRunning"},
          session |-> {"mode", "affinity", "idleResetMinutes"},
          reply |-> {"mode"}]

\* The strict schemas: the two parts have no key in common, sandbox is not
\* among the plain keys, and only the agent block may name a file of rules.
AgentIsValid(layer, kinds) ==
  /\ DOMAIN layer.fields \cap (DOMAIN Parts \cup {"sandbox"}) = {}
  /\ layer.sandbox.kind \in kinds

SchemasAccept(content) ==
  /\ AgentIsValid(content.agent, {"unset", "off", "rules", "path"})
  /\ Len(content.channels) \in Nat
  /\ DOMAIN content.channels = 1..Len(content.channels)
  /\ \A i \in DOMAIN content.channels :
       /\ AgentIsValid(content.channels[i], {"unset", "off", "rules"})
       /\ DOMAIN content.channels[i] = {"channel", "part", "fields", "sandbox"}
       /\ DOMAIN content.channels[i].part \subseteq DOMAIN Parts

-----------------------------------------------------------------------------
(* ${env.NAME} and ${env.NAME:-dflt}; a literal is a reference to no name. *)

Resolves(ref) == ref.dflt = None => ref.name \in DOMAIN Env

ResolveString(ref) ==
  LET set == ref.name \in DOMAIN Env
  IN  IF ref.dflt # None /\ (~set \/ Env[ref.name] = "")
      THEN ref.dflt ELSE Env[ref.name]

\* Only the values of the key env are resolved.
EnvResolves(fields) ==
  "env" \in DOMAIN fields =>
    \A var \in DOMAIN fields["env"] : Resolves(fields["env"][var])

ResolveAgentEnvRefs(fields, resolveEnv) ==
  [k \in DOMAIN fields |->
     IF k = "env" /\ resolveEnv
     THEN [var \in DOMAIN fields[k] |-> ResolveString(fields[k][var])]
     ELSE fields[k]]

-----------------------------------------------------------------------------
(* Loading the file.                                                       *)

\* agent.sandbox: the rules of the file it names take the place of the path.
InlineRules(sandbox, ruleFile) ==
  IF sandbox.kind = "path"
  THEN [kind |-> "rules", rules |-> ruleFile] ELSE sandbox

NamesRuleFile(content) == content.agent.sandbox.kind = "path"

Validates(content) ==
  /\ content \notin {Missing, Broken}
  /\ \E i \in DOMAIN content.channels : content.channels[i].channel = "default"

LoadChannelConfigFile(content, ruleFile, resolveEnv) ==
  LET loadable ==
        /\ Validates(content)
        /\ resolveEnv =>
             /\ EnvResolves(content.agent.fields)
             /\ \A i \in DOMAIN content.channels :
                  EnvResolves(content.channels[i].fields)
        /\ NamesRuleFile(content) => ruleFile \notin {Missing, Broken}
  IN  IF ~loadable THEN Failed
      ELSE [agent |->
              [fields |-> ResolveAgentEnvRefs(content.agent.fields, resolveEnv),
               sandbox |-> InlineRules(content.agent.sandbox, ruleFile)],
            channels |-> [i \in DOMAIN content.channels |->
              [content.channels[i] EXCEPT
                 !.fields = ResolveAgentEnvRefs(@, resolveEnv)]]]

-----------------------------------------------------------------------------
(* The merge.  A merged value carries the source of each of its keys.      *)

Labelled(layer, source) ==
  [value |-> layer, source |-> [k \in DOMAIN layer |-> source]]

\* What own writes replaces what base has; nothing is merged within a key.
Over(own, base) ==
  [k \in DOMAIN own \cup DOMAIN base |->
     IF k \in DOMAIN own THEN own[k] ELSE base[k]]

\* Mutant: a key that own overwrites keeps the label of the layer below.
MergeLayerOldLabel(base, own, ownSource) ==
  [value |-> Over(own, base.value),
   source |-> Over(base.source, [k \in DOMAIN own |-> ownSource])]

MergeLayer(base, own, ownSource) ==
  [value |-> Over(own, base.value),
   source |-> Over([k \in DOMAIN own |-> ownSource], base.source)]

MergeChannelPart(base, baseSource, own) ==
  MergeLayer(Labelled(base, baseSource), own, "channel")

Clashes(rules, additions) ==
  \E r \in rules, a \in additions :
    r.array = a.array /\ r.key = a.key /\ r.entry # a.entry

\* Mutant: the sandbox is replaced like every other key.
MergeSandboxReplaced(rules, additions) == additions

MergeSandboxAdditions(rules, additions) ==
  IF Clashes(rules, additions) THEN Failed ELSE rules \cup additions

\* One layer of the sandbox: unset keeps, off replaces, rules are added, and
\* there must be something to add them to.
MergeSandboxLayer(current, additions) ==
  IF current = Failed \/ additions.kind = "unset" THEN current
  ELSE IF additions.kind = "off"
  THEN [value |-> SandboxOff, source |-> "channel_agent"]
  ELSE IF \/ current.value.kind # "rules"
          \/ MergeSandboxAdditions(current.value.rules, additions.rules) = Failed
  THEN Failed
  ELSE [value |-> [kind |-> "rules", rules |->
          MergeSandboxAdditions(current.value.rules, additions.rules)],
        source |-> "channel_agent"]

MergeAgentConfig(default, base, own) ==
  LET stage1 == MergeLayer(Labelled(default.fields, "default_agent"),
                           base.fields, "channel_agent")
      sandbox == [value |-> default.sandbox,
                  source |-> IF default.sandbox.kind = "unset"
                             THEN None ELSE "default_agent"]
  IN  [fields |-> MergeLayer(stage1, own.fields, "channel_agent"),
       sandbox |-> MergeSandboxLayer(
                     MergeSandboxLayer(sandbox, base.sandbox), own.sandbox)]

\* find: of two entries of one name the first counts.
EntriesOf(file, id) ==
  {i \in DOMAIN file.channels :
     /\ file.channels[i].channel = id
     /\ \A j \in 1..(i - 1) : file.channels[j].channel # id}

Entry(file, id) == file.channels[CHOOSE i \in EntriesOf(file, id) : TRUE]

NoEntry == [part |-> <<>>, fields |-> <<>>, sandbox |-> NoSandbox]

\* A DM starts from the entry dm alone, a channel from default and its own.
ResolveChannelConfig(file, id) ==
  LET baseSource == IF id = "dm" THEN "dm" ELSE "default"
      base == Entry(file, baseSource)
      own == IF id # "dm" /\ EntriesOf(file, id) # {}
             THEN Entry(file, id) ELSE NoEntry
      agent == MergeAgentConfig(file.agent, base, own)
  IN  IF EntriesOf(file, baseSource) = {} THEN None
      ELSE IF agent.sandbox = Failed THEN Failed
      ELSE [part |-> MergeChannelPart(base.part, baseSource, own.part),
            fields |-> agent.fields, sandbox |-> agent.sandbox]

\* The one file reference of the model, and its replacement by the content.
PromptRef == "./prompt.md"

ReadsPrompt(resolved) ==
  /\ resolved \notin {None, Failed}
  /\ "systemPrompt" \in DOMAIN resolved.fields.value
  /\ resolved.fields.value["systemPrompt"] = PromptRef

ResolveFileReferences(resolved, prompt) ==
  IF ~ReadsPrompt(resolved) THEN resolved
  ELSE IF prompt = Missing THEN Failed
  ELSE [resolved EXCEPT !.fields.value["systemPrompt"] = prompt]

-----------------------------------------------------------------------------
(* dump: each row names a key, a part of its value ("whole" for all) and  *)
(* the source.                                                             *)

HasPart(merged, key, part) ==
  key \in DOMAIN merged.value /\ part \in DOMAIN merged.value[key]

FieldSource(merged, key, isSet) ==
  IF isSet THEN merged.source[key] ELSE "code_default"

Row(merged, key, part) ==
  [key |-> key, part |-> part,
   source |-> FieldSource(merged, key, HasPart(merged, key, part))]

WholeRow(merged, key) ==
  [key |-> key, part |-> "whole",
   source |-> FieldSource(merged, key, key \in DOMAIN merged.value)]

SandboxRow(sandbox) ==
  [key |-> "sandbox", part |-> "whole",
   source |-> IF sandbox.value.kind = "unset"
              THEN "code_default" ELSE sandbox.source]

\* In the text these rows are always there, the others when they are set.
AlwaysShown == {<<"trigger", "whileRunning">>, <<"session", "mode">>, <<"reply", "mode">>}

BuildChannelFields(part) ==
  {WholeRow(part, "trigger")} \cup
  {Row(part, kp[1], kp[2]) : kp \in
     {x \in UNION {{k} \X Parts[k] : k \in DOMAIN Parts} :
        x \in AlwaysShown \/ HasPart(part, x[1], x[2])}}

BuildAgentFields(fields, sandbox) ==
  {WholeRow(fields, k) : k \in DOMAIN fields.value \cup {"model", "memory"}}
  \cup {SandboxRow(sandbox)}

FormatJson(resolved, agentKeys) ==
  (UNION {{Row(resolved.part, k, p) : p \in Parts[k]} : k \in DOMAIN Parts})
  \cup {WholeRow(resolved.fields, k) : k \in agentKeys}
  \cup {SandboxRow(resolved.sandbox)}

FormatPretty(resolved) ==
  BuildChannelFields(resolved.part)
  \cup BuildAgentFields(resolved.fields, resolved.sandbox)

\* A DM without an entry has no rows, only the note of the code default.
FormatEffectiveConfig(resolved, json, agentKeys) ==
  IF resolved = None THEN {}
  ELSE IF json THEN FormatJson(resolved, agentKeys) ELSE FormatPretty(resolved)

\* The command: it loads the file again and leaves ${env.X} as written.
RunDump(content, ruleFile, id) ==
  LET file == LoadChannelConfigFile(content, ruleFile, FALSE)
  IN  IF file = Failed THEN Failed ELSE ResolveChannelConfig(file, id)
=============================================================================
