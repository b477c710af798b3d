------------------------------- MODULE Config -------------------------------
(***************************************************************************)
(* FileConfigSource of src/config/config-source.ts: every message resolves *)
(* the settings of its Channel from the configuration file, read again     *)
(* when its mtime is not the one of the cached content.  Lookups run       *)
(* concurrently and wait for stat, for each read and for their own turn,   *)
(* while the files are edited: the configuration file, the file of sandbox *)
(* rules it may name (inlined when the configuration file is loaded and    *)
(* cached with it) and a prompt file (read by every lookup).               *)
(*                                                                         *)
(* An edit is a write of one content: an editor that truncates and writes  *)
(* makes two.  Two edits of one tick of the file system's clock leave one  *)
(* mtime.                                                                  *)
(***************************************************************************)
EXTENDS ConfigMerge

CONSTANTS
  Lookup,     \* lookups in flight
  ChannelIds, \* what channel(id) is called with
  Contents,   \* contents the configuration file may have
  Edited,     \* bound: those that an edit writes and overwrites
  RuleFiles,  \* contents of the file of sandbox rules
  MaxWrites,  \* bound on the contents of the configuration file
  MaxPrompts, \* bound on those of the prompt file
  MaxTime     \* bound on the clock

ASSUME BoundsAssumption ==
  MaxWrites \in Nat /\ MaxPrompts \in Nat /\ MaxTime \in Nat
ASSUME NoneAssumption == None \notin Nat
ASSUME ContentsAssumption ==
  \A content \in Contents \ {Missing, Broken} : SchemasAccept(content)

VARIABLES
  now,      \* the clock of the file system
  writes,   \* contents of the configuration file with their mtimes
  ruleFile, \* content of the file of rules
  prompts,  \* the number of changes of the prompt file, names its content
  noPrompt, \* the last change removed it
  cache,    \* this.cache, with the number of the write it was loaded from
  call      \* the lookups

vars == <<now, writes, ruleFile, prompts, noPrompt, cache, call>>

Current == writes[Len(writes)]

Steps == {"idle", "stat", "check", "read", "rules", "store", "inline", "done"}

\* began, beganPrompts: the contents that were there when the lookup began;
\* mtime: what stat said; version: the write the content comes from.
Idle == [step |-> "idle", id |-> None, began |-> 0, beganPrompts |-> 0,
         mtime |-> None, version |-> 0, file |-> None, result |-> None,
         prompt |-> 0]

Init ==
  /\ now = 0
  /\ writes \in {<<[content |-> c, mtime |-> 0]>> : c \in Contents}
  /\ ruleFile \in RuleFiles
  /\ prompts = 1
  /\ noPrompt = FALSE
  /\ cache = None
  /\ call = [l \in Lookup |-> Idle]

-----------------------------------------------------------------------------
(* The file system.                                                        *)

Tick ==
  /\ now < MaxTime
  /\ now' = now + 1
  /\ UNCHANGED <<writes, ruleFile, prompts, noPrompt, cache, call>>

Write(content) ==
  /\ Len(writes) < MaxWrites
  /\ {Current.content, content} \subseteq Edited
  /\ writes' = Append(writes, [content |-> content, mtime |-> now])
  /\ UNCHANGED <<now, ruleFile, prompts, noPrompt, cache, call>>

WriteRules(rules) ==
  /\ rules # ruleFile
  /\ ruleFile' = rules
  /\ UNCHANGED <<now, writes, prompts, noPrompt, cache, call>>

WritePrompt(removed) ==
  /\ prompts < MaxPrompts
  /\ prompts' = prompts + 1
  /\ noPrompt' = removed
  /\ UNCHANGED <<now, writes, ruleFile, cache, call>>

-----------------------------------------------------------------------------
(* channel(id).                                                            *)

Begin(l, id) ==
  /\ call[l].step = "idle"
  /\ call' = [call EXCEPT ![l] =
       [Idle EXCEPT !.step = "stat", !.id = id,
                    !.began = Len(writes), !.beganPrompts = prompts]]
  /\ UNCHANGED <<now, writes, ruleFile, prompts, noPrompt, cache>>

\* A stat that fails goes on to the read, and what is read is not cached.
Stat(l) ==
  /\ call[l].step = "stat"
  /\ call' = [call EXCEPT ![l] =
       IF Current.content = Missing
       THEN [@ EXCEPT !.step = "read"]
       ELSE [@ EXCEPT !.step = "check", !.mtime = Current.mtime]]
  /\ UNCHANGED <<now, writes, ruleFile, prompts, noPrompt, cache>>

IsCached(l) == cache # None /\ cache.mtime = call[l].mtime

CheckCache(l) ==
  /\ call[l].step = "check"
  /\ call' = [call EXCEPT ![l] =
       IF IsCached(l)
       THEN [@ EXCEPT !.step = "inline", !.file = cache.file,
                      !.version = cache.version]
       ELSE [@ EXCEPT !.step = "read"]]
  /\ UNCHANGED <<now, writes, ruleFile, prompts, noPrompt, cache>>

Fail(c) == [c EXCEPT !.step = "done", !.result = Failed]

\* The read of the configuration file.  Its validation and, without a file of
\* rules, the whole load end in the same turn.
Loaded(l, content, rules, version) ==
  LET file == LoadChannelConfigFile(content, rules, TRUE)
  IN  IF file = Failed THEN Fail([call[l] EXCEPT !.version = version])
      ELSE [call[l] EXCEPT !.step = "store", !.file = file, !.version = version]

Read(l) ==
  /\ call[l].step = "read"
  /\ call' = [call EXCEPT ![l] =
       IF Current.content \notin {Missing, Broken} /\ NamesRuleFile(Current.content)
       THEN [@ EXCEPT !.step = "rules", !.version = Len(writes)]
       ELSE Loaded(l, Current.content, {}, Len(writes))]
  /\ UNCHANGED <<now, writes, ruleFile, prompts, noPrompt, cache>>

ReadRules(l) ==
  /\ call[l].step = "rules"
  /\ call' = [call EXCEPT ![l] =
       Loaded(l, writes[call[l].version].content, ruleFile, call[l].version)]
  /\ UNCHANGED <<now, writes, ruleFile, prompts, noPrompt, cache>>

\* Mutant: the mtime after the load, that of a content that was not read.
CacheKeyAtStore(l) ==
  IF Current.content = Missing THEN call[l].mtime ELSE Current.mtime

CacheKey(l) == call[l].mtime

Store(l) ==
  /\ call[l].step = "store"
  /\ cache' = IF call[l].mtime = None THEN cache
              ELSE [mtime |-> CacheKey(l), file |-> call[l].file,
                    version |-> call[l].version]
  /\ call' = [call EXCEPT ![l].step = "inline"]
  /\ UNCHANGED <<now, writes, ruleFile, prompts, noPrompt>>

\* The merge and the read of the prompt file, if the merged settings name it.
PromptRead == IF noPrompt THEN Missing ELSE prompts

Inline(l) ==
  LET resolved == ResolveChannelConfig(call[l].file, call[l].id)
  IN  /\ call[l].step = "inline"
      /\ call' = [call EXCEPT ![l] =
           [@ EXCEPT !.step = "done", !.prompt = prompts,
                     !.result = ResolveFileReferences(resolved, PromptRead)]]
      /\ UNCHANGED <<now, writes, ruleFile, prompts, noPrompt, cache>>

Return(l) ==
  /\ call[l].step = "done"
  /\ call' = [call EXCEPT ![l] = Idle]
  /\ UNCHANGED <<now, writes, ruleFile, prompts, noPrompt, cache>>

Next ==
  \/ Tick
  \/ \E content \in Contents : Write(content)
  \/ \E rules \in RuleFiles : WriteRules(rules)
  \/ \E removed \in BOOLEAN : WritePrompt(removed)
  \/ \E l \in Lookup :
       \/ \E id \in ChannelIds : Begin(l, id)
       \/ Stat(l)
       \/ CheckCache(l)
       \/ Read(l)
       \/ ReadRules(l)
       \/ Store(l)
       \/ Inline(l)
       \/ Return(l)

Spec == Init /\ [][Next]_vars
-----------------------------------------------------------------------------
Succeeded(l) == call[l].step = "done" /\ call[l].result # Failed

(* A lookup never answers from a content older than the one that was there *)
(* when it began, whatever the other lookups cache meanwhile, unless an    *)
(* edit left the mtime of the older one (config.md 3.4); and the prompt    *)
(* file is as new as the lookup.                                           *)
Fresh ==
  \A l \in Lookup : Succeeded(l) =>
    /\ call[l].version < call[l].began =>
         writes[call[l].version].mtime = writes[call[l].began].mtime
    /\ ReadsPrompt(ResolveChannelConfig(call[l].file, call[l].id)) =>
         call[l].prompt >= call[l].beganPrompts

-----------------------------------------------------------------------------
(* What config.md 3.2 and 3.3 promise, said key by key: the last layer     *)
(* that writes a key gives its value and its label.                        *)

Layer(entry, label) == [part |-> entry.part, fields |-> entry.fields,
                        sandbox |-> entry.sandbox, label |-> label]

EntryLayers(file, id, baseLabel, ownLabel) ==
  <<Layer(Entry(file, IF id = "dm" THEN "dm" ELSE "default"), baseLabel)>> \o
  IF id = "dm" \/ EntriesOf(file, id) = {} THEN <<>>
  ELSE <<Layer(Entry(file, id), ownLabel)>>

PartLayers(file, id) ==
  EntryLayers(file, id, IF id = "dm" THEN "dm" ELSE "default", "channel")

AgentLayers(file, id) ==
  <<[part |-> <<>>, fields |-> file.agent.fields,
     sandbox |-> file.agent.sandbox, label |-> "default_agent"]>>
  \o EntryLayers(file, id, "channel_agent", "channel_agent")

LastWriter(writers) == CHOOSE i \in writers : \A j \in writers : j <= i

PartWriters(layers, k) == {i \in DOMAIN layers : k \in DOMAIN layers[i].part}
FieldWriters(layers, k) == {i \in DOMAIN layers : k \in DOMAIN layers[i].fields}
SandboxWriters(layers) == {i \in DOMAIN layers : layers[i].sandbox.kind # "unset"}

LabelOf(layers, writers) ==
  IF writers = {} THEN "code_default" ELSE layers[LastWriter(writers)].label

ExpectedSource(file, id, row) ==
  LET parts == PartLayers(file, id)
      agents == AgentLayers(file, id)
      writers == PartWriters(parts, row.key)
  IN  IF row.key = "sandbox" THEN LabelOf(agents, SandboxWriters(agents))
      ELSE IF row.key \notin DOMAIN Parts
      THEN LabelOf(agents, FieldWriters(agents, row.key))
      ELSE IF row.part = "whole" THEN LabelOf(parts, writers)
      ELSE IF writers # {} /\ row.part \in
                DOMAIN parts[LastWriter(writers)].part[row.key]
      THEN LabelOf(parts, writers) ELSE "code_default"

(* The settings of a Channel are, key by key, those of the last layer that *)
(* writes the key, a DM takes nothing from default, and both forms of dump *)
(* name that layer.                                                        *)
ResolvedAsWritten ==
  \A l \in Lookup : Succeeded(l) /\ call[l].result # None =>
    LET content == writes[call[l].version].content
        result == call[l].result
        parts == PartLayers(content, call[l].id)
        agents == AgentLayers(content, call[l].id)
        dump == RunDump(content, ruleFile, call[l].id)
    IN  /\ \A k \in DOMAIN Parts :
             LET writers == PartWriters(parts, k)
             IN  IF writers = {} THEN k \notin DOMAIN result.part.value
                 ELSE result.part.value[k] = parts[LastWriter(writers)].part[k]
        /\ \A k \in {"model", "systemPrompt"} :
             LET writers == FieldWriters(agents, k)
             IN  IF writers = {} THEN k \notin DOMAIN result.fields.value
                 ELSE IF k = "systemPrompt"
                         /\ agents[LastWriter(writers)].fields[k] = PromptRef
                 THEN result.fields.value[k] = call[l].prompt
                 ELSE result.fields.value[k] = agents[LastWriter(writers)].fields[k]
        /\ dump # Failed =>
             \A json \in BOOLEAN :
               \A row \in FormatEffectiveConfig(dump, json, {"model", "env"}) :
                 row.source = ExpectedSource(content, call[l].id, row)

(* A Channel adds to the rules of the sandbox or turns it off for itself:  *)
(* no rule of the top level is lost, and no addition is written in vain    *)
(* (config.md 3.2).                                                        *)
SandboxOnlyGrows ==
  \A l \in Lookup : Succeeded(l) /\ call[l].result # None =>
    LET layers == AgentLayers(call[l].file, call[l].id)
        sandbox == call[l].result.sandbox.value
        added == {i \in SandboxWriters(layers) : layers[i].sandbox.kind = "rules"}
    IN  IF sandbox.kind = "rules"
        THEN sandbox.rules = UNION {layers[i].sandbox.rules : i \in added}
        ELSE \A i \in added : i < LastWriter(SandboxWriters(layers))
=============================================================================
