--------------------------- MODULE ChannelProofs ---------------------------
(***************************************************************************)
(* Proofs about a channel: the settings it has (Config) and the events it  *)
(* admits (Admission, with the trees of Gate), for any contents of the     *)
(* files that the schemas accept, any trees, and any number of lookups,    *)
(* edits and events.                                                       *)
(*                                                                         *)
(* What the cache may answer is an argument on mtimes.  They grow with the *)
(* writes; a content is cached under an mtime seen before it was read,     *)
(* which is at most its own; a lookup compares it with an mtime it saw     *)
(* after it began, which is at least that of the content that was there    *)
(* then.                                                                   *)
(*                                                                         *)
(* What the settings are is an argument on layers.  A Channel has two or   *)
(* three; the lemmas say of each merge which layer's value and label it    *)
(* keeps, and that loading a file does not change who writes what.  The    *)
(* invariant that goes with them says only that what is cached and         *)
(* answered is a load of a content that was written.                       *)
(*                                                                         *)
(* What a tree of gates decides is an induction on its height, in the form *)
(* of a least counterexample, after a proof that the recursive functions   *)
(* of Gate exist.  What becomes of an event is an invariant on the place   *)
(* of its handling, on what is held back in a disabled channel, and on who *)
(* has the lease.                                                          *)
(***************************************************************************)
EXTENDS Config, Admission, WellFoundedInduction, TLAPS

Mtime(v) == writes[v].mtime
LastMtime == Current.mtime

WritesGrow ==
  /\ now \in Nat
  /\ writes \in Seq([content : Contents, mtime : Nat]) /\ Len(writes) >= 1
  /\ \A v, w \in 1..Len(writes) : v <= w => Mtime(v) <= Mtime(w)
  /\ \A v \in 1..Len(writes) : Mtime(v) \in Nat /\ Mtime(v) <= now

CacheIsOld ==
  cache # None =>
    /\ cache.version \in 1..Len(writes)
    /\ cache.mtime \in Nat /\ cache.mtime <= Mtime(cache.version)

\* A content that answers a lookup that began at a later one has its mtime.
Answerable(v, began) ==
  v \in 1..Len(writes) /\ (v < began => Mtime(v) = Mtime(began))

Fields == {"step", "id", "began", "beganPrompts", "mtime", "version", "file",
           "result", "prompt"}

\* What a lookup knows, by the place where it is.
CallIs(c) ==
  /\ DOMAIN c = Fields /\ c.step \in Steps
  /\ c.step # "idle" => c.began \in 1..Len(writes)
  /\ c.beganPrompts \in Nat /\ c.beganPrompts <= prompts
  /\ c.step \in {"check", "read", "rules", "store"} /\ c.mtime # None =>
       /\ c.mtime \in Nat
       /\ Mtime(c.began) <= c.mtime /\ c.mtime <= LastMtime
  /\ c.step = "stat" => c.mtime = None
  /\ c.step = "check" => c.mtime # None
  /\ c.step \in {"rules", "store"} =>
       /\ c.version \in c.began..Len(writes)
       /\ c.mtime # None => c.mtime <= Mtime(c.version)
  /\ c.step = "inline" \/ (c.step = "done" /\ c.result # Failed) =>
       Answerable(c.version, c.began)
  /\ c.step = "done" /\ c.result # Failed => c.prompt >= c.beganPrompts

CallsAre == DOMAIN call = Lookup /\ \A l \in Lookup : CallIs(call[l])

PromptsType == prompts \in Nat

Inv == WritesGrow /\ PromptsType /\ CacheIsOld /\ CallsAre

\* What is known stays known while the files are written.
LEMMA EditsKeep ==
  ASSUME Inv, WritesGrow', PromptsType', prompts <= prompts',
         Len(writes) <= Len(writes'),
         \A v \in 1..Len(writes) : writes'[v] = writes[v]
  PROVE  /\ \A c : CallIs(c) => CallIs(c)'
         /\ cache' = cache => CacheIsOld'
<1> USE DEF Inv, WritesGrow, PromptsType
<1>1. \A v \in 1..Len(writes) : Mtime(v)' = Mtime(v) /\ v \in 1..Len(writes')
  BY DEF Mtime
<1>2. LastMtime \in Nat /\ LastMtime' \in Nat
  <2>1. Len(writes) \in 1..Len(writes) /\ Len(writes') \in 1..Len(writes')
    OBVIOUS
  <2> QED BY <2>1 DEF LastMtime, Current, Mtime
<1>3. \A v \in 1..Len(writes) : Mtime(v) \in Nat
  OBVIOUS
<1>4. LastMtime <= LastMtime'
  <2> DEFINE n == Len(writes)
             m == Len(writes')
  <2>1. n \in 1..m /\ m \in 1..m /\ n \in 1..n
    OBVIOUS
  <2>2. \A v, w \in 1..m : v <= w => writes'[v].mtime <= writes'[w].mtime
    BY DEF Mtime
  <2>3. writes'[n].mtime <= writes'[m].mtime
    BY <2>1, <2>2
  <2> QED BY <2>1, <2>3 DEF LastMtime, Current
<1>5. \A v, w : Answerable(v, w) /\ w \in 1..Len(writes) => Answerable(v, w)'
  BY <1>1 DEF Answerable
<1>6. ASSUME NEW c, CallIs(c) PROVE CallIs(c)'
  <2>1. c.step # "idle" => c.began \in 1..Len(writes) /\ c.began \in 1..Len(writes')
    BY <1>1, <1>6 DEF CallIs
  <2>2. ASSUME c.step \in {"check", "read", "rules", "store"}, c.mtime # None
        PROVE  c.mtime \in Nat /\ Mtime(c.began)' <= c.mtime
               /\ c.mtime <= LastMtime'
    <3>1. c.began \in 1..Len(writes) /\ c.mtime \in Nat
          /\ Mtime(c.began) <= c.mtime /\ c.mtime <= LastMtime
      BY <1>6, <2>2 DEF CallIs
    <3>2. Mtime(c.began)' = Mtime(c.began)
      BY <1>1, <3>1
    <3>3. c.mtime <= LastMtime'
      BY <1>2, <1>4, <3>1
    <3> QED BY <3>1, <3>2, <3>3
  <2>3. ASSUME c.step \in {"rules", "store"}
        PROVE  /\ c.version \in c.began..Len(writes')
               /\ c.mtime # None => c.mtime <= Mtime(c.version)'
    BY <1>1, <1>6, <2>1, <2>3 DEF CallIs
  <2>4. c.step = "inline" \/ (c.step = "done" /\ c.result # Failed) =>
          Answerable(c.version, c.began)'
    BY <1>5, <1>6, <2>1 DEF CallIs
  <2>5. c.beganPrompts \in Nat /\ c.beganPrompts <= prompts'
    BY <1>6 DEF CallIs
  <2> QED BY <1>6, <2>1, <2>2, <2>3, <2>4, <2>5 DEF CallIs, Steps
<1>7. cache' = cache => CacheIsOld'
  BY <1>1 DEF CacheIsOld
<1> QED BY <1>6, <1>7

\* A step of one lookup.
LEMMA LookupStep ==
  ASSUME Inv, NEW l \in Lookup, NEW c, call' = [call EXCEPT ![l] = c],
         CallIs(c), UNCHANGED <<now, writes, prompts>>, CacheIsOld'
  PROVE  Inv'
<1>1. \A d : CallIs(d) => CallIs(d)'
  BY DEF CallIs, Answerable, Mtime, LastMtime, Current
<1>2. WritesGrow' /\ PromptsType'
  BY DEF Inv, WritesGrow, PromptsType, Mtime
<1>3. CallsAre'
  BY <1>1 DEF Inv, CallsAre
<1> QED BY <1>2, <1>3 DEF Inv

\* channel(id), loadCached: each step of a lookup knows what CallIs says.
LEMMA CallStep ==
  ASSUME Inv, NEW l \in Lookup,
         \/ \E id \in ChannelIds : Begin(l, id)
         \/ Stat(l) \/ CheckCache(l) \/ Read(l) \/ ReadRules(l) \/ Inline(l)
         \/ Return(l)
  PROVE  Inv'
<1>0. CallIs(call[l]) /\ DOMAIN call = Lookup
  BY DEF Inv, CallsAre
<1>1. /\ Len(writes) \in Nat /\ Len(writes) >= 1 /\ prompts \in Nat
      /\ LastMtime = Mtime(Len(writes)) /\ LastMtime \in Nat
      /\ \A v \in 1..Len(writes) : Mtime(v) \in Nat /\ Mtime(v) <= LastMtime
  <2>1. Len(writes) \in Nat /\ Len(writes) >= 1 /\ prompts \in Nat
    BY DEF Inv, WritesGrow, PromptsType
  <2>2. LastMtime = Mtime(Len(writes)) /\ Len(writes) \in 1..Len(writes)
    BY <2>1 DEF LastMtime, Current, Mtime
  <2> QED BY <2>1, <2>2 DEF Inv, WritesGrow
<1>2. ASSUME UNCHANGED <<now, writes, prompts, cache>>, NEW c, CallIs(c),
             call' = [call EXCEPT ![l] = c]
      PROVE  Inv'
  BY <1>2, LookupStep DEF Inv, CacheIsOld, Mtime
<1>3. ASSUME NEW id \in ChannelIds, Begin(l, id) PROVE Inv'
  <2>1. PICK c : c = [Idle EXCEPT !.step = "stat", !.id = id,
                        !.began = Len(writes), !.beganPrompts = prompts]
    OBVIOUS
  <2>2. CallIs(c)
    BY <1>1, <2>1 DEF CallIs, Fields, Idle, Steps
  <2> QED BY <1>2, <1>3, <2>1, <2>2 DEF Begin
<1>4. ASSUME Stat(l) PROVE Inv'
  <2>1. PICK c : c = IF Current.content = Missing
                     THEN [call[l] EXCEPT !.step = "read"]
                     ELSE [call[l] EXCEPT !.step = "check", !.mtime = Current.mtime]
    OBVIOUS
  <2>2. CallIs(c)
    <3>1. call[l].step = "stat"
      BY <1>4 DEF Stat
    <3> QED BY <1>0, <1>1, <2>1, <3>1, NoneAssumption
            DEF CallIs, Fields, Steps, LastMtime
  <2> QED BY <1>0, <1>2, <1>4, <2>1, <2>2 DEF Stat
<1>5. ASSUME CheckCache(l) PROVE Inv'
  <2>0. call[l].step = "check"
    BY <1>5 DEF CheckCache
  <2>1. CASE IsCached(l)
    <3>1. PICK c : c = [call[l] EXCEPT !.step = "inline", !.file = cache.file,
                                       !.version = cache.version]
      OBVIOUS
    <3>2. /\ cache.version \in 1..Len(writes) /\ cache.mtime \in Nat
          /\ cache.mtime <= Mtime(cache.version) /\ cache.mtime = call[l].mtime
      BY <2>1 DEF IsCached, Inv, CacheIsOld
    <3>3. /\ call[l].began \in 1..Len(writes)
          /\ Mtime(call[l].began) <= call[l].mtime
      BY <1>0, <2>0 DEF CallIs
    <3>4. Answerable(cache.version, call[l].began)
      <4>1. cache.version < call[l].began =>
              Mtime(cache.version) <= Mtime(call[l].began)
        BY <1>1, <3>2, <3>3 DEF Inv, WritesGrow
      <4>2. Mtime(cache.version) \in Nat /\ Mtime(call[l].began) \in Nat
        BY <1>1, <3>2, <3>3
      <4> QED BY <3>2, <3>3, <4>1, <4>2 DEF Answerable
    <3>5. CallIs(c)
      BY <1>0, <2>0, <3>1, <3>3, <3>4 DEF CallIs, Fields, Steps
    <3> QED BY <1>2, <1>5, <2>1, <3>1, <3>5 DEF CheckCache
  <2>2. CASE ~IsCached(l)
    <3>1. PICK c : c = [call[l] EXCEPT !.step = "read"]
      OBVIOUS
    <3>2. CallIs(c)
      BY <1>0, <2>0, <3>1 DEF CallIs, Fields, Steps
    <3> QED BY <1>2, <1>5, <2>2, <3>1, <3>2 DEF CheckCache
  <2> QED BY <2>1, <2>2
<1>6. ASSUME NEW content, NEW rules, NEW v \in 1..Len(writes),
             call[l].step \in {"read", "rules"}, call[l].began <= v,
             call[l].mtime # None => call[l].mtime <= Mtime(v)
      PROVE  CallIs(Loaded(l, content, rules, v))
  <2>1. PICK c : c = Loaded(l, content, rules, v)
    OBVIOUS
  <2>2. call[l].began \in 1..Len(writes) /\ v \in call[l].began..Len(writes)
    BY <1>0, <1>1, <1>6 DEF CallIs
  <2>3. CASE c = Fail([call[l] EXCEPT !.version = v])
    BY <1>0, <1>6, <2>1, <2>2, <2>3 DEF CallIs, Fields, Steps, Fail
  <2>4. CASE \E file : c = [call[l] EXCEPT !.step = "store", !.file = file,
                                           !.version = v]
    BY <1>0, <1>6, <2>1, <2>2, <2>4 DEF CallIs, Fields, Steps
  <2> QED BY <2>1, <2>3, <2>4 DEF Loaded
<1>7. ASSUME Read(l) PROVE Inv'
  <2>0. /\ call[l].step = "read" /\ Len(writes) \in 1..Len(writes)
        /\ call[l].began <= Len(writes)
        /\ call[l].mtime # None => call[l].mtime <= Mtime(Len(writes))
    BY <1>0, <1>1, <1>7 DEF Read, CallIs
  <2>1. CASE call' = [call EXCEPT ![l] =
                        [@ EXCEPT !.step = "rules", !.version = Len(writes)]]
    <3>1. PICK c : c = [call[l] EXCEPT !.step = "rules", !.version = Len(writes)]
      OBVIOUS
    <3>2. CallIs(c)
      BY <1>0, <1>1, <2>0, <3>1 DEF CallIs, Fields, Steps
    <3> QED BY <1>2, <1>7, <2>1, <3>1, <3>2 DEF Read
  <2>2. CASE call' = [call EXCEPT ![l] =
                        Loaded(l, Current.content, {}, Len(writes))]
    <3>1. PICK c : c = Loaded(l, Current.content, {}, Len(writes))
      OBVIOUS
    <3>2. CallIs(c)
      BY <1>6, <2>0, <3>1
    <3> QED BY <1>2, <1>7, <2>2, <3>1, <3>2 DEF Read
  <2> QED BY <1>7, <2>1, <2>2 DEF Read
<1>8. ASSUME ReadRules(l) PROVE Inv'
  <2>1. PICK c : c = Loaded(l, writes[call[l].version].content, ruleFile,
                            call[l].version)
    OBVIOUS
  <2>2. CallIs(c)
    BY <1>0, <1>1, <1>6, <1>8, <2>1 DEF ReadRules, CallIs
  <2> QED BY <1>2, <1>8, <2>1, <2>2 DEF ReadRules
<1>9. ASSUME Inline(l) PROVE Inv'
  <2>1. PICK result : call' = [call EXCEPT ![l] =
           [@ EXCEPT !.step = "done", !.prompt = prompts, !.result = result]]
    BY <1>9 DEF Inline
  <2>2. PICK c : c = [call[l] EXCEPT !.step = "done", !.prompt = prompts,
                                     !.result = result]
    OBVIOUS
  <2>3. CallIs(c)
    <3>1. call[l].step = "inline"
      BY <1>9 DEF Inline
    <3> QED BY <1>0, <1>1, <2>2, <3>1 DEF CallIs, Fields, Steps
  <2> QED BY <1>2, <1>9, <2>1, <2>2, <2>3 DEF Inline
<1>10. ASSUME Return(l) PROVE Inv'
  <2>1. PICK c : c = Idle
    OBVIOUS
  <2>2. CallIs(c)
    BY <1>1, <2>1 DEF CallIs, Fields, Idle, Steps
  <2> QED BY <1>2, <1>10, <2>1, <2>2 DEF Return
<1> QED BY <1>3, <1>4, <1>5, <1>7, <1>8, <1>9, <1>10

\* loadCached: what is stored was read after the mtime it is stored under.
LEMMA StoreStep == ASSUME Inv, NEW l \in Lookup, Store(l) PROVE Inv'
<1>0. CallIs(call[l]) /\ DOMAIN call = Lookup /\ call[l].step = "store"
  BY DEF Inv, CallsAre, Store
<1>1. Len(writes) \in Nat
  BY DEF Inv, WritesGrow
<1>2. PICK c : c = [call[l] EXCEPT !.step = "inline"]
  OBVIOUS
<1>3. call[l].began \in 1..Len(writes) /\ call[l].version \in call[l].began..Len(writes)
  BY <1>0 DEF CallIs
<1>4. call[l].version \in 1..Len(writes)
  BY <1>1, <1>3
<1>5. CallIs(c)
  BY <1>0, <1>1, <1>2, <1>3, <1>4 DEF CallIs, Fields, Steps, Answerable
<1>6. CacheIsOld'
  <2>1. CASE call[l].mtime = None
    BY <2>1 DEF Store, Inv, CacheIsOld, Mtime
  <2>2. CASE call[l].mtime # None
    <3>1. call[l].mtime \in Nat /\ call[l].mtime <= Mtime(call[l].version)
      BY <1>0, <2>2 DEF CallIs
    <3>2. /\ writes' = writes
          /\ cache' = [mtime |-> call[l].mtime, file |-> call[l].file,
                       version |-> call[l].version]
      BY <2>2 DEF Store, CacheKey
    <3> QED BY <1>4, <3>1, <3>2 DEF CacheIsOld, Mtime
  <2> QED BY <2>1, <2>2
<1> QED BY <1>2, <1>5, <1>6, LookupStep DEF Store

\* An edit, the clock, the other files.
LEMMA FileStep ==
  ASSUME Inv,
         \/ Tick
         \/ \E content \in Contents : Write(content)
         \/ \E rules \in RuleFiles : WriteRules(rules)
         \/ \E removed \in BOOLEAN : WritePrompt(removed)
         \/ UNCHANGED vars
  PROVE  Inv'
<1>1. UNCHANGED <<cache, call>>
  BY DEF Tick, Write, WriteRules, WritePrompt, vars
<1>2. /\ PromptsType' /\ prompts <= prompts'
  <2>1. prompts \in Nat
    BY DEF Inv, PromptsType
  <2>2. prompts' = prompts \/ prompts' = prompts + 1
    BY DEF Tick, Write, WriteRules, WritePrompt, vars
  <2> QED BY <2>1, <2>2 DEF PromptsType
<1>3. /\ WritesGrow' /\ Len(writes) <= Len(writes')
      /\ \A v \in 1..Len(writes) : writes'[v] = writes[v]
  <2>1. CASE writes' = writes /\ now' \in Nat /\ now <= now'
    BY <2>1 DEF Inv, WritesGrow, Mtime
  <2>2. ASSUME NEW content \in Contents, Write(content)
        PROVE  /\ WritesGrow' /\ Len(writes) <= Len(writes')
               /\ \A v \in 1..Len(writes) : writes'[v] = writes[v]
    <3>1. /\ writes' = Append(writes, [content |-> content, mtime |-> now])
          /\ now' = now /\ now \in Nat
          /\ writes \in Seq([content : Contents, mtime : Nat])
          /\ Len(writes) \in Nat
      BY <2>2 DEF Write, Inv, WritesGrow
    <3>2. /\ writes' \in Seq([content : Contents, mtime : Nat])
          /\ Len(writes') = Len(writes) + 1
          /\ \A v \in 1..Len(writes) : writes'[v] = writes[v]
          /\ writes'[Len(writes) + 1].mtime = now
      BY <3>1
    <3>3. \A v \in 1..Len(writes') :
            \/ v \in 1..Len(writes) /\ Mtime(v)' = Mtime(v)
            \/ v = Len(writes) + 1 /\ Mtime(v)' = now
      BY <3>1, <3>2 DEF Mtime
    <3> QED BY <3>1, <3>2, <3>3 DEF Inv, WritesGrow
  <2>3. CASE UNCHANGED <<now, writes>>
    BY <2>3 DEF Inv, WritesGrow, Mtime
  <2>4. CASE Tick
    BY <2>1, <2>4 DEF Tick, Inv, WritesGrow
  <2> QED BY <2>2, <2>3, <2>4 DEF WriteRules, WritePrompt, vars
<1>4. CacheIsOld' /\ CallsAre'
  BY <1>1, <1>2, <1>3, EditsKeep DEF Inv, CallsAre
<1> QED BY <1>2, <1>3, <1>4 DEF Inv

\* At the start there is one content and no lookup.
LEMMA InitStep == Init => Inv
<1> SUFFICES ASSUME Init PROVE Inv
  OBVIOUS
<1>1. /\ writes \in Seq([content : Contents, mtime : Nat]) /\ Len(writes) = 1
      /\ writes[1].mtime = 0
  <2>1. PICK c \in Contents : writes = <<[content |-> c, mtime |-> 0]>>
    BY DEF Init
  <2>2. [content |-> c, mtime |-> 0] \in [content : Contents, mtime : Nat]
    BY <2>1
  <2> QED BY <2>1, <2>2
<1>2. CallIs(Idle)
  BY DEF Init, CallIs, Idle, Fields, Steps
<1>3. CallsAre
  BY <1>2 DEF Init, CallsAre
<1> QED BY <1>1, <1>3 DEF Init, Inv, WritesGrow, PromptsType, CacheIsOld, Mtime

\* Every step keeps the invariant of the mtimes.
LEMMA InvStep == Inv /\ [Next]_vars => Inv'
  BY CallStep, StoreStep, FileStep DEF Next

\* FileConfigSource: however lookups, cache and edits interleave, the settings
\* of a message are no older than the message, unless an edit kept the mtime;
\* and the prompt file is read when the message is.
THEOREM LookupsAreFresh == Spec => []Fresh
<1>1. Inv => Fresh
  <2> SUFFICES ASSUME Inv, NEW l \in Lookup, Succeeded(l)
               PROVE  /\ call[l].version < call[l].began =>
                           writes[call[l].version].mtime = writes[call[l].began].mtime
                      /\ call[l].prompt >= call[l].beganPrompts
    BY DEF Fresh
  <2> QED BY DEF Inv, CallsAre, CallIs, Succeeded, Answerable, Mtime
<1> QED BY <1>1, InitStep, InvStep, PTL DEF Spec

-----------------------------------------------------------------------------
(* The merge, for any layers: what MergeAgentConfig and MergeChannelPart   *)
(* make of the two or three layers that AgentLayers and PartLayers list.   *)

\* The entry a Channel starts from, and its own, if it has one.
BaseName(id) == IF id = "dm" THEN "dm" ELSE "default"
HasOwn(file, id) == id # "dm" /\ EntriesOf(file, id) # {}
Own(file, id) == IF HasOwn(file, id) THEN Entry(file, id) ELSE NoEntry

\* LastWriter is the greatest of the writers.
LEMMA LastIs ==
  ASSUME NEW writers \in SUBSET (1..3), NEW i \in writers,
         \A j \in writers : j <= i
  PROVE  LastWriter(writers) = i
<1> DEFINE Last(n) == n \in writers /\ \A j \in writers : j <= n
<1>1. Last(LastWriter(writers))
  BY DEF LastWriter
<1>2. LastWriter(writers) <= i /\ i <= LastWriter(writers)
  BY <1>1
<1>3. LastWriter(writers) \in 1..3
  BY <1>1
<1> QED BY <1>2, <1>3

\* Of up to three layers it is the third, else the second, else the first.
LEMMA LastWriterIs ==
  ASSUME NEW writers \in SUBSET (1..3)
  PROVE  /\ 3 \in writers => LastWriter(writers) = 3
         /\ 3 \notin writers /\ 2 \in writers => LastWriter(writers) = 2
         /\ 3 \notin writers /\ 2 \notin writers /\ 1 \in writers =>
              LastWriter(writers) = 1
         /\ 3 \notin writers /\ 2 \notin writers /\ 1 \notin writers =>
              writers = {}
         /\ writers # {} => LastWriter(writers) \in writers
<1>1. \A i \in writers : (\A j \in writers : j <= i) => LastWriter(writers) = i
  BY LastIs
<1>2. \A i \in writers : i = 1 \/ i = 2 \/ i = 3
  OBVIOUS
<1>3. CASE 3 \in writers
  BY <1>1, <1>2, <1>3
<1>4. CASE 3 \notin writers /\ 2 \in writers
  BY <1>1, <1>2, <1>4
<1>5. CASE 3 \notin writers /\ 2 \notin writers /\ 1 \in writers
  BY <1>1, <1>2, <1>5
<1>6. CASE 3 \notin writers /\ 2 \notin writers /\ 1 \notin writers
  BY <1>2, <1>6
<1> QED BY <1>3, <1>4, <1>5, <1>6

\* EntryLayers: one layer, or two.
LEMMA EntryLayersAre ==
  ASSUME NEW file, NEW id, NEW one, NEW two
  PROVE  LET base == Layer(Entry(file, BaseName(id)), one)
             own == Layer(Entry(file, id), two)
         IN  EntryLayers(file, id, one, two)
               = <<base>> \o IF HasOwn(file, id) THEN <<own>> ELSE <<>>
<1> DEFINE o == Layer(Entry(file, id), two)
<1>1. (IF id = "dm" \/ EntriesOf(file, id) = {} THEN <<>> ELSE <<o>>)
          = IF HasOwn(file, id) THEN <<o>> ELSE <<>>
  BY DEF HasOwn
<1> QED BY <1>1, Zenon DEF EntryLayers, BaseName

\* The layers of the agent part: the top level and those of the entries.
IsLayer(layer, agent, label) ==
  layer.fields = agent.fields /\ layer.sandbox = agent.sandbox /\ layer.label = label

AreAgentLayers(layers, file, id) ==
  /\ DOMAIN layers = IF HasOwn(file, id) THEN 1..3 ELSE 1..2
  /\ IsLayer(layers[1], file.agent, "default_agent")
  /\ IsLayer(layers[2], Entry(file, BaseName(id)), "channel_agent")
  /\ HasOwn(file, id) => IsLayer(layers[3], Entry(file, id), "channel_agent")

\* They are those layers: AgentLayers puts the top level before the entries.
LEMMA AgentLayersAre ==
  ASSUME NEW file, NEW id
  PROVE  AreAgentLayers(AgentLayers(file, id), file, id)
<1> DEFINE t == [part |-> <<>>, fields |-> file.agent.fields,
                 sandbox |-> file.agent.sandbox, label |-> "default_agent"]
           b == Layer(Entry(file, BaseName(id)), "channel_agent")
           o == Layer(Entry(file, id), "channel_agent")
<1>1. AgentLayers(file, id) = <<t>> \o
        (<<b>> \o IF HasOwn(file, id) THEN <<o>> ELSE <<>>)
  BY EntryLayersAre, Zenon DEF AgentLayers
<1>2. /\ IsLayer(t, file.agent, "default_agent")
      /\ IsLayer(b, Entry(file, BaseName(id)), "channel_agent")
      /\ IsLayer(o, Entry(file, id), "channel_agent")
  BY DEF IsLayer, Layer
<1> HIDE DEF t, b, o
<1>3. CASE HasOwn(file, id)
  <2> DEFINE layers == <<t>> \o (<<b>> \o <<o>>)
  <2>1. AgentLayers(file, id) = layers
    BY <1>1, <1>3, Zenon
  <2>2. DOMAIN layers = 1..3 /\ layers[1] = t /\ layers[2] = b /\ layers[3] = o
    OBVIOUS
  <2> QED BY <1>2, <1>3, <2>1, <2>2 DEF AreAgentLayers
<1>4. CASE ~HasOwn(file, id)
  <2> DEFINE layers == <<t>> \o (<<b>> \o <<>>)
  <2>1. AgentLayers(file, id) = layers
    BY <1>1, <1>4, Zenon
  <2>2. DOMAIN layers = 1..2 /\ layers[1] = t /\ layers[2] = b
    OBVIOUS
  <2> QED BY <1>2, <1>4, <2>1, <2>2 DEF AreAgentLayers
<1> QED BY <1>3, <1>4

\* The fields of up to three layers, merged: the last layer that writes a key
\* gives its value and its label.
LEMMA ThreeLayers ==
  ASSUME NEW layers, NEW writers \in SUBSET (1..3), NEW k,
         NEW top, NEW base, NEW own, NEW merged,
         merged = MergeLayer(MergeLayer(Labelled(top, "default_agent"),
                                        base, "channel_agent"),
                             own, "channel_agent"),
         1 \in writers <=> k \in DOMAIN top,
         2 \in writers <=> k \in DOMAIN base,
         3 \in writers <=> k \in DOMAIN own,
         layers[1].fields = top, layers[1].label = "default_agent",
         layers[2].fields = base, layers[2].label = "channel_agent",
         3 \in writers =>
           layers[3].fields = own /\ layers[3].label = "channel_agent"
  PROVE  /\ writers = {} <=> k \notin DOMAIN merged.value
         /\ writers # {} =>
              /\ LastWriter(writers) \in writers
              /\ merged.value[k] = layers[LastWriter(writers)].fields[k]
              /\ merged.source[k] = layers[LastWriter(writers)].label
<1>1. /\ DOMAIN merged.value = DOMAIN own \cup (DOMAIN base \cup DOMAIN top)
      /\ k \in DOMAIN own => merged.value[k] = own[k] /\ merged.source[k] = "channel_agent"
      /\ k \in DOMAIN base \ DOMAIN own =>
           merged.value[k] = base[k] /\ merged.source[k] = "channel_agent"
      /\ k \in DOMAIN top \ (DOMAIN base \cup DOMAIN own) =>
           merged.value[k] = top[k] /\ merged.source[k] = "default_agent"
  BY DEF MergeLayer, Labelled, Over
<1>2. CASE 3 \in writers
  BY <1>1, <1>2, LastWriterIs
<1>3. CASE 3 \notin writers /\ 2 \in writers
  BY <1>1, <1>3, LastWriterIs
<1>4. CASE 3 \notin writers /\ 2 \notin writers /\ 1 \in writers
  BY <1>1, <1>4, LastWriterIs
<1>5. CASE 3 \notin writers /\ 2 \notin writers /\ 1 \notin writers
  BY <1>1, <1>5, LastWriterIs
<1> QED BY <1>2, <1>3, <1>4, <1>5

\* So it is with the fields of MergeAgentConfig.
LEMMA FieldsMerged ==
  ASSUME NEW file, NEW id, NEW k, NEW layers, AreAgentLayers(layers, file, id)
  PROVE  LET merged == MergeAgentConfig(file.agent, Entry(file, BaseName(id)),
                                        Own(file, id)).fields
             writers == FieldWriters(layers, k)
         IN  /\ writers = {} <=> k \notin DOMAIN merged.value
             /\ writers # {} =>
                  /\ LastWriter(writers) \in writers
                  /\ merged.value[k] = layers[LastWriter(writers)].fields[k]
                  /\ merged.source[k] = layers[LastWriter(writers)].label
<1> DEFINE top == file.agent.fields
           base == Entry(file, BaseName(id)).fields
           own == Own(file, id).fields
           writers == FieldWriters(layers, k)
<1>1. /\ layers[1].fields = top /\ layers[1].label = "default_agent"
      /\ layers[2].fields = base /\ layers[2].label = "channel_agent"
      /\ HasOwn(file, id) =>
           layers[3].fields = own /\ layers[3].label = "channel_agent"
      /\ ~HasOwn(file, id) => k \notin DOMAIN own
  BY DEF AreAgentLayers, IsLayer, Own, NoEntry
<1>2. \A i : i \in writers <=>
             i \in (IF HasOwn(file, id) THEN 1..3 ELSE 1..2) /\ k \in DOMAIN layers[i].fields
  BY DEF FieldWriters, AreAgentLayers
<1>3. MergeAgentConfig(file.agent, Entry(file, BaseName(id)), Own(file, id)).fields
        = MergeLayer(MergeLayer(Labelled(top, "default_agent"),
                                base, "channel_agent"), own, "channel_agent")
  BY DEF MergeAgentConfig
<1> HIDE DEF top, base, own, writers
<1>4. writers \in SUBSET (1..3)
  BY <1>2
<1>5. /\ 1 \in writers <=> k \in DOMAIN top
      /\ 2 \in writers <=> k \in DOMAIN base
      /\ 3 \in writers <=> k \in DOMAIN own
      /\ 3 \in writers => HasOwn(file, id)
  BY <1>1, <1>2
<1> QED BY <1>1, <1>3, <1>4, <1>5, ThreeLayers DEF writers

\* The same of the Channel part, which has no top level.
LEMMA PartsMerged ==
  ASSUME NEW file, NEW id, NEW k
  PROVE  LET merged == MergeChannelPart(Entry(file, BaseName(id)).part,
                                        BaseName(id), Own(file, id).part)
             layers == PartLayers(file, id)
             writers == PartWriters(layers, k)
         IN  /\ writers = {} <=> k \notin DOMAIN merged.value
             /\ writers # {} =>
                  /\ LastWriter(writers) \in writers
                  /\ merged.value[k] = layers[LastWriter(writers)].part[k]
                  /\ merged.source[k] = layers[LastWriter(writers)].label
<1> DEFINE base == Entry(file, BaseName(id)).part
           own == Own(file, id).part
           layers == PartLayers(file, id)
           writers == PartWriters(layers, k)
           merged == MergeChannelPart(base, BaseName(id), own)
<1>1. /\ DOMAIN layers = IF HasOwn(file, id) THEN 1..2 ELSE 1..1
      /\ layers[1].part = base /\ layers[1].label = BaseName(id)
      /\ HasOwn(file, id) => layers[2].part = own /\ layers[2].label = "channel"
      /\ ~HasOwn(file, id) => k \notin DOMAIN own
  <2> DEFINE l1 == Layer(Entry(file, BaseName(id)), BaseName(id))
             l2 == Layer(Entry(file, id), "channel")
  <2>1. layers = <<l1>> \o IF HasOwn(file, id) THEN <<l2>> ELSE <<>>
    BY EntryLayersAre DEF PartLayers, BaseName
  <2>2. /\ l1.part = base /\ l1.label = BaseName(id)
        /\ HasOwn(file, id) => l2.part = own /\ l2.label = "channel"
        /\ ~HasOwn(file, id) => k \notin DOMAIN own
    BY DEF Layer, Own, NoEntry
  <2> HIDE DEF l1, l2, base, own, layers
  <2>3. CASE HasOwn(file, id)
    BY <2>1, <2>2, <2>3
  <2>4. CASE ~HasOwn(file, id)
    BY <2>1, <2>2, <2>4
  <2> QED BY <2>3, <2>4
<1>2. /\ DOMAIN merged.value = DOMAIN own \cup DOMAIN base
      /\ k \in DOMAIN own => merged.value[k] = own[k] /\ merged.source[k] = "channel"
      /\ k \in DOMAIN base \ DOMAIN own =>
           merged.value[k] = base[k] /\ merged.source[k] = BaseName(id)
  BY DEF MergeChannelPart, MergeLayer, Labelled, Over
<1> HIDE DEF base, own, layers, merged
<1>3. \A i : i \in writers <=>
             i \in (IF HasOwn(file, id) THEN 1..2 ELSE 1..1) /\ k \in DOMAIN layers[i].part
  BY <1>1 DEF PartWriters
<1> HIDE DEF writers
<1>4. writers \in SUBSET (1..3)
  BY <1>3
<1>5. /\ 1 \in writers <=> k \in DOMAIN base
      /\ 2 \in writers <=> k \in DOMAIN own
      /\ 2 \in writers => HasOwn(file, id)
      /\ 3 \notin writers
  BY <1>1, <1>3
<1>6. /\ writers = {} <=> k \notin DOMAIN merged.value
      /\ writers # {} =>
           /\ LastWriter(writers) \in writers
           /\ merged.value[k] = layers[LastWriter(writers)].part[k]
           /\ merged.source[k] = layers[LastWriter(writers)].label
  <2>1. CASE 2 \in writers
    BY <1>1, <1>2, <1>4, <1>5, <2>1, LastWriterIs
  <2>2. CASE 2 \notin writers /\ 1 \in writers
    BY <1>1, <1>2, <1>4, <1>5, <2>2, LastWriterIs
  <2>3. CASE 2 \notin writers /\ 1 \notin writers
    BY <1>2, <1>4, <1>5, <2>3, LastWriterIs
  <2> QED BY <2>1, <2>2, <2>3
<1> QED BY <1>6 DEF base, own, layers, writers, merged

LoadedKinds == {"unset", "off", "rules"}

\* One layer of the sandbox.
LEMMA SandboxLayer ==
  ASSUME NEW current, NEW additions, additions.kind \in LoadedKinds,
         NEW next, next = MergeSandboxLayer(current, additions), next # Failed
  PROVE  /\ current # Failed
         /\ additions.kind = "unset" => next = current
         /\ additions.kind # "unset" => next.source = "channel_agent"
         /\ additions.kind = "off" => next.value.kind = "off"
         /\ additions.kind = "rules" =>
              /\ current.value.kind = "rules" /\ next.value.kind = "rules"
              /\ next.value.rules = current.value.rules \cup additions.rules
<1>1. current # Failed
  BY DEF MergeSandboxLayer
<1>2. CASE additions.kind = "unset"
  BY <1>1, <1>2 DEF MergeSandboxLayer
<1>3. CASE additions.kind = "off"
  BY <1>1, <1>3 DEF MergeSandboxLayer, SandboxOff
<1>4. CASE additions.kind = "rules"
  <2> DEFINE rules == MergeSandboxAdditions(current.value.rules, additions.rules)
  <2>1. /\ current.value.kind = "rules" /\ rules # Failed
        /\ next = [value |-> [kind |-> "rules", rules |-> rules],
                   source |-> "channel_agent"]
    BY <1>1, <1>4 DEF MergeSandboxLayer
  <2>2. rules = current.value.rules \cup additions.rules
    BY <2>1 DEF MergeSandboxAdditions
  <2> HIDE DEF rules
  <2> QED BY <1>1, <1>4, <2>1, <2>2
<1> QED BY <1>2, <1>3, <1>4 DEF LoadedKinds

\* The rules of those layers that have any.
Added(layers) ==
  {i \in SandboxWriters(layers) : layers[i].sandbox.kind = "rules"}

\* The sandbox of MergeAgentConfig: whose label it bears and what rules it has.
LEMMA SandboxMerged ==
  ASSUME NEW file, NEW id, NEW layers, AreAgentLayers(layers, file, id),
         \A i \in DOMAIN layers : layers[i].sandbox.kind \in LoadedKinds,
         NEW sandbox, sandbox # Failed,
         sandbox = MergeAgentConfig(file.agent, Entry(file, BaseName(id)),
                                    Own(file, id)).sandbox
  PROVE  LET writers == SandboxWriters(layers)
         IN  /\ sandbox.value.kind = "unset" <=> writers = {}
             /\ writers # {} => /\ LastWriter(writers) \in writers
                                /\ sandbox.source = layers[LastWriter(writers)].label
             /\ IF sandbox.value.kind = "rules"
                THEN sandbox.value.rules = UNION {layers[i].sandbox.rules : i \in Added(layers)}
                ELSE \A i \in Added(layers) : i < LastWriter(writers)
<1> DEFINE top == file.agent.sandbox
           base == Entry(file, BaseName(id)).sandbox
           own == Own(file, id).sandbox
           first == [value |-> top, source |->
                       IF top.kind = "unset" THEN None ELSE "default_agent"]
           second == MergeSandboxLayer(first, base)
           writers == SandboxWriters(layers)
<1>1. /\ layers[1].sandbox = top /\ layers[1].label = "default_agent"
      /\ layers[2].sandbox = base /\ layers[2].label = "channel_agent"
      /\ HasOwn(file, id) =>
           layers[3].sandbox = own /\ layers[3].label = "channel_agent"
      /\ ~HasOwn(file, id) => own.kind = "unset"
  BY DEF AreAgentLayers, IsLayer, Own, NoEntry, NoSandbox
<1>2. /\ top.kind \in LoadedKinds /\ base.kind \in LoadedKinds
      /\ own.kind \in LoadedKinds
  BY <1>1 DEF AreAgentLayers, LoadedKinds
<1>3. sandbox = MergeSandboxLayer(second, own)
  BY DEF MergeAgentConfig
<1>4. first.value = top
      /\ (top.kind # "unset" => first.source = "default_agent")
  OBVIOUS
<1>5. \A i : i \in writers <=>
             i \in (IF HasOwn(file, id) THEN 1..3 ELSE 1..2) /\ layers[i].sandbox.kind # "unset"
  BY DEF SandboxWriters, AreAgentLayers
<1>6. \A i : i \in Added(layers) <=> i \in writers /\ layers[i].sandbox.kind = "rules"
  BY DEF Added
<1> HIDE DEF top, base, own, first, second, writers
<1>7. writers \in SUBSET (1..3)
  BY <1>5
<1>8. /\ 1 \in writers <=> top.kind # "unset"
      /\ 2 \in writers <=> base.kind # "unset"
      /\ 3 \in writers <=> own.kind # "unset"
      /\ 3 \in writers => HasOwn(file, id)
  BY <1>1, <1>5
<1>9. /\ 1 \in Added(layers) <=> top.kind = "rules"
      /\ 2 \in Added(layers) <=> base.kind = "rules"
      /\ 3 \in Added(layers) <=> own.kind = "rules"
      /\ \A i \in Added(layers) : i \in {1, 2, 3}
  BY <1>1, <1>5, <1>6, <1>7, <1>8
<1>10. second = MergeSandboxLayer(first, base)
  BY DEF second
<1>11. second # Failed
  BY <1>2, <1>3, SandboxLayer
<1>12. /\ sandbox.value.kind = "unset" <=> writers = {}
       /\ writers # {} => /\ LastWriter(writers) \in writers
                          /\ sandbox.source = layers[LastWriter(writers)].label
  <2>1. /\ base.kind = "unset" => second = first
        /\ base.kind # "unset" =>
             second.source = "channel_agent" /\ second.value.kind = base.kind
    BY <1>2, <1>10, <1>11, SandboxLayer DEF LoadedKinds
  <2>2. /\ own.kind = "unset" => sandbox = second
        /\ own.kind # "unset" =>
             sandbox.source = "channel_agent" /\ sandbox.value.kind = own.kind
    BY <1>2, <1>3, SandboxLayer DEF LoadedKinds
  <2> QED BY <1>1, <1>2, <1>4, <1>7, <1>8, <2>1, <2>2, LastWriterIs
<1>13. CASE sandbox.value.kind = "rules"
  <2>1. /\ own.kind \in {"unset", "rules"} /\ second.value.kind = "rules"
        /\ \A r : r \in sandbox.value.rules <=>
                  r \in second.value.rules \/ (own.kind = "rules" /\ r \in own.rules)
    BY <1>2, <1>3, <1>13, SandboxLayer DEF LoadedKinds
  <2>2. /\ base.kind \in {"unset", "rules"} /\ top.kind = "rules"
        /\ \A r : r \in second.value.rules <=>
                  r \in top.rules \/ (base.kind = "rules" /\ r \in base.rules)
    BY <1>2, <1>4, <1>10, <1>11, <2>1, SandboxLayer DEF LoadedKinds
  <2>3. sandbox.value.rules = UNION {layers[i].sandbox.rules : i \in Added(layers)}
    BY <1>1, <1>8, <1>9, <2>1, <2>2
  <2> QED BY <1>12, <1>13, <2>3 DEF writers
<1>14. CASE sandbox.value.kind # "rules"
  <2>1. own.kind # "rules" /\ (base.kind = "rules" => own.kind # "unset")
    BY <1>2, <1>3, <1>10, <1>11, <1>14, SandboxLayer
  <2>2. top.kind = "rules" => base.kind # "unset" \/ own.kind # "unset"
    BY <1>2, <1>3, <1>4, <1>10, <1>11, <1>14, SandboxLayer
  <2>3. \A i \in Added(layers) : i < LastWriter(writers)
    BY <1>7, <1>8, <1>9, <2>1, <2>2, LastWriterIs
  <2> QED BY <1>12, <1>14, <2>3 DEF writers
<1> QED BY <1>13, <1>14

\* What loading keeps of a layer and of a file.
SameLayer(layer, written) ==
  /\ DOMAIN layer.fields = DOMAIN written.fields
  /\ \A k \in DOMAIN layer.fields : k # "env" => layer.fields[k] = written.fields[k]
  /\ layer.sandbox.kind = "unset" <=> written.sandbox.kind = "unset"
  /\ layer.sandbox.kind \in LoadedKinds

SameFile(file, content) ==
  /\ SameLayer(file.agent, content.agent)
  /\ DOMAIN file.channels = DOMAIN content.channels
  /\ \A i \in DOMAIN file.channels :
       /\ SameLayer(file.channels[i], content.channels[i])
       /\ file.channels[i].channel = content.channels[i].channel
       /\ file.channels[i].part = content.channels[i].part

\* Loading resolves the values of env and inlines the rules, and keeps the rest.
LEMMA LoadKeeps ==
  ASSUME NEW content, SchemasAccept(content), NEW rules, NEW resolveEnv \in BOOLEAN,
         NEW file, file = LoadChannelConfigFile(content, rules, resolveEnv),
         file # Failed
  PROVE  SameFile(file, content)
<1>1. file = [agent |->
                [fields |-> ResolveAgentEnvRefs(content.agent.fields, resolveEnv),
                 sandbox |-> InlineRules(content.agent.sandbox, rules)],
              channels |-> [i \in DOMAIN content.channels |->
                [content.channels[i] EXCEPT
                   !.fields = ResolveAgentEnvRefs(@, resolveEnv)]]]
  BY DEF LoadChannelConfigFile
<1>2. ASSUME NEW fields
      PROVE  /\ DOMAIN ResolveAgentEnvRefs(fields, resolveEnv) = DOMAIN fields
             /\ \A k \in DOMAIN fields : k # "env" =>
                  ResolveAgentEnvRefs(fields, resolveEnv)[k] = fields[k]
  BY DEF ResolveAgentEnvRefs
<1>3. SameLayer(file.agent, content.agent)
  <2>1. /\ file.agent.fields = ResolveAgentEnvRefs(content.agent.fields, resolveEnv)
        /\ file.agent.sandbox = InlineRules(content.agent.sandbox, rules)
    BY <1>1
  <2>2. content.agent.sandbox.kind \in {"unset", "off", "rules", "path"}
    BY DEF SchemasAccept, AgentIsValid
  <2>3. /\ file.agent.sandbox.kind \in LoadedKinds
        /\ file.agent.sandbox.kind = "unset" <=> content.agent.sandbox.kind = "unset"
    BY <2>1, <2>2 DEF InlineRules, LoadedKinds
  <2> QED BY <1>2, <2>1, <2>3 DEF SameLayer
<1>4. ASSUME NEW i \in DOMAIN content.channels
      PROVE  /\ SameLayer(file.channels[i], content.channels[i])
             /\ file.channels[i].channel = content.channels[i].channel
             /\ file.channels[i].part = content.channels[i].part
  <2>1. file.channels[i] = [content.channels[i] EXCEPT !.fields =
          ResolveAgentEnvRefs(content.channels[i].fields, resolveEnv)]
    BY <1>1
  <2>2. DOMAIN content.channels[i] = {"channel", "part", "fields", "sandbox"}
    BY DEF SchemasAccept
  <2>3. /\ file.channels[i].fields =
             ResolveAgentEnvRefs(content.channels[i].fields, resolveEnv)
        /\ file.channels[i].sandbox = content.channels[i].sandbox
        /\ file.channels[i].channel = content.channels[i].channel
        /\ file.channels[i].part = content.channels[i].part
    BY <2>1, <2>2
  <2>4. content.channels[i].sandbox.kind \in LoadedKinds
    BY DEF SchemasAccept, AgentIsValid, LoadedKinds
  <2> QED BY <1>2, <2>3, <2>4 DEF SameLayer
<1>5. DOMAIN file.channels = DOMAIN content.channels
  BY <1>1
<1> QED BY <1>3, <1>4, <1>5 DEF SameFile

\* The entry of a Channel in a loaded file is that of the content.
LEMMA SameEntry ==
  ASSUME NEW content, SchemasAccept(content), NEW file, SameFile(file, content),
         NEW id
  PROVE  /\ EntriesOf(file, id) = EntriesOf(content, id)
         /\ HasOwn(file, id) <=> HasOwn(content, id)
         /\ EntriesOf(file, id) # {} =>
              /\ SameLayer(Entry(file, id), Entry(content, id))
              /\ Entry(file, id).part = Entry(content, id).part
              /\ Entry(content, id) \in
                   {content.channels[i] : i \in DOMAIN content.channels}
<1>1. \A i \in DOMAIN file.channels : \A j \in 1..(i - 1) : j \in DOMAIN file.channels
  BY DEF SameFile, SchemasAccept
<1>2. EntriesOf(file, id) = EntriesOf(content, id)
  BY <1>1 DEF EntriesOf, SameFile
<1>3. ASSUME EntriesOf(file, id) # {}
      PROVE  /\ SameLayer(Entry(file, id), Entry(content, id))
             /\ Entry(file, id).part = Entry(content, id).part
             /\ Entry(content, id) \in
                   {content.channels[i] : i \in DOMAIN content.channels}
  <2>1. PICK e : e = CHOOSE i \in EntriesOf(file, id) : TRUE
    OBVIOUS
  <2>2. e \in EntriesOf(file, id)
    BY <1>3, <2>1
  <2>3. e \in DOMAIN file.channels
    BY <2>2 DEF EntriesOf
  <2>4. Entry(file, id) = file.channels[e] /\ Entry(content, id) = content.channels[e]
    BY <1>2, <2>1 DEF Entry
  <2> QED BY <2>3, <2>4 DEF SameFile
<1> QED BY <1>2, <1>3 DEF HasOwn

\* So are the layers, and who writes what in them.
LEMMA SameAgentLayers ==
  ASSUME NEW content, SchemasAccept(content), NEW file, SameFile(file, content),
         NEW id, EntriesOf(file, BaseName(id)) # {}
  PROVE  LET loaded == AgentLayers(file, id)
             written == AgentLayers(content, id)
         IN  /\ DOMAIN loaded = DOMAIN written
             /\ \A i \in DOMAIN loaded :
                  /\ SameLayer(loaded[i], written[i])
                  /\ loaded[i].label = written[i].label
             /\ SandboxWriters(loaded) = SandboxWriters(written)
             /\ \A k : FieldWriters(loaded, k) = FieldWriters(written, k)
<1> DEFINE loaded == AgentLayers(file, id)
           written == AgentLayers(content, id)
<1>1. AreAgentLayers(loaded, file, id) /\ AreAgentLayers(written, content, id)
  BY AgentLayersAre
<1>2. /\ HasOwn(file, id) <=> HasOwn(content, id)
      /\ SameLayer(Entry(file, BaseName(id)), Entry(content, BaseName(id)))
      /\ HasOwn(file, id) => SameLayer(Entry(file, id), Entry(content, id))
      /\ SameLayer(file.agent, content.agent)
  BY SameEntry DEF SameFile, HasOwn
<1> HIDE DEF loaded, written
<1>3. DOMAIN loaded = DOMAIN written
  BY <1>1, <1>2 DEF AreAgentLayers
<1>4. ASSUME NEW i \in DOMAIN loaded
      PROVE  SameLayer(loaded[i], written[i]) /\ loaded[i].label = written[i].label
  <2>1. i = 1 \/ i = 2 \/ (i = 3 /\ HasOwn(file, id))
    BY <1>1, <1>4 DEF AreAgentLayers
  <2> QED BY <1>1, <1>2, <2>1 DEF AreAgentLayers, IsLayer, SameLayer
<1>5. SandboxWriters(loaded) = SandboxWriters(written)
  BY <1>3, <1>4 DEF SandboxWriters, SameLayer
<1>6. ASSUME NEW k PROVE FieldWriters(loaded, k) = FieldWriters(written, k)
  BY <1>3, <1>4 DEF FieldWriters, SameLayer
<1> QED BY <1>3, <1>4, <1>5, <1>6 DEF loaded, written

\* The same of the layers of the Channel part.
LEMMA SamePartLayers ==
  ASSUME NEW content, SchemasAccept(content), NEW file, SameFile(file, content),
         NEW id, EntriesOf(file, BaseName(id)) # {}
  PROVE  LET loaded == PartLayers(file, id)
             written == PartLayers(content, id)
         IN  /\ DOMAIN loaded = DOMAIN written
             /\ \A i \in DOMAIN loaded :
                  /\ loaded[i].part = written[i].part
                  /\ loaded[i].label = written[i].label
             /\ \A k : PartWriters(loaded, k) = PartWriters(written, k)
<1> DEFINE loaded == PartLayers(file, id)
           written == PartLayers(content, id)
           f1 == Layer(Entry(file, BaseName(id)), BaseName(id))
           f2 == Layer(Entry(file, id), "channel")
           c1 == Layer(Entry(content, BaseName(id)), BaseName(id))
           c2 == Layer(Entry(content, id), "channel")
<1>1. /\ loaded = <<f1>> \o IF HasOwn(file, id) THEN <<f2>> ELSE <<>>
      /\ written = <<c1>> \o IF HasOwn(content, id) THEN <<c2>> ELSE <<>>
  BY EntryLayersAre DEF PartLayers, BaseName
<1>2. /\ HasOwn(file, id) <=> HasOwn(content, id)
      /\ f1.part = c1.part /\ f1.label = c1.label
      /\ HasOwn(file, id) => f2.part = c2.part /\ f2.label = c2.label
  BY SameEntry DEF HasOwn, Layer
<1> HIDE DEF loaded, written, f1, f2, c1, c2
<1>3. /\ DOMAIN loaded = DOMAIN written
      /\ \A i \in DOMAIN loaded :
           loaded[i].part = written[i].part /\ loaded[i].label = written[i].label
  <2>1. CASE HasOwn(file, id)
    BY <1>1, <1>2, <2>1
  <2>2. CASE ~HasOwn(file, id)
    <3>1. loaded = <<f1>> \o <<>> /\ written = <<c1>> \o <<>>
      BY <1>1, <1>2, <2>2
    <3>2. DOMAIN loaded = 1..1 /\ loaded[1] = f1
      BY <3>1
    <3>3. DOMAIN written = 1..1 /\ written[1] = c1
      BY <3>1
    <3> QED BY <1>2, <3>2, <3>3
  <2> QED BY <2>1, <2>2
<1>4. ASSUME NEW k PROVE PartWriters(loaded, k) = PartWriters(written, k)
  BY <1>3 DEF PartWriters
<1> QED BY <1>3, <1>4 DEF loaded, written

\* What channel(id) and the dump merge.
LEMMA ResolvedIs ==
  ASSUME NEW file, NEW id, NEW resolved, resolved = ResolveChannelConfig(file, id),
         resolved # None, resolved # Failed
  PROVE  LET agent == MergeAgentConfig(file.agent, Entry(file, BaseName(id)),
                                       Own(file, id))
         IN  /\ EntriesOf(file, BaseName(id)) # {}
             /\ resolved.part = MergeChannelPart(Entry(file, BaseName(id)).part,
                                                 BaseName(id), Own(file, id).part)
             /\ resolved.fields = agent.fields
             /\ resolved.sandbox = agent.sandbox /\ resolved.sandbox # Failed
             /\ DOMAIN resolved = {"part", "fields", "sandbox"}
             /\ DOMAIN resolved.fields = {"value", "source"}
<1> DEFINE baseSource == IF id = "dm" THEN "dm" ELSE "default"
           base == Entry(file, baseSource)
           own == IF id # "dm" /\ EntriesOf(file, id) # {}
                  THEN Entry(file, id) ELSE NoEntry
           agent == MergeAgentConfig(file.agent, base, own)
           part == MergeChannelPart(base.part, baseSource, own.part)
<1>1. baseSource = BaseName(id) /\ own = Own(file, id)
  BY DEF BaseName, Own, HasOwn
<1>2. resolved =
        IF EntriesOf(file, baseSource) = {} THEN None
        ELSE IF agent.sandbox = Failed THEN Failed
        ELSE [part |-> part, fields |-> agent.fields, sandbox |-> agent.sandbox]
  BY DEF ResolveChannelConfig
<1> HIDE DEF agent, part
<1>3. /\ EntriesOf(file, baseSource) # {} /\ agent.sandbox # Failed
      /\ resolved = [part |-> part, fields |-> agent.fields, sandbox |-> agent.sandbox]
  BY <1>2
<1>4. /\ resolved.part = part /\ resolved.fields = agent.fields
      /\ resolved.sandbox = agent.sandbox
      /\ DOMAIN resolved = {"part", "fields", "sandbox"}
  BY <1>3
<1>5. DOMAIN agent.fields = {"value", "source"}
  BY DEF agent, MergeAgentConfig, MergeLayer
<1> QED BY <1>1, <1>3, <1>4, <1>5 DEF agent, part

\* What channel(id) returns: the merge, with the prompt file in its place.
IsAnswer(result, resolved, prompt) ==
  \E content \in {Missing, prompt} :
    result = ResolveFileReferences(resolved, content)

\* Only systemPrompt can change, and only a reference does.
LEMMA AnswerIs ==
  ASSUME NEW file, NEW id, NEW resolved, resolved = ResolveChannelConfig(file, id),
         NEW prompt, NEW result, IsAnswer(result, resolved, prompt),
         result # None, result # Failed
  PROVE  /\ resolved # None /\ resolved # Failed
         /\ result.part = resolved.part /\ result.sandbox = resolved.sandbox
         /\ DOMAIN result.fields.value = DOMAIN resolved.fields.value
         /\ \A k \in DOMAIN resolved.fields.value :
              result.fields.value[k] =
                IF k = "systemPrompt" /\ resolved.fields.value[k] = PromptRef
                THEN prompt ELSE resolved.fields.value[k]
<1>0. PICK content \in {Missing, prompt} :
        result = ResolveFileReferences(resolved, content)
  BY DEF IsAnswer
<1>1. resolved # None /\ resolved # Failed
  BY <1>0 DEF ResolveFileReferences, ReadsPrompt
<1>2. /\ DOMAIN resolved = {"part", "fields", "sandbox"}
      /\ DOMAIN resolved.fields = {"value", "source"}
  BY <1>1, ResolvedIs
<1>3. CASE ~ReadsPrompt(resolved)
  <2>1. result = resolved
    BY <1>0, <1>3 DEF ResolveFileReferences
  <2>2. \A k \in DOMAIN resolved.fields.value :
          ~(k = "systemPrompt" /\ resolved.fields.value[k] = PromptRef)
    BY <1>1, <1>3 DEF ReadsPrompt
  <2> QED BY <1>1, <2>1, <2>2
<1>4. CASE ReadsPrompt(resolved)
  <2>1. /\ content = prompt
        /\ result = [resolved EXCEPT !.fields.value["systemPrompt"] = prompt]
    BY <1>0, <1>4 DEF ResolveFileReferences
  <2>2. /\ "systemPrompt" \in DOMAIN resolved.fields.value
        /\ resolved.fields.value["systemPrompt"] = PromptRef
    BY <1>4 DEF ReadsPrompt
  <2>3. /\ result.part = resolved.part /\ result.sandbox = resolved.sandbox
        /\ result.fields.value = [resolved.fields.value EXCEPT !["systemPrompt"] = prompt]
    BY <1>2, <2>1
  <2> QED BY <1>1, <2>2, <2>3
<1> QED BY <1>3, <1>4

\* What is resolved from a loaded file, said of the layers of its content.
LEMMA LayersResolved ==
  ASSUME NEW content, SchemasAccept(content), NEW file, SameFile(file, content),
         NEW id, NEW resolved, resolved = ResolveChannelConfig(file, id),
         resolved # None, resolved # Failed, NEW k
  PROVE  LET parts == PartLayers(content, id)
             agents == AgentLayers(content, id)
             partWriters == PartWriters(parts, k)
             fieldWriters == FieldWriters(agents, k)
             sandboxWriters == SandboxWriters(agents)
         IN  /\ partWriters = {} <=> k \notin DOMAIN resolved.part.value
             /\ partWriters # {} =>
                  /\ resolved.part.value[k] = parts[LastWriter(partWriters)].part[k]
                  /\ resolved.part.source[k] = parts[LastWriter(partWriters)].label
             /\ fieldWriters = {} <=> k \notin DOMAIN resolved.fields.value
             /\ fieldWriters # {} =>
                  /\ k # "env" => resolved.fields.value[k] =
                                    agents[LastWriter(fieldWriters)].fields[k]
                  /\ resolved.fields.source[k] = agents[LastWriter(fieldWriters)].label
             /\ sandboxWriters = {} <=> resolved.sandbox.value.kind = "unset"
             /\ sandboxWriters # {} =>
                  resolved.sandbox.source = agents[LastWriter(sandboxWriters)].label
<1> DEFINE agent == MergeAgentConfig(file.agent, Entry(file, BaseName(id)),
                                     Own(file, id))
           loaded == AgentLayers(file, id)
           agents == AgentLayers(content, id)
           entries == PartLayers(file, id)
           parts == PartLayers(content, id)
<1>1. /\ EntriesOf(file, BaseName(id)) # {}
      /\ resolved.part = MergeChannelPart(Entry(file, BaseName(id)).part,
                                          BaseName(id), Own(file, id).part)
      /\ resolved.fields = agent.fields
      /\ resolved.sandbox = agent.sandbox /\ resolved.sandbox # Failed
  BY ResolvedIs
<1>2. /\ \A i \in DOMAIN loaded :
           /\ SameLayer(loaded[i], agents[i]) /\ loaded[i].label = agents[i].label
      /\ SandboxWriters(loaded) = SandboxWriters(agents)
      /\ FieldWriters(loaded, k) = FieldWriters(agents, k)
      /\ AreAgentLayers(loaded, file, id)
  BY <1>1, SameAgentLayers, AgentLayersAre
<1>3. LET writers == PartWriters(parts, k)
      IN  /\ writers = {} <=> k \notin DOMAIN resolved.part.value
          /\ writers # {} =>
               /\ resolved.part.value[k] = parts[LastWriter(writers)].part[k]
               /\ resolved.part.source[k] = parts[LastWriter(writers)].label
  <2> DEFINE writers == PartWriters(entries, k)
  <2>1. /\ writers = {} <=> k \notin DOMAIN resolved.part.value
        /\ writers # {} =>
             /\ LastWriter(writers) \in writers
             /\ resolved.part.value[k] = entries[LastWriter(writers)].part[k]
             /\ resolved.part.source[k] = entries[LastWriter(writers)].label
    BY <1>1, PartsMerged
  <2>2. /\ writers = PartWriters(parts, k)
        /\ \A i \in DOMAIN entries : entries[i].part = parts[i].part
                                     /\ entries[i].label = parts[i].label
    BY <1>1, SamePartLayers
  <2>3. writers # {} => LastWriter(writers) \in DOMAIN entries
    BY <2>1 DEF PartWriters
  <2> HIDE DEF entries, writers
  <2> QED BY <2>1, <2>2, <2>3
<1>4. LET writers == FieldWriters(agents, k)
      IN  /\ writers = {} <=> k \notin DOMAIN resolved.fields.value
          /\ writers # {} =>
               /\ k # "env" => resolved.fields.value[k] =
                                 agents[LastWriter(writers)].fields[k]
               /\ resolved.fields.source[k] = agents[LastWriter(writers)].label
  <2> DEFINE writers == FieldWriters(loaded, k)
  <2>1. /\ writers = {} <=> k \notin DOMAIN resolved.fields.value
        /\ writers # {} =>
             /\ LastWriter(writers) \in writers
             /\ resolved.fields.value[k] = loaded[LastWriter(writers)].fields[k]
             /\ resolved.fields.source[k] = loaded[LastWriter(writers)].label
    BY <1>1, <1>2, FieldsMerged
  <2>2. writers # {} => /\ LastWriter(writers) \in DOMAIN loaded
                        /\ k \in DOMAIN loaded[LastWriter(writers)].fields
    BY <2>1 DEF FieldWriters
  <2> HIDE DEF loaded, writers
  <2>3. writers = FieldWriters(agents, k)
    BY <1>2 DEF writers
  <2> QED BY <1>2, <2>1, <2>2, <2>3 DEF SameLayer
<1>5. LET writers == SandboxWriters(agents)
      IN  /\ writers = {} <=> resolved.sandbox.value.kind = "unset"
          /\ writers # {} =>
               resolved.sandbox.source = agents[LastWriter(writers)].label
  <2> DEFINE writers == SandboxWriters(loaded)
  <2>1. \A i \in DOMAIN loaded : loaded[i].sandbox.kind \in LoadedKinds
    BY <1>2 DEF SameLayer
  <2>2. /\ writers = {} <=> resolved.sandbox.value.kind = "unset"
        /\ writers # {} =>
             /\ LastWriter(writers) \in writers
             /\ resolved.sandbox.source = loaded[LastWriter(writers)].label
    BY <1>1, <1>2, <2>1, SandboxMerged
  <2>3. writers # {} => LastWriter(writers) \in DOMAIN loaded
    BY <2>2 DEF SandboxWriters
  <2> HIDE DEF loaded, writers
  <2>4. writers = SandboxWriters(agents)
    BY <1>2 DEF writers
  <2> QED BY <1>2, <2>2, <2>3, <2>4
<1> QED BY <1>3, <1>4, <1>5

\* The rows of a dump name the layer that ExpectedSource names.
LEMMA DumpIsAsExpected ==
  ASSUME NEW content, SchemasAccept(content), NEW file, SameFile(file, content),
         NEW id, NEW dump, dump = ResolveChannelConfig(file, id), dump # Failed,
         NEW json \in BOOLEAN,
         NEW row \in FormatEffectiveConfig(dump, json, {"model", "env"})
  PROVE  row.source = ExpectedSource(content, id, row)
<1>1. dump # None
  BY DEF FormatEffectiveConfig
<1> DEFINE agents == AgentLayers(content, id)
           parts == PartLayers(content, id)
<1>2. EntriesOf(file, BaseName(id)) # {}
  BY <1>1, ResolvedIs
<1>3. ASSUME NEW k
      PROVE  LET writers == PartWriters(parts, k)
             IN  /\ writers = {} <=> k \notin DOMAIN dump.part.value
                 /\ writers # {} =>
                      /\ dump.part.value[k] = parts[LastWriter(writers)].part[k]
                      /\ dump.part.source[k] = parts[LastWriter(writers)].label
  BY <1>1, LayersResolved
<1>4. ASSUME NEW k
      PROVE  LET writers == FieldWriters(agents, k)
             IN  /\ writers = {} <=> k \notin DOMAIN dump.fields.value
                 /\ writers # {} =>
                      dump.fields.source[k] = agents[LastWriter(writers)].label
  BY <1>1, LayersResolved
<1>5. LET writers == SandboxWriters(agents)
      IN  /\ writers = {} <=> dump.sandbox.value.kind = "unset"
          /\ writers # {} =>
               dump.sandbox.source = agents[LastWriter(writers)].label
  BY <1>1, LayersResolved
<1>6. \A k \in DOMAIN dump.fields.value : k \notin DOMAIN Parts /\ k # "sandbox"
  <2> SUFFICES ASSUME NEW k \in DOMAIN dump.fields.value
               PROVE  k \notin DOMAIN Parts /\ k # "sandbox"
    OBVIOUS
  <2>1. PICK i \in DOMAIN agents : k \in DOMAIN agents[i].fields
    BY <1>4 DEF FieldWriters
  <2>2. AreAgentLayers(agents, content, id)
    BY AgentLayersAre
  <2>3. /\ Entry(content, BaseName(id)) \in
             {content.channels[j] : j \in DOMAIN content.channels}
        /\ HasOwn(content, id) =>
             Entry(content, id) \in
               {content.channels[j] : j \in DOMAIN content.channels}
    BY <1>2, SameEntry DEF HasOwn
  <2>4. /\ DOMAIN content.agent.fields \cap (DOMAIN Parts \cup {"sandbox"}) = {}
        /\ \A j \in DOMAIN content.channels :
             DOMAIN content.channels[j].fields \cap (DOMAIN Parts \cup {"sandbox"}) = {}
    BY DEF SchemasAccept, AgentIsValid
  <2>5. DOMAIN agents[i].fields \cap (DOMAIN Parts \cup {"sandbox"}) = {}
    <3>1. i = 1 \/ i = 2 \/ (i = 3 /\ HasOwn(content, id))
      BY <2>2 DEF AreAgentLayers
    <3> QED BY <2>2, <2>3, <2>4, <3>1 DEF AreAgentLayers, IsLayer
  <2> QED BY <2>1, <2>5
<1>7. \/ \E k \in DOMAIN Parts : \E p \in Parts[k] : row = Row(dump.part, k, p)
      \/ row = WholeRow(dump.part, "trigger")
      \/ \E k : k \notin DOMAIN Parts /\ k # "sandbox" /\ row = WholeRow(dump.fields, k)
      \/ row = SandboxRow(dump.sandbox)
  <2>1. \A k \in {"model", "env", "memory"} : k \notin DOMAIN Parts /\ k # "sandbox"
    BY DEF Parts
  <2>2. CASE row \in FormatJson(dump, {"model", "env"})
    BY <2>1, <2>2 DEF FormatJson
  <2>3. CASE row \in BuildChannelFields(dump.part)
    BY <2>3 DEF BuildChannelFields
  <2>4. CASE row \in BuildAgentFields(dump.fields, dump.sandbox)
    BY <1>6, <2>1, <2>4 DEF BuildAgentFields
  <2> QED BY <1>1, <2>2, <2>3, <2>4 DEF FormatEffectiveConfig, FormatPretty
<1> HIDE DEF agents, parts
<1>8. ASSUME NEW k \in DOMAIN Parts, NEW p \in Parts[k], row = Row(dump.part, k, p)
      PROVE  row.source = ExpectedSource(content, id, row)
  <2>1. k # "sandbox" /\ p # "whole"
    BY <1>8 DEF Parts
  <2>2. row.key = k /\ row.part = p
        /\ row.source = IF k \in DOMAIN dump.part.value /\ p \in DOMAIN dump.part.value[k]
                        THEN dump.part.source[k] ELSE "code_default"
    BY <1>8 DEF Row, FieldSource, HasPart
  <2> QED BY <1>3, <1>8, <2>1, <2>2 DEF ExpectedSource, LabelOf, parts
<1>9. ASSUME row = WholeRow(dump.part, "trigger")
      PROVE  row.source = ExpectedSource(content, id, row)
  <2>1. row.key = "trigger" /\ row.part = "whole" /\ "trigger" \in DOMAIN Parts
        /\ row.source = IF "trigger" \in DOMAIN dump.part.value
                        THEN dump.part.source["trigger"] ELSE "code_default"
    BY <1>9 DEF WholeRow, FieldSource, Parts
  <2> QED BY <1>3, <2>1 DEF ExpectedSource, LabelOf, parts
<1>10. ASSUME NEW k, k \notin DOMAIN Parts, k # "sandbox", row = WholeRow(dump.fields, k)
       PROVE  row.source = ExpectedSource(content, id, row)
  <2>1. row.key = k
        /\ row.source = IF k \in DOMAIN dump.fields.value
                        THEN dump.fields.source[k] ELSE "code_default"
    BY <1>10 DEF WholeRow, FieldSource
  <2> QED BY <1>4, <1>10, <2>1 DEF ExpectedSource, LabelOf, agents
<1>11. ASSUME row = SandboxRow(dump.sandbox)
       PROVE  row.source = ExpectedSource(content, id, row)
  <2>1. row.key = "sandbox"
        /\ row.source = IF dump.sandbox.value.kind = "unset"
                        THEN "code_default" ELSE dump.sandbox.source
    BY <1>11 DEF SandboxRow
  <2> QED BY <1>5, <2>1 DEF ExpectedSource, LabelOf, agents
<1> QED BY <1>7, <1>8, <1>9, <1>10, <1>11

-----------------------------------------------------------------------------
(* Which content a lookup works with.                                      *)

LoadedFrom(file, v) ==
  /\ v \in 1..Len(writes) /\ file # Failed
  /\ \E rules \in RuleFiles \cup {{}} :
       file = LoadChannelConfigFile(writes[v].content, rules, TRUE)

CacheIsLoaded == cache # None => LoadedFrom(cache.file, cache.version)

CallIsLoaded(c) ==
  /\ c.step \in {"store", "inline"} => LoadedFrom(c.file, c.version)
  /\ c.step = "done" /\ c.result # Failed =>
       /\ LoadedFrom(c.file, c.version)
       /\ IsAnswer(c.result, ResolveChannelConfig(c.file, c.id), c.prompt)

LoadInv ==
  /\ ruleFile \in RuleFiles
  /\ CacheIsLoaded
  /\ \A l \in Lookup : CallIsLoaded(call[l])

\* Loading answers from the content it is given.
LEMMA LoadedStep ==
  ASSUME Inv, NEW l \in Lookup, NEW v \in 1..Len(writes),
         NEW rules \in RuleFiles \cup {{}}, call[l].step \in Steps
  PROVE  CallIsLoaded(Loaded(l, writes[v].content, rules, v))
<1> DEFINE file == LoadChannelConfigFile(writes[v].content, rules, TRUE)
           c == Loaded(l, writes[v].content, rules, v)
<1>0. DOMAIN call[l] = Fields
  BY DEF Inv, CallsAre, CallIs
<1>1. c = IF file = Failed THEN Fail([call[l] EXCEPT !.version = v])
          ELSE [call[l] EXCEPT !.step = "store", !.file = file, !.version = v]
  BY DEF Loaded
<1>2. file # Failed => LoadedFrom(file, v)
  BY DEF LoadedFrom
<1> HIDE DEF file, c
<1>3. CASE file = Failed
  <2>1. c.step = "done" /\ c.result = Failed
    BY <1>0, <1>1, <1>3 DEF Fail, Fields
  <2> QED BY <2>1 DEF CallIsLoaded, c
<1>4. CASE file # Failed
  <2>1. c.step = "store" /\ c.file = file /\ c.version = v
    BY <1>0, <1>1, <1>4 DEF Fields
  <2> QED BY <1>2, <1>4, <2>1 DEF CallIsLoaded, c
<1> QED BY <1>3, <1>4

\* Each step keeps what cache and lookups hold a load of a content written.
LEMMA LoadStep == ASSUME Inv, LoadInv, [Next]_vars PROVE LoadInv'
<1>0. /\ DOMAIN call = Lookup /\ Len(writes) \in 1..Len(writes)
      /\ \A l \in Lookup : DOMAIN call[l] = Fields /\ call[l].step \in Steps
  <2>1. Len(writes) \in Nat /\ Len(writes) >= 1
    BY DEF Inv, WritesGrow
  <2> QED BY <2>1 DEF Inv, CallsAre, CallIs
<1>1. \A file, v : LoadedFrom(file, v) => LoadedFrom(file, v)'
  <2>1. CASE \E content \in Contents : Write(content)
    <3>1. PICK content \in Contents : Write(content)
      BY <2>1
    <3>2. writes \in Seq([content : Contents, mtime : Nat]) /\ now \in Nat
      BY DEF Inv, WritesGrow
    <3>3. /\ Len(writes') = Len(writes) + 1 /\ Len(writes) \in Nat
          /\ \A v \in 1..Len(writes) : writes'[v] = writes[v]
      BY <3>1, <3>2 DEF Write
    <3>4. ASSUME NEW file, NEW v, LoadedFrom(file, v) PROVE LoadedFrom(file, v)'
      <4>1. v \in 1..Len(writes) /\ v \in 1..Len(writes') /\ writes'[v] = writes[v]
        BY <3>3, <3>4 DEF LoadedFrom
      <4> QED BY <3>4, <4>1 DEF LoadedFrom
    <3> QED BY <3>4
  <2>2. CASE writes' = writes
    BY <2>2 DEF LoadedFrom
  <2> QED BY <2>1, <2>2 DEF Next, vars, Tick, WriteRules, WritePrompt, Begin,
                            Stat, CheckCache, Read, ReadRules, Store, Inline, Return
<1>2. \A c : CallIsLoaded(c) => CallIsLoaded(c)'
  BY <1>1 DEF CallIsLoaded
<1>3. ruleFile' \in RuleFiles
  BY DEF LoadInv, Next, vars, Tick, Write, WriteRules, WritePrompt, Begin,
         Stat, CheckCache, Read, ReadRules, Store, Inline, Return
<1>4. ASSUME UNCHANGED <<cache, call>> PROVE LoadInv'
  BY <1>1, <1>2, <1>3, <1>4 DEF LoadInv, CacheIsLoaded
<1>5. ASSUME NEW l \in Lookup, NEW c, call' = [call EXCEPT ![l] = c],
             CallIsLoaded(c), cache' = cache
      PROVE  LoadInv'
  BY <1>0, <1>1, <1>2, <1>3, <1>5 DEF LoadInv, CacheIsLoaded
<1>7. ASSUME NEW l \in Lookup, NEW id \in ChannelIds, Begin(l, id) PROVE LoadInv'
  <2>1. PICK c : c = [Idle EXCEPT !.step = "stat", !.id = id,
                        !.began = Len(writes), !.beganPrompts = prompts]
    OBVIOUS
  <2>2. CallIsLoaded(c)
    BY <2>1 DEF CallIsLoaded, Idle
  <2> QED BY <1>5, <1>7, <2>1, <2>2 DEF Begin
<1>8. ASSUME NEW l \in Lookup, Stat(l) PROVE LoadInv'
  <2>1. PICK c : c = IF Current.content = Missing
                     THEN [call[l] EXCEPT !.step = "read"]
                     ELSE [call[l] EXCEPT !.step = "check", !.mtime = Current.mtime]
    OBVIOUS
  <2>2. c.step \in {"read", "check"}
    BY <1>0, <2>1 DEF Fields
  <2>3. CallIsLoaded(c)
    BY <2>2 DEF CallIsLoaded
  <2> QED BY <1>5, <1>8, <2>1, <2>3 DEF Stat
<1>9. ASSUME NEW l \in Lookup, CheckCache(l) PROVE LoadInv'
  <2>1. PICK c : c = IF IsCached(l)
                     THEN [call[l] EXCEPT !.step = "inline", !.file = cache.file,
                                          !.version = cache.version]
                     ELSE [call[l] EXCEPT !.step = "read"]
    OBVIOUS
  <2>2. CASE IsCached(l)
    <3>1. c.step = "inline" /\ c.file = cache.file /\ c.version = cache.version
      BY <1>0, <2>1, <2>2 DEF Fields
    <3>2. LoadedFrom(cache.file, cache.version)
      BY <2>2 DEF IsCached, LoadInv, CacheIsLoaded
    <3>3. CallIsLoaded(c)
      BY <3>1, <3>2 DEF CallIsLoaded
    <3> QED BY <1>5, <1>9, <2>1, <3>3 DEF CheckCache
  <2>3. CASE ~IsCached(l)
    <3>1. c.step = "read"
      BY <1>0, <2>1, <2>3 DEF Fields
    <3>2. CallIsLoaded(c)
      BY <3>1 DEF CallIsLoaded
    <3> QED BY <1>5, <1>9, <2>1, <3>2 DEF CheckCache
  <2> QED BY <2>2, <2>3
<1>10. ASSUME NEW l \in Lookup, Read(l) PROVE LoadInv'
  <2>1. CASE call' = [call EXCEPT ![l] =
                        [@ EXCEPT !.step = "rules", !.version = Len(writes)]]
    <3>1. PICK c : c = [call[l] EXCEPT !.step = "rules", !.version = Len(writes)]
      OBVIOUS
    <3>2. c.step = "rules"
      BY <1>0, <3>1 DEF Fields
    <3>3. CallIsLoaded(c)
      BY <3>2 DEF CallIsLoaded
    <3> QED BY <1>5, <1>10, <2>1, <3>1, <3>3 DEF Read
  <2>2. CASE call' = [call EXCEPT ![l] =
                        Loaded(l, Current.content, {}, Len(writes))]
    <3>1. CallIsLoaded(Loaded(l, Current.content, {}, Len(writes)))
      BY <1>0, LoadedStep DEF Current
    <3> QED BY <1>5, <1>10, <2>2, <3>1 DEF Read
  <2> QED BY <1>10, <2>1, <2>2 DEF Read
<1>11. ASSUME NEW l \in Lookup, ReadRules(l) PROVE LoadInv'
  <2>1. call[l].version \in 1..Len(writes)
    BY <1>0, <1>11 DEF ReadRules, Inv, CallsAre, CallIs, WritesGrow
  <2>2. CallIsLoaded(Loaded(l, writes[call[l].version].content, ruleFile,
                            call[l].version))
    BY <1>0, <2>1, LoadedStep DEF LoadInv
  <2> QED BY <1>5, <1>11, <2>2 DEF ReadRules
<1>12. ASSUME NEW l \in Lookup, Store(l) PROVE LoadInv'
  <2>1. PICK c : c = [call[l] EXCEPT !.step = "inline"]
    OBVIOUS
  <2>2. LoadedFrom(call[l].file, call[l].version)
    BY <1>12 DEF Store, LoadInv, CallIsLoaded
  <2>3. c.step = "inline" /\ c.file = call[l].file /\ c.version = call[l].version
    BY <1>0, <2>1 DEF Fields
  <2>4. CallIsLoaded(c)
    BY <2>2, <2>3 DEF CallIsLoaded
  <2>5. CacheIsLoaded'
    BY <1>1, <1>12, <2>2 DEF Store, LoadInv, CacheIsLoaded
  <2> QED BY <1>0, <1>2, <1>3, <1>12, <2>1, <2>4, <2>5 DEF Store, LoadInv
<1>13. ASSUME NEW l \in Lookup, Inline(l) PROVE LoadInv'
  <2>1. PICK result : result = ResolveFileReferences(
                        ResolveChannelConfig(call[l].file, call[l].id), PromptRead)
    OBVIOUS
  <2>2. PICK c : c = [call[l] EXCEPT !.step = "done", !.prompt = prompts,
                                     !.result = result]
    OBVIOUS
  <2>3. LoadedFrom(call[l].file, call[l].version)
    BY <1>13 DEF Inline, LoadInv, CallIsLoaded
  <2>4. /\ c.step = "done" /\ c.file = call[l].file /\ c.id = call[l].id
        /\ c.version = call[l].version /\ c.prompt = prompts /\ c.result = result
    BY <1>0, <2>2 DEF Fields
  <2>5. PromptRead \in {Missing, c.prompt}
    BY <2>4 DEF PromptRead
  <2>6. CallIsLoaded(c)
    BY <2>1, <2>3, <2>4, <2>5 DEF CallIsLoaded, IsAnswer
  <2> QED BY <1>5, <1>13, <2>1, <2>2, <2>6 DEF Inline
<1>14. ASSUME NEW l \in Lookup, Return(l) PROVE LoadInv'
  <2>1. CallIsLoaded(Idle)
    BY DEF CallIsLoaded, Idle
  <2> QED BY <1>5, <1>14, <2>1 DEF Return
<1> QED BY <1>4, <1>7, <1>8, <1>9, <1>10, <1>11, <1>12, <1>13, <1>14
        DEF Next, vars, Tick, Write, WriteRules, WritePrompt

\* The invariants hold, and a lookup that succeeds answers from them.
LEMMA Loads == Spec => [](Inv /\ LoadInv)
<1>1. Init => Inv /\ LoadInv
  BY InitStep DEF Init, LoadInv, CacheIsLoaded, CallIsLoaded, Idle
<1>2. Inv /\ LoadInv /\ [Next]_vars => (Inv /\ LoadInv)'
  BY LoadStep, InvStep
<1> QED BY <1>1, <1>2, PTL DEF Spec

\* A lookup that succeeds answers from a content the schemas accept.
LEMMA AnswerOf ==
  ASSUME Inv, LoadInv, NEW l \in Lookup, Succeeded(l), call[l].result # None,
         NEW content, content = writes[call[l].version].content,
         NEW file, file = call[l].file, NEW id, id = call[l].id
  PROVE  /\ SchemasAccept(content) /\ SameFile(file, content)
         /\ IsAnswer(call[l].result, ResolveChannelConfig(file, id), call[l].prompt)
<1>1. /\ LoadedFrom(file, call[l].version)
      /\ IsAnswer(call[l].result, ResolveChannelConfig(file, id), call[l].prompt)
  BY DEF LoadInv, CallIsLoaded, Succeeded
<1>2. PICK rules : file = LoadChannelConfigFile(content, rules, TRUE)
  BY <1>1 DEF LoadedFrom
<1>3. content \in Contents
  <2>1. call[l].version \in 1..Len(writes)
    BY <1>1 DEF LoadedFrom
  <2>2. writes \in Seq([content : Contents, mtime : Nat])
    BY DEF Inv, WritesGrow
  <2>3. PICK v \in 1..Len(writes) : v = call[l].version
    BY <2>1
  <2>4. \A S : writes \in Seq(S) => writes[v] \in S
    OBVIOUS
  <2> QED BY <2>2, <2>3, <2>4
<1>4. content \notin {Missing, Broken}
  BY <1>1, <1>2 DEF LoadChannelConfigFile, Validates, LoadedFrom
<1>5. SchemasAccept(content)
  BY <1>3, <1>4, ContentsAssumption
<1>6. SameFile(file, content)
  BY <1>1, <1>2, <1>5, LoadKeeps DEF LoadedFrom
<1> QED BY <1>1, <1>5, <1>6

\* channel(id): key by key the last layer that writes a key decides, whatever
\* the file says, and both forms of dump name that layer.
THEOREM SettingsAreAsWritten == Spec => []ResolvedAsWritten
<1>1. Inv /\ LoadInv => ResolvedAsWritten
  <2> SUFFICES ASSUME Inv, LoadInv, NEW l \in Lookup, Succeeded(l),
                      call[l].result # None
               PROVE
        LET content == writes[call[l].version].content
            id == call[l].id
            result == call[l].result
            parts == PartLayers(content, id)
            agents == AgentLayers(content, id)
            dump == RunDump(content, ruleFile, id)
        IN
        /\ \A k \in DOMAIN Parts :
             LET writers == PartWriters(parts, k)
             IN  IF writers = {} THEN k \notin DOMAIN result.part.value
                 ELSE result.part.value[k] = parts[LastWriter(writers)].part[k]
        /\ \A k \in {"model", "systemPrompt"} :
             LET writers == FieldWriters(agents, k)
             IN  IF writers = {} THEN k \notin DOMAIN result.fields.value
                 ELSE IF k = "systemPrompt"
                         /\ agents[LastWriter(writers)].fields[k] = PromptRef
                 THEN result.fields.value[k] = call[l].prompt
                 ELSE result.fields.value[k] = agents[LastWriter(writers)].fields[k]
        /\ dump # Failed =>
             \A json \in BOOLEAN :
               \A row \in FormatEffectiveConfig(dump, json, {"model", "env"}) :
                 row.source = ExpectedSource(content, id, row)
    BY DEF ResolvedAsWritten
  <2> DEFINE content == writes[call[l].version].content
             id == call[l].id
             result == call[l].result
             parts == PartLayers(content, id)
             agents == AgentLayers(content, id)
             dump == RunDump(content, ruleFile, id)
  <2>1. PICK file : file = call[l].file
    OBVIOUS
  <2>2. PICK resolved : resolved = ResolveChannelConfig(file, id)
    OBVIOUS
  <2>3. /\ SchemasAccept(content) /\ SameFile(file, content)
        /\ IsAnswer(result, resolved, call[l].prompt)
    BY <2>1, <2>2, AnswerOf
  <2> HIDE DEF content, id, dump
  <2>4. /\ resolved # None /\ resolved # Failed
        /\ result.part = resolved.part
        /\ DOMAIN result.fields.value = DOMAIN resolved.fields.value
        /\ \A k \in DOMAIN resolved.fields.value :
             result.fields.value[k] =
               IF k = "systemPrompt" /\ resolved.fields.value[k] = PromptRef
               THEN call[l].prompt ELSE resolved.fields.value[k]
    <3>1. result # Failed /\ result # None
      BY DEF Succeeded
    <3> HIDE DEF result
    <3> QED BY <2>2, <2>3, <3>1, AnswerIs
  <2>5. ASSUME NEW k
        PROVE  LET partWriters == PartWriters(parts, k)
                   fieldWriters == FieldWriters(agents, k)
               IN  /\ partWriters = {} <=> k \notin DOMAIN resolved.part.value
                   /\ partWriters # {} => resolved.part.value[k] =
                                            parts[LastWriter(partWriters)].part[k]
                   /\ fieldWriters = {} <=> k \notin DOMAIN resolved.fields.value
                   /\ fieldWriters # {} /\ k # "env" =>
                        resolved.fields.value[k] =
                          agents[LastWriter(fieldWriters)].fields[k]
    BY <2>2, <2>3, <2>4, LayersResolved
  <2> HIDE DEF parts, agents, result
  <2>6. \A k \in DOMAIN Parts :
          LET writers == PartWriters(parts, k)
          IN  IF writers = {} THEN k \notin DOMAIN result.part.value
              ELSE result.part.value[k] = parts[LastWriter(writers)].part[k]
    BY <2>4, <2>5
  <2>7. \A k \in {"model", "systemPrompt"} :
          LET writers == FieldWriters(agents, k)
          IN  IF writers = {} THEN k \notin DOMAIN result.fields.value
              ELSE IF k = "systemPrompt"
                      /\ agents[LastWriter(writers)].fields[k] = PromptRef
              THEN result.fields.value[k] = call[l].prompt
              ELSE result.fields.value[k] = agents[LastWriter(writers)].fields[k]
    BY <2>4, <2>5
  <2>8. ASSUME dump # Failed, NEW json \in BOOLEAN,
               NEW row \in FormatEffectiveConfig(dump, json, {"model", "env"})
        PROVE  row.source = ExpectedSource(content, id, row)
    <3>1. PICK again : again = LoadChannelConfigFile(content, ruleFile, FALSE)
      OBVIOUS
    <3>2. again # Failed /\ dump = ResolveChannelConfig(again, id)
      BY <2>8, <3>1 DEF RunDump, dump
    <3>3. SameFile(again, content)
      BY <2>3, <3>1, <3>2, LoadKeeps
    <3> QED BY <2>3, <2>8, <3>2, <3>3, DumpIsAsExpected
  <2> QED BY <2>6, <2>7, <2>8 DEF parts, agents, result, content, id, dump
<1> QED BY <1>1, Loads, PTL

\* mergeSandboxLayer: what a Channel writes is added to the rules of the top
\* level or turns the sandbox off, and a merge that would lose a rule fails.
THEOREM SandboxGrows == Spec => []SandboxOnlyGrows
<1>1. Inv /\ LoadInv => SandboxOnlyGrows
  <2> SUFFICES ASSUME Inv, LoadInv, NEW l \in Lookup, Succeeded(l),
                      call[l].result # None,
                      NEW layers, layers = AgentLayers(call[l].file, call[l].id),
                      NEW sandbox, sandbox = call[l].result.sandbox
               PROVE  IF sandbox.value.kind = "rules"
                      THEN sandbox.value.rules =
                             UNION {layers[i].sandbox.rules : i \in Added(layers)}
                      ELSE \A i \in Added(layers) :
                             i < LastWriter(SandboxWriters(layers))
    BY Zenon DEF SandboxOnlyGrows, Added
  <2>1. PICK file, id, content : file = call[l].file /\ id = call[l].id
                                 /\ content = writes[call[l].version].content
    OBVIOUS
  <2>2. PICK resolved : resolved = ResolveChannelConfig(file, id)
    OBVIOUS
  <2>3. /\ SchemasAccept(content) /\ SameFile(file, content)
        /\ IsAnswer(call[l].result, resolved, call[l].prompt)
    BY <2>1, <2>2, AnswerOf
  <2>4. resolved # None /\ resolved # Failed /\ sandbox = resolved.sandbox
    <3>1. call[l].result # Failed
      BY DEF Succeeded
    <3> QED BY <2>2, <2>3, <3>1, AnswerIs
  <2>5. /\ EntriesOf(file, BaseName(id)) # {}
        /\ sandbox = MergeAgentConfig(file.agent, Entry(file, BaseName(id)),
                                      Own(file, id)).sandbox
        /\ sandbox # Failed
    BY <2>2, <2>4, ResolvedIs
  <2>6. \A i \in DOMAIN layers : layers[i].sandbox.kind \in LoadedKinds
    BY <2>1, <2>3, <2>5, SameAgentLayers DEF SameLayer
  <2>7. AreAgentLayers(layers, file, id)
    BY <2>1, AgentLayersAre
  <2> QED BY <2>5, <2>6, <2>7, SandboxMerged
<1> QED BY <1>1, Loads, PTL

-----------------------------------------------------------------------------
(* The recursive functions of Gate.  The prover has no induction over      *)
(* trees; the least number of a set takes its place.                       *)

\* Of some numbers one is the least.
LEMMA Smallest ==
  ASSUME NEW S, S \subseteq Nat, S # {}
  PROVE  \E least \in S : \A n \in S : least <= n
<1> DEFINE R == {pair \in Nat \X Nat : pair[1] < pair[2]}
<1>1. IsWellFoundedOn(R, Nat)
  BY NatLessThanWellFounded DEF OpToRel
<1>2. PICK least \in S : \A n \in S : <<n, least>> \notin R
  <2> HIDE DEF R
  <2> QED BY <1>1, WFMin
<1>3. \A n \in S : ~ (n < least)
  BY <1>2
<1> QED BY <1>2, <1>3

\* Two functions agree on the nodes below a height.
Agree(f, g, height) == \A node \in Node : Height[node] < height => f[node] = g[node]

\* A function that a step fixes exists when the step computes the value of a
\* node from the values of lower ones.
LEMMA FixedPoint ==
  ASSUME NEW V, NEW B \in [[Node -> V] -> [Node -> V]],
         \A f, g \in [Node -> V] : \A node \in Node :
           Agree(f, g, Height[node]) => B[f][node] = B[g][node],
         [Node -> V] # {}
  PROVE  \E f \in [Node -> V] : B[f] = f
<1> DEFINE Fixed(f, h) == Agree(B[f], f, h)
           Unfixed == {h \in Nat : \A f \in [Node -> V] : ~Fixed(f, h)}
<1>1. Unfixed = {}
  <2> SUFFICES ASSUME Unfixed # {}  PROVE FALSE
    OBVIOUS
  <2>1. PICK h \in Unfixed : \A k \in Unfixed : h <= k
    <3>1. Unfixed \subseteq Nat
      OBVIOUS
    <3> HIDE DEF Unfixed
    <3> QED BY <3>1, Smallest
  <2>2. h # 0
    BY TreeAssumption DEF Agree
  <2>3. h \in Nat /\ h - 1 \in Nat /\ h - 1 \notin Unfixed
    BY <2>1, <2>2
  <2>4. PICK f \in [Node -> V] : Fixed(f, h - 1)
    BY <2>3
  <2>5. B[f] \in [Node -> V]
    OBVIOUS
  <2>6. \A node \in Node : Height[node] < h => B[B[f]][node] = B[f][node]
    <3> TAKE node \in Node
    <3> HAVE Height[node] < h
    <3>1. Agree(B[f], f, Height[node])
      BY <2>3, <2>4, TreeAssumption DEF Agree
    <3> QED BY <2>5, <3>1
  <2>7. Fixed(B[f], h)
    BY <2>6 DEF Agree
  <2> QED BY <2>1, <2>5, <2>7
<1>2. PICK f \in [Node -> V] : Fixed(f, Depth + 1)
  <2>1. Depth + 1 \in Nat
    BY TreeAssumption
  <2>2. Depth + 1 \notin Unfixed
    BY <1>1
  <2> QED BY <2>1, <2>2
<1>3. \A node \in Node : B[f][node] = f[node]
  BY <1>2, TreeAssumption DEF Agree
<1>4. B[f] = f
  <2>1. B[f] \in [Node -> V]
    OBVIOUS
  <2> QED BY <1>3, <2>1
<1> QED BY <1>4

\* The value of a node from those of its children: Evaluate and Means without
\* their recursion.
LeafOutcome(node, ev, answers) ==
  [trigger |-> Decide(node, ev, answers), asked |-> Calls(node, ev)]

Below(f, node, ev, at) == [i \in DOMAIN Children(node) |-> f[Children(node)[i]][ev][at]]

EvaluatedAt(f, node, ev, answers) ==
  IF IsLeaf(node) THEN LeafOutcome(node, ev, answers)
  ELSE Combine(IsAnd(node), Below(f, node, ev, answers))

MeantAt(f, node, ev, yes) ==
  IF IsLeaf(node)
  THEN IF node.gate = "classifier" THEN ev.kind = "message" /\ node.call \in yes
       ELSE Decide(node, ev, NoAnswers)
  ELSE IF IsAnd(node)
  THEN \A i \in DOMAIN Children(node) : f[Children(node)[i]][ev][yes]
  ELSE \E i \in DOMAIN Children(node) : f[Children(node)[i]][ev][yes]

EvaluatedFrom(f, node) ==
  [ev \in Sort |-> [answers \in Answers |-> EvaluatedAt(f, node, ev, answers)]]

MeantFrom(f, node) ==
  [ev \in Sort |-> [yes \in SUBSET Classifier |-> MeantAt(f, node, ev, yes)]]

Outcome == [trigger : BOOLEAN, asked : SUBSET Classifier]

LEMMA EvaluatedLocal ==
  ASSUME NEW f, NEW g, NEW node \in Node, Agree(f, g, Height[node])
  PROVE  EvaluatedFrom(f, node) = EvaluatedFrom(g, node)
<1>1. CASE IsLeaf(node)
  BY <1>1 DEF EvaluatedFrom, EvaluatedAt
<1>2. CASE ~IsLeaf(node)
  <2>1. \A i \in DOMAIN Children(node) : f[Children(node)[i]] = g[Children(node)[i]]
    BY <1>2, TreeAssumption DEF Agree
  <2>2. \A ev, answers : Below(f, node, ev, answers) = Below(g, node, ev, answers)
    BY <2>1 DEF Below
  <2> QED BY <1>2, <2>2 DEF EvaluatedFrom, EvaluatedAt
<1> QED BY <1>1, <1>2

\* What Combine makes of outcomes.
LEMMA CombineType ==
  ASSUME NEW of, \A i \in DOMAIN of : of[i] \in Outcome, NEW isAnd \in BOOLEAN
  PROVE  Combine(isAnd, of) \in Outcome
<1> DEFINE deciding == {i \in DOMAIN of : of[i].trigger # isAnd}
           reached == {i \in DOMAIN of : \A j \in deciding : i <= j}
<1>1. UNION {of[i].asked : i \in reached} \in SUBSET Classifier
  BY DEF Outcome
<1>2. ((deciding # {}) # isAnd) \in BOOLEAN
  OBVIOUS
<1>3. Combine(isAnd, of) =
        [trigger |-> (deciding # {}) # isAnd, asked |-> UNION {of[i].asked : i \in reached}]
  BY DEF Combine
<1> HIDE DEF deciding, reached
<1> QED BY <1>1, <1>2, <1>3 DEF Outcome

LEMMA CombineMeans ==
  ASSUME NEW of, \A i \in DOMAIN of : of[i].trigger \in BOOLEAN, NEW isAnd \in BOOLEAN
  PROVE  /\ Combine(isAnd, of).trigger \in BOOLEAN
         /\ Combine(isAnd, of).trigger <=>
              IF isAnd THEN \A i \in DOMAIN of : of[i].trigger
                       ELSE \E i \in DOMAIN of : of[i].trigger
<1> DEFINE deciding == {i \in DOMAIN of : of[i].trigger # isAnd}
<1>1. Combine(isAnd, of).trigger = ((deciding # {}) # isAnd)
  BY DEF Combine
<1>2. \A i \in DOMAIN of : i \in deciding <=> ~(of[i].trigger <=> isAnd)
  OBVIOUS
<1>3. deciding = {} <=> \A i \in DOMAIN of : i \notin deciding
  OBVIOUS
<1>4. ((deciding # {}) # isAnd) \in BOOLEAN /\ (((deciding # {}) # isAnd) <=> ~(deciding # {} <=> isAnd))
  <2> HIDE DEF deciding
  <2> QED OBVIOUS
<1> HIDE DEF deciding
<1> QED BY <1>1, <1>2, <1>3, <1>4

LEMMA EvaluatedType ==
  ASSUME NEW f \in [Node -> [Sort -> [Answers -> Outcome]]], NEW node \in Node,
         NEW ev \in Sort, NEW answers \in Answers
  PROVE  EvaluatedAt(f, node, ev, answers) \in Outcome
<1>1. CASE IsLeaf(node)
  <2>1. Calls(node, ev) \in SUBSET Classifier
    BY <1>1, TreeAssumption DEF Calls
  <2>2. Decide(node, ev, answers) \in BOOLEAN
    BY DEF Decide
  <2> QED BY <1>1, <2>1, <2>2 DEF EvaluatedAt, LeafOutcome, Outcome
<1>2. CASE ~IsLeaf(node)
  <2>1. \A i \in DOMAIN Below(f, node, ev, answers) :
          Below(f, node, ev, answers)[i] \in Outcome
    BY <1>2, TreeAssumption DEF Below
  <2>2. IsAnd(node) \in BOOLEAN
    BY DEF IsAnd
  <2> QED BY <1>2, <2>1, <2>2, CombineType DEF EvaluatedAt
<1> QED BY <1>1, <1>2

\* evaluateNode satisfies its own recursion.
LEMMA EvaluateIs ==
  \A node \in Node : Evaluate[node] = EvaluatedFrom(Evaluate, node)
<1> DEFINE V == [Sort -> [Answers -> Outcome]]
           B == [f \in [Node -> V] |-> [node \in Node |-> EvaluatedFrom(f, node)]]
<1>1. B \in [[Node -> V] -> [Node -> V]]
  BY EvaluatedType DEF EvaluatedFrom
<1>2. \A f, g \in [Node -> V] : \A node \in Node :
        Agree(f, g, Height[node]) => B[f][node] = B[g][node]
  BY EvaluatedLocal
<1>3. [Node -> V] # {}
  <2>1. [trigger |-> FALSE, asked |-> {}] \in Outcome
    BY DEF Outcome
  <2>2. [node \in Node |-> [ev \in Sort |-> [answers \in Answers |->
           [trigger |-> FALSE, asked |-> {}]]]] \in [Node -> V]
    BY <2>1
  <2> QED BY <2>2
<1>4. PICK f \in [Node -> V] : B[f] = f
  <2> HIDE DEF B, V
  <2> QED BY <1>1, <1>2, <1>3, FixedPoint
<1>5. f = [node \in Node |-> EvaluatedFrom(f, node)]
  BY <1>4
<1>6. Evaluate = [node \in Node |-> EvaluatedFrom(Evaluate, node)]
  <2> HIDE DEF V, B
  <2> QED BY <1>5 DEF Evaluate, EvaluatedFrom, EvaluatedAt, LeafOutcome, Below
<1> QED BY <1>6

LEMMA MeantLocal ==
  ASSUME NEW f, NEW g, NEW node \in Node, Agree(f, g, Height[node])
  PROVE  MeantFrom(f, node) = MeantFrom(g, node)
<1>1. CASE IsLeaf(node)
  BY <1>1 DEF MeantFrom, MeantAt
<1>2. CASE ~IsLeaf(node)
  <2>1. \A i \in DOMAIN Children(node) : f[Children(node)[i]] = g[Children(node)[i]]
    BY <1>2, TreeAssumption DEF Agree
  <2> QED BY <1>2, <2>1 DEF MeantFrom, MeantAt
<1> QED BY <1>1, <1>2

LEMMA MeantType ==
  ASSUME NEW f, NEW node, NEW ev, NEW yes
  PROVE  MeantAt(f, node, ev, yes) \in BOOLEAN
<1>1. Decide(node, ev, NoAnswers) \in BOOLEAN
  BY DEF Decide
<1> QED BY <1>1 DEF MeantAt

LEMMA MeansIs ==
  \A node \in Node : Means[node] = MeantFrom(Means, node)
<1> DEFINE V == [Sort -> [SUBSET Classifier -> BOOLEAN]]
           B == [f \in [Node -> V] |-> [node \in Node |-> MeantFrom(f, node)]]
<1>1. B \in [[Node -> V] -> [Node -> V]]
  BY MeantType DEF MeantFrom
<1>2. \A f, g \in [Node -> V] : \A node \in Node :
        Agree(f, g, Height[node]) => B[f][node] = B[g][node]
  BY MeantLocal
<1>3. [Node -> V] # {}
  <2>1. [node \in Node |-> [ev \in Sort |-> [yes \in SUBSET Classifier |-> FALSE]]]
          \in [Node -> V]
    OBVIOUS
  <2> QED BY <2>1
<1>4. PICK f \in [Node -> V] : B[f] = f
  <2> HIDE DEF B, V
  <2> QED BY <1>1, <1>2, <1>3, FixedPoint
<1>5. f = [node \in Node |-> MeantFrom(f, node)]
  BY <1>4
<1>6. Means = [node \in Node |-> MeantFrom(Means, node)]
  <2> HIDE DEF V, B
  <2> QED BY <1>5 DEF Means, MeantFrom, MeantAt
<1> QED BY <1>6

\* The classifiers that said yes.
Yes(answers) == {c \in Classifier : answers[c] = "yes"}

\* The code's evaluation and the meaning of the tree agree at a node.
Faithful(node, ev, answers) ==
  Evaluate[node][ev][answers].trigger <=> Means[node][ev][Yes(answers)]

LEMMA EvaluateAt ==
  ASSUME NEW node \in Node, NEW ev \in Sort, NEW answers \in Answers
  PROVE  Evaluate[node][ev][answers] = EvaluatedAt(Evaluate, node, ev, answers)
<1>1. Evaluate[node] = EvaluatedFrom(Evaluate, node)
  BY EvaluateIs
<1> QED BY <1>1 DEF EvaluatedFrom

LEMMA MeansAt ==
  ASSUME NEW node \in Node, NEW ev \in Sort, NEW answers \in Answers
  PROVE  /\ Means[node][ev][Yes(answers)] = MeantAt(Means, node, ev, Yes(answers))
         /\ Means[node][ev][Yes(answers)] \in BOOLEAN
<1>1. Means[node] = MeantFrom(Means, node)
  BY MeansIs
<1>2. Yes(answers) \in SUBSET Classifier
  BY DEF Yes
<1>3. Means[node][ev][Yes(answers)] = MeantAt(Means, node, ev, Yes(answers))
  BY <1>1, <1>2 DEF MeantFrom
<1> QED BY <1>3, MeantType

LEMMA LeafFaithful ==
  ASSUME NEW node \in Node, IsLeaf(node), NEW ev \in Sort, NEW answers \in Answers
  PROVE  Faithful(node, ev, answers)
<1>1. Evaluate[node][ev][answers].trigger <=> Decide(node, ev, answers)
  <2>1. Evaluate[node][ev][answers] = LeafOutcome(node, ev, answers)
    BY EvaluateAt DEF EvaluatedAt
  <2>2. LeafOutcome(node, ev, answers).trigger <=> Decide(node, ev, answers)
    BY DEF LeafOutcome
  <2> QED BY <2>1, <2>2
<1>2. Means[node][ev][Yes(answers)] <=> MeantAt(Means, node, ev, Yes(answers))
  BY MeansAt
<1>3. CASE node.gate = "classifier"
  <2>1. MeantAt(Means, node, ev, Yes(answers))
          <=> ev.kind = "message" /\ node.call \in Yes(answers)
    BY <1>3 DEF MeantAt
  <2>2. Decide(node, ev, answers) <=> ev.kind = "message" /\ answers[node.call] = "yes"
    BY <1>3 DEF Decide, Answered
  <2>3. node.call \in Yes(answers) <=> answers[node.call] = "yes"
    BY <1>3, TreeAssumption DEF Yes
  <2> QED BY <1>1, <1>2, <2>1, <2>2, <2>3 DEF Faithful
<1>4. CASE node.gate # "classifier"
  <2>1. MeantAt(Means, node, ev, Yes(answers)) <=> Decide(node, ev, NoAnswers)
    BY <1>4 DEF MeantAt
  <2>2. Decide(node, ev, answers) <=> Decide(node, ev, NoAnswers)
    BY <1>4 DEF Decide
  <2> QED BY <1>1, <1>2, <2>1, <2>2 DEF Faithful
<1> QED BY <1>3, <1>4

\* Every outcome is one of Evaluate, by the equation it satisfies.
LEMMA TriggerType ==
  ASSUME NEW ev \in Sort, NEW answers \in Answers
  PROVE  \A node \in Node : Evaluate[node][ev][answers].trigger \in BOOLEAN
<1> TAKE node \in Node
<1>1. Decide(node, ev, answers) \in BOOLEAN
  BY DEF Decide
<1>2. CASE IsLeaf(node)
  <2>1. Evaluate[node][ev][answers] = LeafOutcome(node, ev, answers)
    BY <1>2, EvaluateAt DEF EvaluatedAt
  <2> QED BY <1>1, <2>1 DEF LeafOutcome
<1>3. CASE ~IsLeaf(node)
  <2> DEFINE of == Below(Evaluate, node, ev, answers)
             deciding == {i \in DOMAIN of : of[i].trigger # IsAnd(node)}
  <2>1. Evaluate[node][ev][answers] = Combine(IsAnd(node), of)
    BY <1>3, EvaluateAt DEF EvaluatedAt
  <2>2. Combine(IsAnd(node), of).trigger = ((deciding # {}) # IsAnd(node))
    BY DEF Combine
  <2> HIDE DEF deciding
  <2>3. ((deciding # {}) # IsAnd(node)) \in BOOLEAN
    OBVIOUS
  <2> QED BY <2>1, <2>2, <2>3
<1> QED BY <1>2, <1>3

LEMMA NodeFaithful ==
  ASSUME NEW node \in Node, ~IsLeaf(node), NEW ev \in Sort, NEW answers \in Answers,
         \A i \in DOMAIN Children(node) : Faithful(Children(node)[i], ev, answers)
  PROVE  Faithful(node, ev, answers)
<1> DEFINE of == Below(Evaluate, node, ev, answers)
           passes(i) == Means[Children(node)[i]][ev][Yes(answers)]
<1>1. DOMAIN of = DOMAIN Children(node)
  BY DEF Below
<1>2. \A i \in DOMAIN of : of[i].trigger \in BOOLEAN /\ (of[i].trigger <=> passes(i))
  BY TreeAssumption, TriggerType DEF Below, Faithful
<1>3. Evaluate[node][ev][answers] = Combine(IsAnd(node), of)
  BY EvaluateAt DEF EvaluatedAt
<1>4. Means[node][ev][Yes(answers)] <=>
        IF IsAnd(node) THEN \A i \in DOMAIN of : passes(i)
                       ELSE \E i \in DOMAIN of : passes(i)
  BY <1>1, MeansAt DEF MeantAt
<1>5. IsAnd(node) \in BOOLEAN
  BY DEF IsAnd
<1> HIDE DEF of, passes
<1>6. Combine(IsAnd(node), of).trigger <=>
        IF IsAnd(node) THEN \A i \in DOMAIN of : of[i].trigger
                       ELSE \E i \in DOMAIN of : of[i].trigger
  BY <1>2, <1>5, CombineMeans
<1> QED BY <1>2, <1>3, <1>4, <1>6 DEF Faithful

\* For any tree, event and answers: the evaluation, which stops at the first
\* child that decides, comes to what the tree means when exactly the
\* classifiers that said yes hold.
THEOREM EvaluationIsMeaning ==
  ASSUME NEW ev \in Sort, NEW answers \in Answers
  PROVE  \A node \in Node : Faithful(node, ev, answers)
<1> DEFINE Wrong == {node \in Node : ~Faithful(node, ev, answers)}
           Heights == {Height[node] : node \in Wrong}
<1> SUFFICES ASSUME Wrong # {}  PROVE FALSE
  OBVIOUS
<1>1. Heights \subseteq Nat /\ Heights # {}
  BY TreeAssumption
<1>2. PICK least \in Heights : \A h \in Heights : least <= h
  <2> HIDE DEF Heights
  <2> QED BY <1>1, Smallest
<1>3. PICK node \in Wrong : Height[node] = least
  BY <1>2
<1>4. ~IsLeaf(node)
  BY <1>3, LeafFaithful
<1>5. \A i \in DOMAIN Children(node) : Faithful(Children(node)[i], ev, answers)
  <2> SUFFICES ASSUME NEW i \in DOMAIN Children(node), Children(node)[i] \in Wrong
               PROVE  FALSE
    BY <1>3, <1>4, TreeAssumption
  <2>1. Height[Children(node)[i]] < Height[node]
    BY <1>3, <1>4, TreeAssumption
  <2>2. least <= Height[Children(node)[i]]
    BY <1>2
  <2> QED BY <1>1, <1>3, <2>1, <2>2
<1> QED BY <1>3, <1>4, <1>5, NodeFaithful

-----------------------------------------------------------------------------
(* Types.                                                                  *)

EventTypes ==
  /\ pc \in [Event -> Place] /\ what \in [Event -> Sort \cup {NoValue}]
  /\ read \in [Event -> Config \cup {NoConfig, NoValue}] /\ slow \subseteq Event
  /\ fate \in [Event -> Fate] /\ judged \in [Event -> {"none", "no", "pass"}]
  /\ quiet \subseteq Event /\ muted \in BOOLEAN /\ asked \subseteq Event
  /\ granted \in [Event -> SUBSET Classifier]

ChannelTypes ==
  /\ enabled \in BOOLEAN /\ config \in Config /\ reloads \in 0..MaxReload
  /\ client \in BOOLEAN
  /\ running \in {"no", "live", "ended"} /\ lease \in {"free", "session", "new", "foreign"}
  /\ timer \in {"off", "set", "firing"} /\ inbox \subseteq Event /\ marker \in BOOLEAN

\* Who writes the marker of a /new has the lease of it.
NewHasLease == lease = "new" => \E e \in Event : pc[e] = "marked"

LEMMA EndType ==
  ASSUME EventTypes, NEW e \in Event, NEW outcome \in Fate, End(e, outcome)
  PROVE  /\ pc' \in [Event -> Place] /\ fate' \in [Event -> Fate]
         /\ read' \in [Event -> Config \cup {NoConfig, NoValue}] /\ slow' \subseteq Event
BY DEF EventTypes, End, Place

LEMMA GotoType ==
  ASSUME EventTypes, NEW e \in Event, NEW place \in Place, Goto(e, place)
  PROVE  /\ pc' \in [Event -> Place] /\ fate' \in [Event -> Fate]
         /\ read' \in [Event -> Config \cup {NoConfig, NoValue}] /\ slow' \subseteq Event
BY DEF EventTypes, Goto

LEMMA EventTypesStep ==
  ASSUME EventTypes, ChannelTypes, AdmissionNext
  PROVE  EventTypes'
<1> USE DEF EventTypes, ChannelTypes
<1>1. ASSUME NEW e \in Event, NEW s \in Sort, Arrive(e, s)  PROVE EventTypes'
  BY <1>1, GotoType DEF Arrive, Place
<1>2. ASSUME NEW e \in Event, Receive(e)  PROVE EventTypes'
  BY <1>2, EndType DEF Receive, Place, Fate, history
<1>3. ASSUME NEW e \in Event, CommandNow(e)  PROVE EventTypes'
  BY <1>3, EndType, GotoType DEF CommandNow, Place, Fate, history
<1>4. ASSUME NEW e \in Event, AdmitReads(e)  PROVE EventTypes'
  BY <1>4 DEF AdmitReads, Place, history, Reads, AfterCheck
<1>5. ASSUME NEW e \in Event, CheckEnabled(e)  PROVE EventTypes'
  BY <1>5, EndType, GotoType DEF CheckEnabled, Place, Fate, history, AfterCheck
<1>6. ASSUME NEW e \in Event, Deliver(e)  PROVE EventTypes'
  BY <1>6, GotoType DEF Deliver, Place, history
<1>7. ASSUME NEW e \in Event, Judge(e)  PROVE EventTypes'
  <2>1. /\ pc' \in [Event -> Place] /\ fate' \in [Event -> Fate]
        /\ read' \in [Event -> Config \cup {NoConfig, NoValue}] /\ slow' \subseteq Event
    BY <1>7, EndType, GotoType DEF Judge, Place, Fate
  <2>2. /\ judged' \in [Event -> {"none", "no", "pass"}] /\ asked' \subseteq Event
        /\ granted' \in [Event -> SUBSET Classifier]
    BY <1>7 DEF Judge
  <2> QED BY <1>7, <2>1, <2>2 DEF Judge
<1>8. ASSUME NEW e \in Event, Fetch(e)  PROVE EventTypes'
  BY <1>8, EndType, GotoType DEF Fetch, Place, Fate, history
<1>9. ASSUME NEW e \in Event, Redeliver(e)  PROVE EventTypes'
  BY <1>9, GotoType DEF Redeliver, Place, history
<1>10. ASSUME NEW e \in Event, Offer(e)  PROVE EventTypes'
  BY <1>10, EndType DEF Offer, Fate, history
<1>11. ASSUME NEW e \in Event, Effect(e)  PROVE EventTypes'
  BY <1>11, GotoType DEF Effect, Place, history
<1>12. ASSUME NEW e \in Event, Toggle(e)  PROVE EventTypes'
  BY <1>12, EndType DEF Toggle, Fate, PutEnabled
<1>13. ASSUME NEW e \in Event, RotateAcquire(e)  PROVE EventTypes'
  BY <1>13, EndType, GotoType DEF RotateAcquire, Place, Fate, history
<1>14. ASSUME NEW e \in Event, Rotate(e)  PROVE EventTypes'
  BY <1>14, EndType, GotoType DEF Rotate, Place, Fate, history
<1>15. ASSUME NEW e \in Event, Enqueue(e)  PROVE EventTypes'
  BY <1>15, GotoType DEF Enqueue, Place, history
<1>16. ASSUME NEW e \in Event, Dispatch(e)  PROVE EventTypes'
  BY <1>16, EndType, GotoType DEF Dispatch, Place, Fate, history
<1>17. ASSUME NEW e \in Event, StartNow(e)  PROVE EventTypes'
  BY <1>17, EndType DEF StartNow, Fate, history
<1>18. ASSUME NEW e \in Event, StoreFails(e)  PROVE EventTypes'
  BY <1>18, EndType DEF StoreFails, Fate, history
<1>19. CASE Fires
  BY <1>19 DEF Fires
<1>20. CASE Fired \/ SessionEnds \/ ForeignTakes \/ Reload
  BY <1>20 DEF Fired, SessionEnds, ForeignTakes, Reload, history
<1> QED BY <1>1, <1>2, <1>3, <1>4, <1>5, <1>6, <1>7, <1>8, <1>9, <1>10, <1>11,
           <1>12, <1>13, <1>14, <1>15, <1>16, <1>17, <1>18, <1>19, <1>20
        DEF AdmissionNext, Handle

LEMMA ChannelTypesStep ==
  ASSUME EventTypes, ChannelTypes, AdmissionNext
  PROVE  ChannelTypes'
<1> USE DEF ChannelTypes, TryStart, ReleaseNew, channel, session
<1>1. ASSUME NEW e \in Event,
             \/ \E s \in Sort : Arrive(e, s)
             \/ Receive(e) \/ CommandNow(e) \/ AdmitReads(e) \/ CheckEnabled(e)
             \/ Deliver(e) \/ Judge(e) \/ Fetch(e) \/ Redeliver(e) \/ Effect(e)
             \/ StoreFails(e)
      PROVE  ChannelTypes'
  BY <1>1 DEF Arrive, Receive, CommandNow, AdmitReads, CheckEnabled, Deliver,
    Judge, Fetch, Redeliver, Effect, StoreFails
<1>2. ASSUME NEW e \in Event, Offer(e) \/ Toggle(e) \/ Enqueue(e) \/ Dispatch(e)
      PROVE  ChannelTypes'
  BY <1>2 DEF Offer, Toggle, PutEnabled, Enqueue, Dispatch
<1>3. ASSUME NEW e \in Event, RotateAcquire(e) \/ Rotate(e) \/ StartNow(e)
      PROVE  ChannelTypes'
  BY <1>3 DEF RotateAcquire, Rotate, StartNow
<1>4. CASE Fires \/ Fired
  BY <1>4 DEF Fires, Fired
<1>5. CASE SessionEnds \/ ForeignTakes
  BY <1>5 DEF SessionEnds, ForeignTakes
<1>6. CASE Reload
  BY <1>6, ReloadAssumption DEF Reload
<1> QED BY <1>1, <1>2, <1>3, <1>4, <1>5, <1>6 DEF AdmissionNext, Handle

-----------------------------------------------------------------------------
(* What is known of an event at each place of its handling.                *)

Early == {"unborn", "handle", "command", "admit", "check", "deliver", "judge"}
HasRead == {"check", "deliver", "judge", "fetch", "redeliver", "offer"}

\* The tree that was read holds of the event, with the classifiers that said yes.
TreeHolds(e) == Means[Root(read[e].when)][what[e]][granted[e]]

EventInv(e) ==
  /\ pc[e] # "unborn" => what[e] \in Sort
  /\ pc[e] \in HasRead => read[e] \in Config \cup {NoConfig}
  /\ pc[e] = "command" => IsCommand(e)
  /\ pc[e] = "deliver" => ~Reacts(e)
  /\ pc[e] \in Early => judged[e] = "none" /\ e \notin asked
  /\ pc[e] = "fetch" => judged[e] = "pass" /\ Reacts(e)
  /\ pc[e] = "redeliver" =>
       judged[e] = "pass" /\ (Reacts(e) \/ read[e].whileRunning = "evaluate")
  /\ pc[e] = "offer" =>
       IF Reacts(e) \/ read[e].whileRunning = "evaluate"
       THEN judged[e] = "pass" ELSE e \notin asked
  /\ judged[e] = "pass" /\ pc[e] # "done" => TreeHolds(e)
  /\ pc[e] # "done" => fate[e] = "none"

EventsInv == \A e \in Event : EventInv(e)

\* An action on one event leaves what is known of the others.
OnlyOf(e) ==
  \A f \in Event \ {e} :
    /\ pc'[f] = pc[f] /\ what'[f] = what[f] /\ read'[f] = read[f]
    /\ fate'[f] = fate[f] /\ judged'[f] = judged[f] /\ granted'[f] = granted[f]
    /\ f \in asked' <=> f \in asked

LEMMA OthersKeep ==
  ASSUME NEW e \in Event, EventsInv, OnlyOf(e), EventInv(e)'
  PROVE  EventsInv'
<1> SUFFICES ASSUME NEW f \in Event, f # e  PROVE EventInv(f)'
  BY DEF EventsInv
<1>1. EventInv(f)
  BY DEF EventsInv
<1>2. /\ pc'[f] = pc[f] /\ what'[f] = what[f] /\ read'[f] = read[f]
      /\ fate'[f] = fate[f] /\ judged'[f] = judged[f] /\ granted'[f] = granted[f]
      /\ f \in asked' <=> f \in asked
  BY DEF OnlyOf
<1> QED BY <1>1, <1>2 DEF EventInv, IsCommand, Reacts, Cmd, TreeHolds

\* What the gate passes, its tree holds of.
LEMMA PassedHolds ==
  ASSUME NEW ev \in Sort, NEW c \in Config \cup {NoConfig}, NEW answers \in Answers,
         EvaluateWhen(c.when, ev, answers).trigger
  PROVE  Means[Root(c.when)][ev][Yes(answers)]
<1>1. Root(c.when) \in Node
  BY ConfigAssumption
<1> QED BY <1>1, EvaluationIsMeaning DEF Faithful, EvaluateWhen

LEMMA JudgeStep ==
  ASSUME EventTypes, NEW e \in Event, EventInv(e), Judge(e)
  PROVE  EventInv(e)'
<1>1. pc[e] = "judge" /\ what[e] \in Sort /\ read[e] \in Config \cup {NoConfig}
  BY DEF Judge, EventInv, HasRead
<1>2. what' = what
  BY DEF Judge
<1>3. CASE End(e, "dropped") \/ End(e, "failed")
  BY <1>1, <1>2, <1>3 DEF End, EventInv, Early, HasRead, EventTypes
<1>4. CASE ~End(e, "dropped") /\ ~End(e, "failed")
  <2>1. PICK answers \in Answers :
          /\ EvaluateWhen(read[e].when, what[e], answers).trigger
          /\ judged' = [judged EXCEPT ![e] = "pass"]
          /\ granted' = [granted EXCEPT ![e] = {c \in Classifier : answers[c] = "yes"}]
          /\ Goto(e, IF Reacts(e) THEN "fetch"
                     ELSE IF SkipsGate(read[e]) THEN "effect" ELSE "redeliver")
    BY <1>4 DEF Judge
  <2>2. /\ judged'[e] = "pass" /\ granted'[e] = Yes(answers) /\ read' = read
        /\ fate'[e] = "none"
        /\ pc'[e] = IF Reacts(e) THEN "fetch"
                    ELSE IF SkipsGate(read[e]) THEN "effect" ELSE "redeliver"
    BY <1>1, <2>1 DEF Yes, Goto, EventTypes, EventInv
  <2>3. Means[Root(read[e].when)][what[e]][granted'[e]]
    BY <1>1, <2>1, <2>2, PassedHolds
  <2>4. ~SkipsGate(read[e]) => read[e].whileRunning = "evaluate"
    BY <1>1, ConfigAssumption DEF SkipsGate
  <2> QED BY <1>1, <1>2, <2>2, <2>3, <2>4
          DEF EventInv, Early, HasRead, Reacts, TreeHolds
<1> QED BY <1>3, <1>4

LEMMA EventsStep ==
  ASSUME EventTypes, ChannelTypes, EventsInv, AdmissionNext
  PROVE  EventsInv'
<1> USE DEF Early, HasRead, history, Reacts, IsCommand, Cmd, TreeHolds
<1>1. ASSUME NEW e \in Event, NEW s \in Sort, Arrive(e, s)  PROVE EventsInv'
  <2>1. OnlyOf(e)
    BY <1>1 DEF Arrive, Goto, OnlyOf, EventTypes
  <2>2. EventInv(e)'
    BY <1>1 DEF Arrive, Goto, EventTypes, EventsInv, EventInv
  <2> QED BY <2>1, <2>2, OthersKeep
<1>2. ASSUME NEW e \in Event, Receive(e)  PROVE EventsInv'
  <2>1. OnlyOf(e)
    BY <1>2 DEF Receive, End, OnlyOf, EventTypes
  <2>2. EventInv(e)'
    BY <1>2 DEF Receive, End, EventTypes, EventsInv, EventInv
  <2> QED BY <2>1, <2>2, OthersKeep
<1>3. ASSUME NEW e \in Event, CommandNow(e)  PROVE EventsInv'
  <2>1. OnlyOf(e)
    BY <1>3 DEF CommandNow, End, Goto, OnlyOf, EventTypes
  <2>2. EventInv(e)'
    BY <1>3 DEF CommandNow, End, Goto, EventTypes, EventsInv, EventInv
  <2> QED BY <2>1, <2>2, OthersKeep
<1>4. ASSUME NEW e \in Event, AdmitReads(e)  PROVE EventsInv'
  <2>1. OnlyOf(e)
    BY <1>4 DEF AdmitReads, OnlyOf, EventTypes
  <2>2. read'[e] \in Config \cup {NoConfig}
    BY <1>4 DEF AdmitReads, Reads, EventTypes, ChannelTypes
  <2>3. EventInv(e)'
    BY <1>4, <2>2 DEF AdmitReads, AfterCheck, EventTypes, EventsInv, EventInv
  <2> QED BY <2>1, <2>3, OthersKeep
<1>5. ASSUME NEW e \in Event, CheckEnabled(e)  PROVE EventsInv'
  <2>1. OnlyOf(e)
    BY <1>5 DEF CheckEnabled, End, Goto, OnlyOf, EventTypes
  <2>2. EventInv(e)'
    BY <1>5 DEF CheckEnabled, AfterCheck, End, Goto, EventTypes, EventsInv, EventInv
  <2> QED BY <2>1, <2>2, OthersKeep
<1>6. ASSUME NEW e \in Event, Deliver(e)  PROVE EventsInv'
  <2>1. OnlyOf(e)
    BY <1>6 DEF Deliver, Goto, OnlyOf, EventTypes
  <2>2. EventInv(e)'
    BY <1>6 DEF Deliver, SkipsGate, Goto, EventTypes, EventsInv, EventInv
  <2> QED BY <2>1, <2>2, OthersKeep
<1>7. ASSUME NEW e \in Event, Judge(e)  PROVE EventsInv'
  <2>1. OnlyOf(e)
    BY <1>7 DEF Judge, End, Goto, OnlyOf, EventTypes
  <2>2. EventInv(e)'
    BY <1>7, JudgeStep DEF EventsInv
  <2> QED BY <2>1, <2>2, OthersKeep
<1>8. ASSUME NEW e \in Event, Fetch(e)  PROVE EventsInv'
  <2>1. OnlyOf(e)
    BY <1>8 DEF Fetch, End, Goto, OnlyOf, EventTypes
  <2>2. EventInv(e)'
    BY <1>8 DEF Fetch, End, Goto, EventTypes, EventsInv, EventInv
  <2> QED BY <2>1, <2>2, OthersKeep
<1>9. ASSUME NEW e \in Event, Redeliver(e)  PROVE EventsInv'
  <2>1. OnlyOf(e)
    BY <1>9 DEF Redeliver, Goto, OnlyOf, EventTypes
  <2>2. EventInv(e)'
    BY <1>9 DEF Redeliver, Goto, EventTypes, EventsInv, EventInv
  <2> QED BY <2>1, <2>2, OthersKeep
<1>10. ASSUME NEW e \in Event,
              \/ Offer(e) \/ Toggle(e) \/ StartNow(e) \/ StoreFails(e)
       PROVE  EventsInv'
  <2>1. OnlyOf(e)
    BY <1>10 DEF Offer, Toggle, StartNow, StoreFails, End, OnlyOf, EventTypes
  <2>2. EventInv(e)'
    BY <1>10 DEF Offer, Toggle, StartNow, StoreFails, End, EventTypes, EventsInv, EventInv
  <2> QED BY <2>1, <2>2, OthersKeep
<1>11. ASSUME NEW e \in Event,
              Effect(e) \/ RotateAcquire(e) \/ Rotate(e) \/ Enqueue(e) \/ Dispatch(e)
       PROVE  EventsInv'
  <2>1. OnlyOf(e)
    BY <1>11 DEF Effect, RotateAcquire, Rotate, Enqueue, Dispatch, Goto, End, OnlyOf,
      EventTypes
  <2>2. EventInv(e)'
    BY <1>11 DEF Effect, RotateAcquire, Rotate, Enqueue, Dispatch, Goto, End,
      EventTypes, EventsInv, EventInv
  <2> QED BY <2>1, <2>2, OthersKeep
<1>12. CASE Fires \/ Fired \/ SessionEnds \/ ForeignTakes \/ Reload
  BY <1>12 DEF Fires, Fired, SessionEnds, ForeignTakes, Reload, EventsInv, EventInv
<1> QED BY <1>1, <1>2, <1>3, <1>4, <1>5, <1>6, <1>7, <1>8, <1>9, <1>10, <1>11, <1>12
        DEF AdmissionNext, Handle

-----------------------------------------------------------------------------
(* The channel: what is held back in it, and its lease.                    *)

\* The places an event that arrived disabled may be at, and what comes of it.
Held == {"handle", "command", "admit", "check", "done"}

QuietInv ==
  /\ quiet # {} \/ muted => ~enabled
  /\ \A e \in quiet : ~(IsCommand(e) /\ Toggles(e)) =>
       /\ pc[e] \in Held /\ e \notin asked
       /\ fate[e] \in {"none", "dropped", "failed", "rejected"}

\* The lease is that of the Session that is alive, or of one /new.
LeaseInv ==
  /\ running = "live" => lease = "session"
  /\ \A e \in Event : pc[e] = "marked" => lease = "new"
  /\ \A e, f \in Event : pc[e] = "marked" /\ pc[f] = "marked" => e = f
  /\ NewHasLease

AdmissionInv == EventTypes /\ ChannelTypes /\ EventsInv /\ QuietInv /\ LeaseInv

\* An action on one event that leaves the channel as it is, and keeps an event
\* that is held back where it may be.
LEMMA QuietKeeps ==
  ASSUME EventTypes, QuietInv, NEW e \in Event, OnlyOf(e),
         what' = what, quiet' = quiet, muted' = muted, enabled' = enabled,
         e \in quiet /\ ~(IsCommand(e) /\ Toggles(e)) =>
           /\ pc'[e] \in Held /\ e \notin asked'
           /\ fate'[e] \in {"none", "dropped", "failed", "rejected"}
  PROVE  QuietInv'
BY DEF QuietInv, OnlyOf, EventTypes, IsCommand, Toggles, Cmd, Reacts

LEMMA QuietStep ==
  ASSUME EventTypes, ChannelTypes, EventsInv, QuietInv, AdmissionNext
  PROVE  QuietInv'
<1> USE DEF Held, IsCommand, Toggles, Cmd, Reacts
<1>1. ASSUME NEW e \in Event, NEW s \in Sort, Arrive(e, s)  PROVE QuietInv'
  <2>1. /\ pc' = [pc EXCEPT ![e] = "handle"] /\ what' = [what EXCEPT ![e] = s]
        /\ quiet' = IF enabled THEN quiet ELSE quiet \cup {e}
        /\ muted' = muted /\ enabled' = enabled /\ fate' = fate /\ asked' = asked
        /\ pc[e] = "unborn"
    BY <1>1 DEF Arrive, Goto, channel
  <2>2. fate[e] = "none" /\ e \notin asked
    BY <2>1 DEF EventsInv, EventInv, Early
  <2> QED BY <2>1, <2>2 DEF QuietInv, EventTypes
<1>2. ASSUME NEW e \in Event,
             \/ Receive(e) \/ CommandNow(e) \/ AdmitReads(e) \/ CheckEnabled(e)
             \/ StoreFails(e)
      PROVE  QuietInv'
  <2>1. /\ what' = what /\ quiet' = quiet /\ muted' = muted /\ enabled' = enabled
        /\ asked' = asked
    BY <1>2 DEF Receive, CommandNow, AdmitReads, CheckEnabled, StoreFails, channel, history
  <2>2. OnlyOf(e)
    BY <1>2 DEF Receive, CommandNow, AdmitReads, CheckEnabled, StoreFails, End, Goto,
      OnlyOf, EventTypes, history
  <2>3. ASSUME e \in quiet, ~(IsCommand(e) /\ Toggles(e))
        PROVE  /\ pc'[e] \in Held /\ e \notin asked'
               /\ fate'[e] \in {"none", "dropped", "failed", "rejected"}
    <3>1. /\ pc[e] \in Held /\ e \notin asked /\ ~enabled
          /\ fate[e] \in {"none", "dropped", "failed", "rejected"}
      BY <2>3 DEF QuietInv
    <3>2. pc[e] = "command" => IsCommand(e)
      BY DEF EventsInv, EventInv
    <3> QED BY <1>2, <2>1, <2>3, <3>1, <3>2
            DEF Receive, CommandNow, AdmitReads, CheckEnabled, StoreFails, End, Goto,
              Bypasses, GetEnabled, EventTypes
  <2> QED BY <2>1, <2>2, <2>3, QuietKeeps
<1>3. ASSUME NEW e \in Event,
             \/ Deliver(e) \/ Judge(e) \/ Fetch(e) \/ Redeliver(e) \/ Offer(e)
             \/ Effect(e) \/ RotateAcquire(e) \/ Rotate(e) \/ Enqueue(e)
             \/ Dispatch(e) \/ StartNow(e)
      PROVE  QuietInv'
  <2>1. what' = what /\ quiet' = quiet /\ muted' = muted /\ enabled' = enabled
    BY <1>3 DEF Deliver, Judge, Fetch, Redeliver, Offer, Effect, RotateAcquire,
      Rotate, Enqueue, Dispatch, StartNow, channel, history
  <2>2. OnlyOf(e)
    BY <1>3 DEF Deliver, Judge, Fetch, Redeliver, Offer, Effect, RotateAcquire,
      Rotate, Enqueue, Dispatch, StartNow, End, Goto, OnlyOf, EventTypes, history
  <2>3. pc[e] \notin Held
    BY <1>3 DEF Deliver, Judge, Fetch, Redeliver, Offer, Effect, RotateAcquire,
      Rotate, Enqueue, Dispatch, StartNow
  <2>4. ~(e \in quiet /\ ~(IsCommand(e) /\ Toggles(e)))
    BY <2>3 DEF QuietInv
  <2> QED BY <2>1, <2>2, <2>4, QuietKeeps
<1>4. ASSUME NEW e \in Event, Toggle(e)  PROVE QuietInv'
  <2>1. /\ pc[e] = "toggle" /\ pc' = [pc EXCEPT ![e] = "done"]
        /\ fate' = [fate EXCEPT ![e] = "toggled"]
        /\ what' = what /\ asked' = asked
        /\ quiet' = IF enabled' THEN {} ELSE quiet
        /\ muted' = (muted /\ ~enabled')
    BY <1>4 DEF Toggle, End
  <2>2. ~(e \in quiet /\ ~(IsCommand(e) /\ Toggles(e)))
    BY <2>1 DEF QuietInv
  <2> QED BY <2>1, <2>2 DEF QuietInv, EventTypes
<1>5. CASE Fires
  BY <1>5 DEF Fires, QuietInv, channel
<1>6. CASE Fired \/ SessionEnds \/ ForeignTakes \/ Reload
  BY <1>6 DEF Fired, SessionEnds, ForeignTakes, Reload, QuietInv, channel, history
<1> QED BY <1>1, <1>2, <1>3, <1>4, <1>5, <1>6 DEF AdmissionNext, Handle

\* An action that leaves the lease and the Session alone, and no /new at its marker.
LEMMA LeaseKeeps ==
  ASSUME LeaseInv, lease' = lease, running' = running,
         \A e \in Event : pc'[e] = "marked" <=> pc[e] = "marked"
  PROVE  LeaseInv'
BY DEF LeaseInv, NewHasLease

LEMMA LeaseStep ==
  ASSUME EventTypes, ChannelTypes, LeaseInv, AdmissionNext
  PROVE  LeaseInv'
<1>1. ASSUME NEW e \in Event,
             \/ \E s \in Sort : Arrive(e, s)
             \/ Receive(e) \/ CommandNow(e) \/ AdmitReads(e) \/ CheckEnabled(e)
             \/ Deliver(e) \/ Judge(e) \/ Fetch(e) \/ Redeliver(e) \/ Offer(e)
             \/ Effect(e) \/ Toggle(e) \/ Enqueue(e) \/ Dispatch(e) \/ StoreFails(e)
      PROVE  LeaseInv'
  <2>1. lease' = lease /\ running' = running
    BY <1>1 DEF Arrive, Receive, CommandNow, AdmitReads, CheckEnabled, Deliver,
      Judge, Fetch, Redeliver, Offer, Effect, Toggle, Enqueue, Dispatch, StoreFails,
      channel, session
  <2>2. pc[e] # "marked"
    BY <1>1 DEF Arrive, Receive, CommandNow, AdmitReads, CheckEnabled, Deliver,
      Judge, Fetch, Redeliver, Offer, Effect, Toggle, Enqueue, Dispatch, StoreFails
  <2>3. \E place \in Place \ {"marked"} : pc' = [pc EXCEPT ![e] = place]
    BY <1>1 DEF Arrive, Receive, CommandNow, AdmitReads, AfterCheck, CheckEnabled,
      Deliver, Judge, Fetch, Redeliver, Offer, Effect, Toggle, Enqueue, Dispatch,
      StoreFails, Goto, End, Place
  <2> QED BY <2>1, <2>2, <2>3, LeaseKeeps DEF EventTypes
<1>2. ASSUME NEW e \in Event, StartNow(e)  PROVE LeaseInv'
  BY <1>2 DEF StartNow, TryStart, End, LeaseInv, NewHasLease, EventTypes
<1>3. ASSUME NEW e \in Event, RotateAcquire(e)  PROVE LeaseInv'
  <2>1. CASE MayRotate /\ lease' = "new" /\ Goto(e, "marked")
    <3>1. \A f \in Event : pc[f] # "marked"
      BY <2>1 DEF MayRotate, LeaseInv
    <3>2. running # "live" /\ running' = running
      BY <1>3, <2>1 DEF RotateAcquire, MayRotate, LeaseInv
    <3> QED BY <2>1, <3>1, <3>2 DEF Goto, LeaseInv, NewHasLease, EventTypes
  <2>2. CASE lease' = lease /\ pc[e] = "rotate" /\ End(e, "rejected")
    <3>1. running' = running
      BY <1>3 DEF RotateAcquire
    <3> QED BY <2>2, <3>1, LeaseKeeps DEF End, EventTypes
  <2> QED BY <1>3, <2>1, <2>2 DEF RotateAcquire
<1>4. ASSUME NEW e \in Event, Rotate(e)  PROVE LeaseInv'
  <2>1. /\ pc[e] = "marked" /\ lease' = "free" /\ running' = running
        /\ pc' = [pc EXCEPT ![e] = pc'[e]] /\ pc'[e] # "marked"
    BY <1>4 DEF Rotate, ReleaseNew, Goto, End, EventTypes
  <2> QED BY <2>1 DEF LeaseInv, NewHasLease, EventTypes
<1>5. CASE Fires \/ Reload
  BY <1>5, LeaseKeeps DEF Fires, Reload, session
<1>6. CASE Fired
  BY <1>6 DEF Fired, TryStart, LeaseInv, NewHasLease
<1>7. CASE SessionEnds
  BY <1>7 DEF SessionEnds, LeaseInv, NewHasLease
<1>8. CASE ForeignTakes
  BY <1>8 DEF ForeignTakes, LeaseInv, NewHasLease
<1> QED BY <1>1, <1>2, <1>3, <1>4, <1>5, <1>6, <1>7, <1>8 DEF AdmissionNext, Handle

LEMMA AdmissionStarts == AdmissionInit => AdmissionInv
<1> SUFFICES ASSUME AdmissionInit  PROVE AdmissionInv
  OBVIOUS
<1> USE DEF AdmissionInit
<1>1. EventTypes
  BY DEF EventTypes, Place, Fate
<1>2. ChannelTypes
  <2>1. 0 \in 0..MaxReload
    BY ReloadAssumption
  <2> QED BY <2>1 DEF ChannelTypes
<1>3. EventsInv
  BY DEF EventsInv, EventInv, Early, HasRead
<1>4. QuietInv /\ LeaseInv
  BY DEF QuietInv, LeaseInv, NewHasLease
<1> QED BY <1>1, <1>2, <1>3, <1>4 DEF AdmissionInv

LEMMA AdmissionStutters ==
  ASSUME AdmissionInv, UNCHANGED admissionVars
  PROVE  AdmissionInv'
<1> USE DEF admissionVars, channel, session, history
<1>1. EventTypes' /\ ChannelTypes'
  BY DEF AdmissionInv, EventTypes, ChannelTypes
<1>2. EventsInv'
  BY DEF AdmissionInv, EventsInv, EventInv, IsCommand, Reacts, Cmd, TreeHolds
<1>3. QuietInv'
  BY DEF AdmissionInv, QuietInv, IsCommand, Toggles, Cmd, Reacts
<1>4. LeaseInv'
  BY DEF AdmissionInv, LeaseInv, NewHasLease
<1> QED BY <1>1, <1>2, <1>3, <1>4 DEF AdmissionInv

\* What is known of events, of what is held back and of the lease is inductive.
THEOREM AdmissionInvariant == AdmissionSpec => []AdmissionInv
<1>1. AdmissionInv /\ [AdmissionNext]_admissionVars => AdmissionInv'
  BY AdmissionStutters, EventTypesStep, ChannelTypesStep, EventsStep, QuietStep, LeaseStep
     DEF AdmissionInv
<1> QED BY AdmissionStarts, <1>1, PTL DEF AdmissionSpec

\* Types, and that a lease of /new belongs to a /new that is under way.
THEOREM AdmissionTypeCorrect == AdmissionSpec => []TypeOK
<1>1. AdmissionInv => TypeOK
  BY DEF AdmissionInv, EventTypes, ChannelTypes, LeaseInv, NewHasLease, TypeOK
<1> QED BY <1>1, AdmissionInvariant, PTL

\* dispatcher.ts and evaluate.ts: what arrives in a channel that is disabled and
\* stays so has no effect and costs no call, however many events are under way.
THEOREM DisabledStaysQuiet == AdmissionSpec => []DisabledIsQuiet
<1>1. AdmissionInv => DisabledIsQuiet
  BY DEF AdmissionInv, QuietInv, DisabledIsQuiet
<1> QED BY <1>1, AdmissionInvariant, PTL

\* evaluateNode and the classifier leaf: for any tree, what the gate passes is
\* what the tree means with the classifiers that said yes.
THEOREM GateFailsClosed == AdmissionSpec => []FailsClosed
<1>1. AdmissionInv => FailsClosed
  BY DEF AdmissionInv, EventsInv, EventInv, TreeHolds, FailsClosed
<1> QED BY <1>1, AdmissionInvariant, PTL

\* admit: with evaluate the gate is asked of everything, with passthrough
\* nothing that a running Session is given costs a call.
THEOREM ModeIsKept == AdmissionSpec => []ModeHolds
<1>1. AdmissionInv => ModeHolds
  BY DEF AdmissionInv, EventsInv, EventInv, ModeHolds
<1> QED BY <1>1, AdmissionInvariant, PTL

\* handleNewCommand: the marker of a /new is written under a lease that no live
\* Session has.
THEOREM NewRotatesAtRest == AdmissionSpec => RotatesAtRest
<1>1. ASSUME AdmissionInv, AdmissionNext, marker', ~marker
      PROVE  running # "live"
  <2>1. PICK e \in Event : Rotate(e)
    BY <1>1 DEF AdmissionNext, Handle, Arrive, Receive, CommandNow, AdmitReads,
      CheckEnabled, Deliver, Judge, Fetch, Redeliver, Offer, Effect, Toggle,
      RotateAcquire, Enqueue, Dispatch, StartNow, StoreFails, Fires, Fired,
      SessionEnds, ForeignTakes, Reload, session
  <2> QED BY <1>1, <2>1 DEF Rotate, AdmissionInv, LeaseInv
<1>2. AdmissionInv /\ [AdmissionNext]_admissionVars
        => [marker' /\ ~marker => running # "live"]_admissionVars
  BY <1>1
<1> QED BY <1>2, AdmissionInvariant, PTL DEF AdmissionSpec, RotatesAtRest

\* fireDebouncedDispatch: a timer that comes due in a channel that is disabled
\* and stays so starts nothing.
THEOREM TimerStaysQuiet == AdmissionSpec => DisabledTimerIsQuiet
<1>1. ASSUME AdmissionInv, AdmissionNext,
             timer = "firing", timer' = "off", running' # running
      PROVE  ~muted
  <2>1. CASE Fired
    BY <1>1, <2>1 DEF Fired, MayFire, GetEnabled, AdmissionInv, QuietInv
  <2>2. ASSUME NEW e \in Event, StartNow(e)  PROVE FALSE
    BY <1>1, <2>2 DEF StartNow
  <2>3. CASE SessionEnds
    BY <1>1, <2>3 DEF SessionEnds
  <2> QED BY <1>1, <2>1, <2>2, <2>3 DEF AdmissionNext, Handle, Arrive, Receive,
      CommandNow, AdmitReads, CheckEnabled, Deliver, Judge, Fetch, Redeliver, Offer,
      Effect, Toggle, RotateAcquire, Rotate, Enqueue, Dispatch, StoreFails, Fires,
      ForeignTakes, Reload, session
<1>2. AdmissionInv /\ [AdmissionNext]_admissionVars
        => [timer = "firing" /\ timer' = "off" /\ running' # running => ~muted]_admissionVars
  BY <1>1
<1> QED BY <1>2, AdmissionInvariant, PTL DEF AdmissionSpec, DisabledTimerIsQuiet
=============================================================================
