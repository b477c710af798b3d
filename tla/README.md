# pi-chat-runner in TLA+

pi-chat-runner connects a chat service (Slack) to an agent process (`pi`): a message
that a channel's gate lets through is put into an *Inbox*, a *Session* takes the lease
of its key, starts `pi` in a prepared Workdir, prompts or steers it with what the Inbox
holds, and replies through the *Egress*. This directory models the parts of the program
whose correctness depends on the order of steps, model-checks them with TLC and proves
their main invariants with TLAPS.

Paths are relative to the repository's directory: `src/src/...` is its code,
`src/docs/...` its documentation, `src/test/...` its tests.

## 1. Inventory

| Component | State | Operations | Talks to |
|---|---|---|---|
| **Session** `session/session.ts` | `#state` (starting, running, lingering, stopping), `#disposed`, `#promptedIds`, `#turnEpoch`, three timers (renew, turn timeout, progress), the PiProcess | `start`, `abort`, `steerPending`, the agent_end handler `#onAgentEnd` with `#promptPending`, `#abnormalShutdown`, the exit handler, the renew timer | Inbox, lease, Session store, Agent State, PiProcess, Egress |
| **Dispatcher** `dispatch/dispatcher.ts` | `#sessions` (sessionKey to Session), `#pending` (debounce timers) | `handle`, `handleReaction`, `trySteerExisting`, `dispatchTriggered`, the debounce timers, affinity and thread bindings, `startOrResumeSession`, `clearRotateMarker` | Gate, Inbox, lease, stores, Session |
| **Lease store** `state/control/backends/*` | one row per sessionKey: owner, token, expiresAt | `acquire`, `renew`, `release` | Dispatcher, Session, `/new` |
| **Inbox store** `state/control/backends/*` | one document per dedupe id: order, acked or not | `enqueue`, `drain`, `ack` | Dispatcher, Session |
| **Session, thread and channel stores** | SessionRecord per key, thread bindings, latest Session and state of a channel | get, put, bind, touch | Dispatcher, Session, Commands, Gate |
| **PiProcess** `runtime/pi-process.ts`, `rpc.ts` | the child, its exit code, its handlers, the rest of a line | `start`, `prompt`, `steer`, `stop`, `kill`, the decoder | Session; pi over stdio |
| **Commands** `dispatch/commands.ts` | the rotate marker of a SessionRecord, the state of a channel | `/new`, `/enable`, `/disable` | lease, Session store |
| **Gate** `gate/*` | none between events | `admit`, `evaluate` | classifier, configuration, Dispatcher |
| **Egress** `egress/*`, `session/progress.ts` | one FIFO per progress key, the progress message's id, closed or not, an interval | `send`, progress ticks, closing, clearing | Session, chat API |
| **Agent State copy** `state/agent/copy.ts` | a directory per key | `restore`, `flush` | Session start and turn end |
| **Workdir** `runtime/prepare.ts` | files of the Workdir, transcript rotation | `prepareWorkdir` | Session start |
| **Ingress** `ingress/*` | a bounded memory of seen messages, a cache of user names | Slack event to ChatEvent, pipeline | Gate, Dispatcher |
| **Configuration** `config/*` | the cached content of the file with its mtime | the lookup of a channel, `dump` | Gate, Dispatcher, Session |
| **Classifier client, server, local chat, pi extensions** | none that a behaviour depends on | | |

The runner is one single-threaded Node process per instance; several instances may share
Control State. What makes it hard:

- *Tasks interleave at every `await`.* Several chat events, the agent_end handler, two
  causes of an abnormal shutdown, the exit handler and the renew timer of one Session
  run concurrently, and share `#promptedIds`, `#state` and the Inbox.
- *The Inbox is not destructive.* `drain` returns every unacked item again and again;
  not sending one twice, and acking only what was processed, is the Session's
  bookkeeping.
- *pi is another process.* Its events are in flight while the runner acts; it may refuse
  a command, never finish, exit, or be killed by a signal.
- *The lease is time.* It lapses, other instances take it, and the token that should
  tell holders apart starts again at 0 after a release.
- *Each store call may fail*, in the middle of a handler.
- *Wake-ups.* Nothing watches the Inbox: each enqueue relies on a Session, a timer or a
  start that is about to drain, in this process or another.
- *Redelivery.* Slack sends an event again, also after it was acked, and sends two
  events for each mention.
- *Routing reads what others write.* The Session of an event follows from thread
  bindings and the channel's latest Session, read awaits before they are used.
- *Files are copied one by one.* A crash, or a pi that exits during a flush, leaves an
  archive of two turns.
- *Progress and replies share a key*, and reach the chat by different paths with calls
  that fail.
- *Configuration is read while it is edited*, and the channel toggles while events are
  on their way.

Per component, what makes it correct:

- Lease store: at most one live holder; a lapsed lease stays lapsed; tokens grow.
- Inbox: an acked item stays acked; drain returns items in their enqueue order.
- Session: no item is lost, given back or acked before it was taken; what pi has is
  remembered until it is acked; a turn's ack covers what its flush covered; a busy pi is
  timed and never prompted; pi lives under our lease; the Session always ends.
- Dispatcher: at most one Session per key in an instance, each accepted item reaches a
  Session or waits for the next event, a debounced trigger starts once; a thread stays
  with one Session; the debounce has an upper bound.
- Commands: `/new` rotates exactly the transcript it was asked to, and never under a
  running Session.
- Gate: a disabled channel is quiet; a classifier that fails admits nothing.
- Egress: progress never follows or overwrites a reply; an ended Session is quiet.
- PiProcess: a line that is emitted is a record of pi; `stop` returns.
- Agent State: a crash leaves a transcript that the next start can use.
- Ingress: a post becomes one item, and gets there.
- Configuration: a lookup answers with a content no older than its question, and the
  layers mean what the documentation says.

`PROJECT.json` lists the hazards of this code line by line with the property that would
catch each.

## 2. Modules

| Module | Models | Extends / uses |
|---|---|---|
| `LeaseStore` | the lease row of one sessionKey, several processes, a clock | |
| `FirestoreInbox` | the Firestore Inbox of one instance: `nextSeq`, `create()` in flight, `ack` | |
| `ItemLifecycle` | abstract: the life of every item | |
| `Session` | one Session with the Dispatcher calls that drive it | `ItemLifecycle` by refinement |
| `Dispatcher` | the Dispatchers of several processes for one key, with the Session reduced to its stages | |
| `Affinity` | the choice of the key for the events of one channel, and the debounce | |
| `Workdir` | restore, rotation, flush, the SessionRecord and the `/new` marker of one key | |
| `Gate` | the `when` tree and its meaning | |
| `Admission` | from a received event to its effect in one channel: gate and commands | `Gate` |
| `Ingress` | deliveries of Slack, the memory of posts, names, the hand-over | |
| `Egress` | queues, progress notice and replies of the Sessions of one key | |
| `ConfigMerge` | the merge of the layers and `dump`, as functions | |
| `Config` | lookups through the cache while files are edited | `ConfigMerge` |
| `PiProcess` | the child, the decoder of its stdout, `stop` | |
| `...Proofs` | the theorems: `ControlStore` (of `LeaseStore` and `FirestoreInbox`), `Session` (and `PiProcess`), `Channel` (`Config` and `Admission`, with what they are built from), `Dispatcher`, `Affinity`, `Ingress`, `Egress`, `Workdir` | the modules they are about |
| `MC...` | constants and symmetry for TLC; `Session` and `Dispatcher` are run as they are | that module |

The modules meet at interfaces: a module that needs another component has the part of it
that it can observe. `Dispatcher` has `Session` as its stages and `Session` has the
Dispatcher's calls; `Affinity` and `Admission` have the registry's entry; `Workdir` has
the lease as "who may start"; the sink of `Ingress` is the enqueue with which
`Dispatcher` begins.

### LeaseStore

The three backends perform the same read-modify-write in one critical section (the event
loop, a SQLite transaction, a Firestore transaction), so `Acquire`, `Renew` and
`Release` are one action each. A call that returns `null`, `false` or matches no row is
a stuttering step. A process keeps the Lease object (`handle`) after it lapsed: late
`renew` and `release` are reachable. `validUntil` is history, the expiry the store last
confirmed. `Drop` is a caller that finished or crashed. `StaleRelease` says whether a
caller may release after its own lease lapsed. `MutualExclusion` needs `FALSE`:
`release` compares the token only, and tokens repeat, so a late release can delete the
row of a live holder. The Session does not check the time before it releases, so the
constant is a precondition on the callers (the TTL outlives what they do between two
renews).

### FirestoreInbox

`enqueue` computes `seq = nowMs + counter` synchronously and then awaits `create()`: two
actions, `EnqueueCall` and `EnqueueCommit`. The commits of concurrent calls happen in
any order, and a redelivery is another call for the same item, before or after its ack.
`drain` is a query ordered by `seq`; the order is the operator `DrainedBefore`. `ms` and
`call` of a document are history variables that say when, and as which call, it was
enqueued.

### Session and ItemLifecycle

`Session` models one Session of one key from the lease to its removal from the
Dispatcher's map. An action is the code between two awaits. Correspondence:

| Code | Model |
|---|---|
| `#state`, `#disposed`, `#promptedIds` | `state`, `disposed`, `prompted` |
| `#turnEpoch` | `moved`: whether it differs from the value onAgentEnd read, the only thing the code asks of it |
| `#renewTimer`, `#turnTimeoutTimer`, interval of ProgressNotice | members of `armed` |
| Inbox, lease row | `seen`, `unacked`; `lease` |
| pi and its pipes | `pi`, `turn`, `queued`, `endEvent`, `rejected`, `exited` |
| `start`, `abort` and the rest of `startOrResumeSession` | task `"start"`: `StartSpawn` ... `AbortRelease` |
| the event of message i: `trySteerExisting`, `steerPending` | task `i`: `Find` ... `Steer`; `EnqueueOnly` for an event that lost the race with the start |
| `#onAgentEnd`, `#promptPending` | task `"end"`: `AgentEnd` ... `EndDispose` |
| `#abnormalShutdown` for the turn timeout and for a refused command | `TurnTimeout`, `CommandFailed`, `Close` |
| exit handler | `PiExit`, `ExitAck`, `ExitRelease` |
| renew timer | `RenewAsk`, `RenewRefused`, `RenewStopped` |
| `PiProcess.stop` | `StopRequested`, `PiStop`, `StopLabel` |

The drain loop is shared by three callers: `DrainRead` reads the Inbox, `FilterAndClaim`
is the continuation that drops the prompted ids and takes the first item, `ClaimNext`
takes the next after the await of a reaction, and a send follows the last. `proc.stop()`
returns early only when `exitCode` is set, which it is not for a pi killed by a signal:
`pi = "killed"` is distinguished from `"dead"` for that, and `"stopHangs"` is the place
a caller never leaves.

`Faults` selects what may go wrong, so that a run can ask what holds under which
failures. External: pi, the next holder of the lease, the clock.

`ItemLifecycle` states what a Session promises of each item: new, waiting, taken, done,
in that order and never back. `Session` implements it with `status <- StatusOf`,
computed from `seen`, `unacked` and `prompted`.

Abstractions. Items are a set, so the order inside one drain is arbitrary (TLC takes
all). A store read is split from the code that uses it; a store write that is the last
thing before an await is one action. Notices and reactions are left out, their awaits
kept where state is held across them. One abnormal shutdown per cause runs at a time. A
redelivery of a seen id is absent here, because `enqueue` answers that it is a duplicate
and nothing follows; it is in `FirestoreInbox`. The SessionRecord is in `Workdir`, the
progress in `Egress`; the death of the runner process and a second start of the key are
in `Dispatcher`.

### Dispatcher

Several runner processes share Control State for one sessionKey. A process handles a
message in the steps between its awaits: `Receive` looks into the registry and chooses
the path of `trySteerExisting` ("offer", "offered") or, behind the gate, of
`dispatchTriggered` ("gate", "touch"); `Enqueue` is the Inbox's answer and `Steer`,
`SteerNot`, `LeaveToSession`, `Schedule` and `StartNow` are what the code does with what
it finds then. `pending` is the debounce timer (it fires at any moment: how long it runs
is in `Affinity`), `acquiring` the calls of `startOrResumeSession` that await the lease.
An event keeps the Session object it found; `stale` records that this Session has left
the registry since.

The Session is here what a Dispatcher sees of it: a stage, what it has taken, and the
release. Each exit keeps the order of the code: the orderly end and the abnormal
shutdown release first and leave the registry afterwards, the exit handler and a failed
start leave first (`owes`, `givenUp`). A process may crash at any step; its lease then
lapses. A lease that lapses under a live holder is left to `LeaseStore` and `Session`.

`late` is the history variable that keeps the liveness property honest. It collects the
items that some step left to a Session past its last drain (stopping, released, or
gone), or that a fault deprived of their run. Everything else must be acked in the end.

### Affinity

One channel in thread mode with `affinity.scope: channel`; a key is the root post of a
thread. Each event keeps its key so far (`key`) and, between the read of the channel's
latest Session and its use, what it has read (`snap`). `SelectSession` is the thread's
binding or the derived key, `Deliver` the look into the registry, `ReadLatest` and
`Decide` are `resolveAffinityTarget`, `Join` is `bindThread`, `Touch` is the end of
`dispatchTriggered` with the debounce of `computeDispatchDelayMs` (`due`, `first`).
`Dispose` and `MarkEnded` are a Session that leaves the registry and the later record of
its end. A Session is its entry in the registry (`live`). `now` counts ticks; a timer
that is due fires before the clock goes on. `raced` and `rebound` are history: the
replies that chose a key before their post was enqueued, or for which the store gave no
answer, and the threads that a reaction bound (section 5).

### Workdir

A Workdir has the transcript `session.jsonl` and one work file; a transcript says in
which start it began and of which version of the work file it speaks (a version is the
turn that wrote it). `copyRegularEntry` removes its destination and then writes it: two
steps, `gap` the file between them and `copying` those still to come, with the
transcript last in a flush; a restore copies what is in the archive in any order, and
nothing when there is no transcript. `job` is where the holder of the lease is: `/new`
(`NewRead`, `NewWrite`), the start (`ReadRecord` ... `PutWrite`), "run" with pi at rest,
"turn" after a prompt pi has worked on, flush, end. A flush follows a turn only, because
agent_end does: pi has written a transcript then. `clearing` runs beside it, as
`clearRotateMarker` does. What goes on without the lease is `orphan`, a flush whose pi
has exited, and `stray`, a record a start was about to write. The record is read
(`GetRecord`) and replaced as a whole (`PutRecord`) in two steps. History: `cut`, the
starts before the last accepted `/new`; `undone`, that one of the ends of section 5 may
have undone it; `torn`, a flush that broke off at a work file or went on without the
lease.

### Gate and Admission

`Gate` is the `when` tree. A configuration's trees are a set `Node` of nodes with their
`Height`; that what is below a node ends is all that is assumed of them, as of anything
parsed from a file. `Evaluate` is `evaluateNode` with its order and its early exits, a
function over the nodes that says whether the event triggers and which classifiers were
called on the way; each classifier leaf is a call of its own, and the outcome of each
call (`Answers`: yes, no, failed) is chosen for the whole evaluation. `Builds` is the
build that throws when a classifier has no client, and `Means` the meaning of a tree
without an order. `Admission` takes an event of any sort through `handle` and
`handleReaction`: `Receive` (bots), `CommandNow` (commands to a running Session),
`admit` (`AdmitReads`, `CheckEnabled`, `Deliver`, `Judge`, `Fetch`, `Redeliver`), and
then the command or the dispatch. Every event keeps the configuration it has read
(`read`, `slow`), while `Reload` and the toggles change it. A configuration that cannot
be read is `NoConfig`, the defaults of the code. The lease is who holds it, with a
foreign runner; a Session is its entry in the registry. History: `quiet` (events that
arrived in a channel disabled since), `muted` (likewise of a timer that fired),
`judged`, `asked`, `granted` (the classifiers that said yes).

### Ingress

A post that mentions the bot has two events, `app_mention` and `message`; each is
delivered again while Slack has no answer (`answered`). `Deliver` is the transport's
checks and `normalize` with the bounded memory `seen`, one turn of the event loop;
`Ack`, `Pipeline`, `Resolved` and `Sink` are the steps between the awaits of the
pipeline. The transport is chosen at the start; the two differ in what a failed
acknowledgement does. `cache` holds the name of each user, or that a lookup failed;
concurrent lookups each store their answer. `Restart` loses the memory and what was
being handled. `forgotten` and `unresolved` are history.

### Egress

`queue` holds the tasks of each progress key; a task takes one step per call of the chat
API, and a call that failed had no effect (Slack may have carried out a call whose
answer was lost: not modelled). `chat` is the list of messages as they are now. Of a
Session there are the phase and its ProgressNotice (key, interval, text shown last,
where a text is the number of tool calls it shows); Sessions follow each other, and
replies whose files are being resolved, or a steer that resumes late, reach into the
next. `ran` and `strayed` are history.

### ConfigMerge and Config

A layer is a partial function from keys to values (`Over` lays one over another), the
sandbox a set of rules with a merge of its own; references to environment variables and
to one prompt file are resolved where the code does. `dump` is modelled by the label it
gives each value. A content the schemas refuse is `Broken`; what they accept is assumed
of the others (`SchemasAccept`, `ContentsAssumption`): the zod objects are strict, so
that the two parts of a channel's entry have no key in common and only the agent block
may name a file of rules. `Config` lets lookups run through `stat`, cache, read and
store while the file, the rules it names and the prompt file are edited; `writes` is the
history of its contents with their mtimes.

### PiProcess

`Stream` is what pi writes when it lives long enough, and `Places` where its records
begin and end. `StreamAssumption` is the protocol, JSONL: one object a line, no LF in
it, after it LF or CR LF, maybe empty lines, maybe no end of the last line, and what is
cut off an object is not one. A CR may stand anywhere inside a record. Node hands the
stream over in chunks cut anywhere (`Data`), and the exit event may come before the last
of them. `Push` takes a chunk character by character, which is what `JsonlDecoder.push`
with its `indexOf` and `slice` comes to; `Handled` is `handleLine`. `child` tells a
death by exit code from one by a signal, which leaves `exitCode` null. `stop` is its
listener and its two grace periods; `late` says it was called after the exit event.

## 3. Runs

| Run | Shows | Bounds |
|---|---|---|
| `lease_timely` | types, `MutualExclusion`, `LapsedStaysLapsed` | 3 processes, TTL 1 or 2, 5 ticks: a lease lapses and is taken over twice |
| `inbox_order` | `SameMsOrder`, `OrderAcrossGap`, `AckIsFinal` | 3 items, 4 calls (one redelivery), 3 ms with up to 3 calls each |
| `session_faults` | `ReceivedIsRemembered`, `OnlyClaimedIsAcked`, `BusyTurnIsTimed`, `NoPromptWhileBusy`, `AliveUnderLease`, `AckFollowsFlush` and the refinement of `ItemLifecycle` under every fault | 2 messages: the trigger and one that steers, is drained by another task, or arrives at any point of the end |
| `session_ends` | `AlwaysDisposed` under `FairSpec` | 2 messages; faults crash, timeout, reject, start, steal |
| `dispatcher` | `OneSessionPerKey`, `WaitingHasWaker`, and `EventuallyAcked` under `FairSpec`, all faults | 2 processes, 2 messages, one debounced and one that starts at once |
| `affinity` | `HardCap`, `ThreadStaysTogether`, `JoinsOnlyRecent`, `LatestFollowsMessages`, with store failures and a restart | 2 posts (one a mention), a reply and a reaction to the other; debounce and window 1, 3 ticks: a timer slides, and a Session leaves the window |
| `workdir` | `TranscriptNotAhead`, `NewCutsTranscript`, `MarkerIsConsumed` under every fault | 2 processes, 3 starts, 3 turns, 1 `/new`, channel mode: a start before the `/new`, one that dies after it, and one that follows |
| `admission` | `DisabledIsQuiet`, `FailsClosed`, `RotatesAtRest` under every fault | 2 events of 8 sorts (messages, bot, commands, reaction), 2 configurations of nested trees with 2 classifiers, 1 reload between them |
| `ingress` | `OneItemPerPost`, and `EveryPostArrives` under `FairSpec`, all faults, both transports | a mention with both its events, the bot's own post, one repeated delivery, a memory of 1: it is dropped between the two events |
| `egress` | `QuietAfterEnd`, `ReplyStays`, `NoTickAfterReply` under every fault | 2 Sessions in turn, 2 turns, a reply of up to 2 parts, 3 keys of which one is unknown, 2 destinations, queues of up to 2 |
| `config` | `Fresh`, `ResolvedAsWritten`, `SandboxOnlyGrows` | 2 lookups, every layering of `MCContents`, 3 contents of the file, 2 changes of the prompt file, two mtimes |
| `pi` | `LinesAreRecords`, and `StopReturns` under `PiFairSpec` | a stream of 11 pieces: 3 records, one with a CR inside and CR LF behind it, an empty line, a last record with a CR and no LF; 1 command |

`AliveUnderLease` says that a pi that lives although the Session has released its lease
is about to be killed by an abnormal shutdown, which releases first. `session_ends`
excludes `flush`, `store` and `signal`, under which the Session may stay for good
(section 5), and includes `timeout`, because the turn timeout is what ends a Session
whose agent_end never comes.

Why these bounds suffice. Where the interest lies in two tasks that interleave, there
are two of them and one more thing they act on; where it lies in succession (a lease
taken over, a Session after another, a start after a `/new`), there are the predecessor,
the one that goes wrong and the one that finds the result. A queue, a memory or an
interval is as small as lets it be full and be emptied. Where a property is proved
(section 4) the bound does not matter.

Deadlock is checked in `dispatcher` (a message may always arrive) and `config` (a lookup
may always begin), and in no other: clocks, posts, starts and turns are bounded, and a
Session or a child process really ends.

Fairness in `FairSpec` of `Session`: weak fairness of each runner task, of an armed
timer and of pi's exit once `stop()` runs. The event loop serves every ready
continuation, a timer that is not cleared fires, and `stop()` ends in a SIGKILL. Nothing
is assumed of how long a turn takes, of whether pi ever ends one, or of what arrives.
`FairSpec` of `Dispatcher` assumes weak fairness of each event's handling, of a timer
that runs, of the lapse of a dead holder's lease, and of the Session's stages: a start
returns or throws, and a turn ends because the turn timeout covers it
(`BusyTurnIsTimed`, `AlwaysDisposed` of `Session`). Nothing is assumed of faults or
arrivals. `FairSpec` of `Ingress` assumes that a delivery that was received is worked
on, which includes that `users.info` answers or fails; not that Slack delivers anything,
or repeats it. `PiFairSpec` assumes that Node hands over what is there, that the grace
periods pass and that SIGKILL kills; nothing is asked of pi.

Four configurations check further properties, which are not among the runs above because
their state spaces are those of the run of the same module. They hold, and are proved
(section 4) but for the bounds in the types of `Egress`; run them with `tlc -config
X.cfg M`:

| Configuration, module | Shows |
|---|---|
| `AdmissionMore.cfg`, `MCAdmission` | types; `ModeHolds`: with `evaluate` nothing reaches a Session that the gate did not pass, with `passthrough` a message to one costs no classifier; `DisabledTimerIsQuiet` |
| `EgressMore.cfg`, `MCEgress` | types; `UpdatesOwn`: a Session does not write into a progress message of an earlier one, except under a key that one left behind |
| `IngressMore.cfg`, `MCIngress` | types; `UnnamedHasReason`: an event handed over without a name had a failed lookup of its user |
| `WorkdirMore.cfg`, `MCWorkdir` | types |

## 4. Proofs

All for any set of messages, processes, faults, TTLs and bounds; the only assumptions
are those on the constants that each module states and TLC evaluates.

`ControlStoreProofs`, the lease: `LeaseTypeCorrect`; `LapsedStays`, from the auxiliary
invariant `RowMatchesHandle` (a row whose owner still holds its Lease object carries
that object's expiry), which stays inductive even with stale releases; and, assuming
`~StaleRelease`, `LeaseInvariant` and `Exclusion`. `MutualExclusion` alone is not
inductive: a live process that is not the row's owner would let the owner's release and
a new acquire break it. `LeaseInv` adds that each live holder is the row's owner and
that owner's handle and expiry are the row's.

`ControlStoreProofs`, the Inbox: `TypeCorrect`; `SameMillisecond` and `AcrossGap`, from
the inductive invariant `SeqInv`: the calls of one millisecond have the order of their
seq, and each seq lies within the burst of its millisecond. It speaks of the documents
in flight as well as of the stored ones, because a seq is given out before its
`create()` lands and the order has to hold whichever lands first; `MaxBurst` is the
bound on the calls per millisecond, so `AcrossGap` says how far apart two milliseconds
must be. `AckStays` needs only the types.

`SessionProofs`: `TypeCorrect`, with the Boolean flags and the other variables in two
lemmas because the provers treat them differently. `Delivery` is the inductive invariant
of the bookkeeping: what a delivery task drained or is about to send lies in `seen`,
what it has taken, what onAgentEnd, a shutdown or the exit handler is about to ack is
all in `claimed`; claimed and unacked items are in `prompted`; what pi was given was
claimed. `ReceivedIsRemembered` and `OnlyClaimedIsAcked` follow but are not inductive:
each ack removes a snapshot taken earlier, and each send uses a batch filtered earlier,
so the invariant has to speak of snapshots and batches. `FlushBeforeAck` adds that
onAgentEnd's snapshot was taken with its flush. `Implements` maps every step of the
Session to a step of `ItemLifecycle` or to a stutter, by one lemma per kind of step
(accept, take, ack, quiet).

The properties of the turn follow from `TurnInv`. `BusyTurnIsTimed` and
`AliveUnderLease` are part of it; neither is inductive, nor is `NoPromptWhileBusy`,
without a word on where the tasks are. `BeforeFirstPrompt`: until `start` has sent its
prompt there is no turn, so the prompt meets a pi at rest. `EndIsAtRest`: an agent_end
that is not retried, and the task that handles it, exist only beside a pi at rest, so
the prompt of `promptPending` does too, although steers and their agent_ends come in
between. `Unspawned`: before the spawn nothing is armed, exited or closing, so whatever
ends the Session later ends this pi. `ReleasedAfterExit`: the exit handler, the orderly
end and the rollback release after the exit of pi, which leaves `abnormalShutdown` as
the only release beside a living pi.

The same module has the decoder of `PiProcess`. `RecordsComeOut` proves
`LinesAreRecords` for any stream that keeps `StreamAssumption`. The argument is that
what the decoder holds after n characters is a function of the stream and n, whatever
the chunks were (`Decoded`): the buffer is the stream since the last LF before n, and
the lines are the records that end before that LF. `Decoded` is kept by one character
(`OneInALine`: between two LFs lies at most one record; `BeginsALine`: a record begins
its line; `TailIsCr`: at most one CR follows it in its line), by a chunk (`PushedIs`, an induction
over the characters of the chunk) and hence by any cut. At the end of stdout the buffer
is a record, the beginning of one or empty (`FlushedLines`).

`DispatcherProofs`: `TypeCorrect`; `Exclusion`, from `LeaseMatches`: the lease names the
process that has a Session at work or owes a release, in both directions, and no process
has both. Only the first half is needed for the exclusion, but a release would break it
without the third, and the second is what `NoLostWakeUp` needs: an acquire that is
refused has a holder, who drains or is past its drain. `NoLostWakeUp` further needs
`Attached` (an event that found a Session which has not left still finds one), because
`SteerNot` relies on that Session to drain.

`AffinityProofs`: `TypeCorrect`, with the fact that an event that joins has a target.
`DebounceIsCapped` rests on the lemma `DelayBounds` about `DispatchDelay` and is
inductive. `JoinsRecent` needs `Activity`: the activity recorded as the channel's
latest, and any copy of it an event still holds, is no later than the true one of its
key. `MessagesDecideLatest` needs only the types. `ThreadsStayTogether` needs
`Together`, a relation of four things: the binding of a root's thread, the key under
which the root was enqueued, the key its replies have chosen, and how far the root is on
its way; what it leaves out are the replies in `raced` and the threads in `rebound`.

`IngressProofs`: `TypeCorrect`, with the bound on the memory of posts; `OneItem`, from
`Memory`: of the events of a post that was never forgotten at most one delivery passes,
what passes is remembered, and what is in the Inbox has passed. `UnnamedIsExplained`
needs that the cache holds a failure only of a user whose look-up failed.

`EgressProofs`: `RepliesAreNotEdited`, from `KeysOwn`: what a key remembers is a
progress message of its own, and no two keys remember the same. The step of a reply
needs it of the message it overwrites, the later steps of every other key.
`EndedIsQuiet` adds that a Session out of its turn has no interval unless a steer
strayed. `RepliesCloseTheTurn` proves `NoTickAfterReply`, which is about the order in a
queue and not at all inductive. `PathInv` follows a tick from the timer that will
enqueue it to the head of its queue: at each place, no reply of its turn that has run,
or stands before it, is followed by something that opens the path again before it
(`Shut`). That a reset cannot break this rests on every turn being new (`TurnsBehind`),
on a reply having its turn when it is enqueued (`QueuedKnown`, `TurnKept`), and on one
Session at a time having a timer (`OneLive`, `OutIsQuiet`). `SessionsKeepApart` proves
`UpdatesOwn` from `OwnInv`, about the same queues: between what two Sessions write under
a key, whether it is shown already or still a tick in the queue, a `clearProgress` is
queued, and behind all that a Session has written that works there no more.

`WorkdirProofs`: one invariant in five parts. `Control` says what job, lease, copies and
counters have to do with each other. `MarkerInv`: a marker is overwritten only by a task
that has read it, or after an end that `undone` records; `MarkerIsKept` follows.
`CutInv`, for `NewIsHonoured`: after a `/new` either its marker is there or the archived
transcript is younger, a start that restores has read that marker or restores that
transcript, and a Session past its start has a younger one or none. `FilesInv`, for
`ArchiveCovers`, says more than the property, because a flush replaces one file after
the other and may stop anywhere: the Workdir at work covers not only its own transcript
but that of the archive, so that the files copied first never fall behind it. It needs
`VersionsInv` (no version is newer than the last turn). An earlier form of the model let
a flush run without a turn before it; the proof failed there, because
`TranscriptNotAhead` is then false from five starts on, beyond what the run reaches.

`ChannelProofs` has the two sides of a channel. *What a lookup answers*:
`LookupsAreFresh` is an argument about mtimes: they never decrease from one content to
the next (`WritesGrow`); the mtime under which a content is cached is no later than its
own, because `stat` comes before the read (`CacheIsOld`); and each lookup knows at each
of its steps which contents its own can be (`CallsAre`). The exception in `Fresh` is two
edits under one mtime. *What the settings are*: `SettingsAreAsWritten` and
`SandboxGrows` follow from what each merge keeps (`LastWriterIs`, `FieldsMerged`,
`PartsMerged`, `SandboxMerged`: the value and the label of the last layer that writes a
key), from loading changing no answer to who writes what (`LoadKeeps`), and from
`LoadInv`, that whatever is cached or answered is a load of a content that was written.
*What a tree decides*: `EvaluationIsMeaning` is an induction over the height of a tree,
done as a least counterexample because the library's induction cannot be instantiated;
`FixedPoint` proves that the recursive functions of `Gate` exist. *What becomes of an
event*: `AdmissionInv` says at each place of the handling what the event has read and in
which state of the channel (`EventsInv`), that an event which arrived in a channel
disabled since is held back (`QuietInv`), and who has the lease while a command rotates
(`LeaseInv`); `DisabledStaysQuiet`, `GateFailsClosed`, `NewRotatesAtRest`, `ModeIsKept`
and `TimerStaysQuiet` follow.

Only model-checked: `EventuallyAcked`, `AlwaysDisposed`, `EveryPostArrives` and
`StopReturns`, liveness under fairness, which the prover cannot express; and of `Egress`
the bounds in `TypeOK` (the proofs have the unbounded types).

## 5. Counterexamples and observations

These configurations check a statement of a document or a comment that the code does not
keep, and TLC shows how. They are documentation; run one with `tlc -config X.cfg M`.

| Configuration, module, property | The statement | What happens |
|---|---|---|
| `SessionMissed.cfg`, `Session`, `NothingMissed` | nothing is missed (`message-dispatch.md:148`) | a steer checked as running reaches an idle pi, which only queues it; agent_end acks it; the Session lingers, stops pi, and the item had no turn |
| `SessionDelivery.cfg`, `Session`, `DeliveredOnce` | prompted ids are excluded from a drain (`message-dispatch.md:154-155`) | two drains return the same item; each filtered before the other claimed it |
| `SessionFlushFails.cfg`, `Session`, `FlushFailureEndsRun` | after a failed flush the next run picks the input up (`state.md:353-354`) | the Session stays in the registry, lingering, its lease renewed, no timer to end it |
| `SessionReleaseOther.cfg`, `Session`, `NeverReleasesAnother` | a release never deletes a later holder's row (`state.md:178-179`) | pi dies before the first prompt: the exit handler and the rollback of `start` both release |
| `DispatcherRerun.cfg`, `Dispatcher`, `AckedNotRerun` | what was acked is not processed again (`message-dispatch.md:241-242`, `session.ts:522`) | a debounce timer runs in one process while the other drains and acks its trigger; when it fires, `start` finds nothing to drain and prompts the trigger again |
| `DispatcherLeft.cfg`, `Dispatcher`, `NothingLeftBehind` | nothing is missed (`message-dispatch.md:148`) | an event finds a Session that is past its last drain and only enqueues; no Session follows |
| `AffinityReaction.cfg`, `MCAffinity`, `BindsOwnThread` | a join records the thread of that message (`message-dispatch.md`, section 3.2) | a reaction takes the key its thread is bound to, finds no Session there, joins the latest and binds that key, not its own thread (`dispatcher.ts:443`): another thread moves |
| `WorkdirTorn.cfg`, `MCWorkdir`, `TranscriptHasFiles` | a flush that breaks off leaves a usable archive because the transcript comes last (`state.md:294-296`) | each copy removes its destination first (`copy.ts:48-67`): a crash in between leaves the old transcript without the work file it speaks of |
| `AdmissionCommand.cfg`, `MCAdmission`, `CommandIsNeverText` | a command to a running Session is not an instruction to the agent (`dispatcher.ts:248`) | the Session starts after the command looked at the registry; `admit` then delivers the text to it |
| `EgressLeft.cfg`, `MCEgress`, `LeftIsCollected` | a progress message left behind is collected by the next reply (`ingress-egress.md:218-219`, `progress.ts:103-104`) | a reply runs under the key of its Session's progress, and leaves the message of the other thread alone |
| `PiProcessLate.cfg`, `MCPiProcess`, `StopAlwaysReturns` | SIGTERM and SIGKILL follow when pi does not end (`pi-process.ts:217`) | `stop` after pi died by a signal: `exitCode` is null, and the exit event it awaits has passed; the Session stays stopping and renews its lease |

Further observations, met while modelling.

Session and `/new`.
- `#abnormalShutdown` releases the lease before it kills pi (`session.ts:763-766`),
  whereas the orderly end waits for the exit.
- A delivery that still awaits its reactions when the Session ends arms the turn timeout
  and the progress interval afterwards (`session.ts:583`).
- `state.md:358` says an abnormal end leaves its input in the Inbox,
  `message-dispatch.md` section 7.4 and the code say it is acked; a refused renew, which
  that section counts as an abnormal end, acks nothing (`session.ts:817`).
- When pi exits while `onAgentEnd` flushes, the exit handler releases the lease
  (`session.ts:475`) and the flush goes on beside the restore of the next Session.
- An accepted `/new` can be undone: the marker is cleared after `start`
  (`dispatcher.ts:841-848`) and before the first flush, and an abnormal end in between
  brings the old transcript back. A pi that exits while `start` writes the record can
  leave a write that overwrites a later marker.
- A crash between two files of a restore leaves a transcript beside an older work file
  in the Workdir of that process. When another process then dies between the removal and
  the copy of the transcript, the archive has none, `restore` copies nothing, and the
  next start in the first process works with that transcript.
- What an abnormal turn left in the Workdir reaches the archive with the next flush, and
  an old Workdir of another process can bring back files that were removed since.

Dispatcher, Gate, Commands.
- A debounce timer may start a key again that was drained meanwhile.
- A start that is refused because `/new` holds the lease leaves its item with nobody to
  drain it (`dispatcher.ts:705-706`), and so does one between a Session's release and
  its removal from the registry.
- An item that `/disable` left waiting is processed with the next event after `/enable`.
- `/new` to a running Session of a disabled channel is answered with a notice; a toggle
  to a running Session passes by the gate, as documented.
- The passthrough gate lets a bot's reaction pass.
- The Inbox deduplicates per key, so a redelivery that is routed elsewhere is new.

Lease and Inbox.
- The lease's token starts at 0 again after a release, where `interfaces.ts:80` says
  that it grows with every acquire.
- Three `enqueue` calls in one millisecond overtake a call of the next in the Firestore
  Inbox (`firestore.ts:125`, `interfaces.ts:26`).

Ingress.
- A socket acknowledgement that throws ends the handling, and the redelivery is dropped
  by the memory of seen messages: the message is lost, unlike `architecture.md:164`.
  HTTP answers 200 whatever happens afterwards.
- The failure of one look-up of a user is kept for the life of the process, and the last
  of several concurrent answers wins. Messages whose names are known overtake one that
  waits.

Egress.
- A reply of an earlier turn whose files were being resolved closes and may overwrite
  the progress of the next; replies with files are overtaken by those without.
- A progress update that fails keeps its message, and the next tick updates it again.
- `applyFenceContinuation` can make a chunk longer than the limit (`chunker.ts:3-5`,
  `:12`).

Configuration.
- Two edits within one tick of the mtime leave the older content cached (`config.md`,
  section 3.4), and an edit of the sandbox rule file alone is not seen until the YAML's
  mtime changes (`config.md:13`, `:171`).
- A load that fails makes the lookup throw and its callers use the code's defaults; the
  last good content is not used.
- `dump` succeeds where the runtime fails (an environment variable or a prompt file that
  is not there), although `config.md:367` says the two never differ; it labels the
  fields of `default` itself as the channel's (`config-source.ts:306-309`), resolves a
  DM's channel id from `default`, and prints the policy's values in JSON where
  `config.md:370` says null.
- Of two entries for one channel the first counts, without a word.

PiProcess.
- The exit event may precede the last lines of stdout; `stdin` has no error listener.

## 6. What may follow

All modules that were planned are there, and every safety property a run checks is
proved. Worth adding: the composition of `Affinity` with `Dispatcher`, several keys with
a lease each, and of `Dispatcher` with `Session`, whose stages it now states itself; the
`SharedStore` of the Agent State; the chunker as a pure function.

## 7. Not modelled, and why

- Server and runner entry points: wiring and command line parsing.
- The local chat: a terminal user interface for development.
- pi's extensions: they run inside pi, outside of the runner; pi is external everywhere.
- The layout of Egress texts (chunks, mrkdwn) and of notices, the rendering of prompts,
  the parsing of mentions, attachments and event fields: text, which no property is
  about.
- The schemas of the configuration: validation of static input, modelled as a content
  that does not load.
- The `SharedStore`: it copies without a lock or an order, so there is nothing to check
  but its absence.
- The arguments and the environment of `spawn`, and the rest of `prepareWorkdir`: file
  system set-up.
- The time a lease lives against the length of the calls between two renews:
  `StaleRelease` and the fault `steal` stand for it.

Out of the prover's reach and left to TLC: liveness and ENABLED. Recursion is not: the
trees of `Gate` and the decoder of `PiProcess` are recursive functions, about which the
proofs above do their own inductions. Only `MCAdmission` has a RECURSIVE operator, and
no theorem is about it.
