----------------------------- MODULE Admission -----------------------------
(***************************************************************************)
(* From a received event to its effect in one channel: Dispatcher.handle   *)
(* and handleReaction, GateEvaluator.admit, and the text commands /new,    *)
(* /enable and /disable (src/dispatch/dispatcher.ts, src/gate/evaluate.ts, *)
(* src/dispatch/commands.ts).  Any number of events are under way at once; *)
(* an action is the code between two awaits.                               *)
(*                                                                         *)
(* The sessionKey of an event is given (Affinity chooses it) and a Session *)
(* is its entry in the registry with its lease (Dispatcher, Session).      *)
(***************************************************************************)
EXTENDS Gate

CONSTANTS
  Event,     \* events, each received once; a Sort has a cmd as well
  Config,    \* what the channel's configuration can be
  MaxReload, \* bound on changes of the configuration
  IsDm,      \* is the channel a direct message?
  Faults,    \* what may go wrong, see FaultKind
  NoValue

FaultKind ==
  {"config",  \* the configuration cannot be read, which counts as none
   "store",   \* the Control State throws: the handling of the event fails
   "fetch",   \* the post of a reaction is not found
   "foreign"} \* another runner holds the lease of the Session's key

Command == {"none", "new", "newRest", "enable", "disable"}

ASSUME FaultsAssumption == Faults \subseteq FaultKind
ASSUME CommandAssumption == \A s \in Sort : s.cmd \in Command
ASSUME ReloadAssumption == MaxReload \in Nat

\* channelConfig without a configuration: mention only, or nothing in a DM.
NoConfig == [allowBots |-> FALSE, whileRunning |-> "passthrough",
             debounce |-> FALSE, when |-> DefaultWhen(IsDm)]

\* The schema of trigger; every tree is one of Gate.
ASSUME ConfigAssumption ==
  \A c \in Config \cup {NoConfig} :
    c.whileRunning \in {"passthrough", "evaluate"} /\ Root(c.when) \in Node

VARIABLES
  enabled,  \* Control State: the channel's state
  config,   \* the channel's configuration now
  reloads,
  client,   \* was a classifierClient configured?
  running,  \* the Session of the key: "no", "live", or "ended" but registered
  lease,    \* who holds the lease of its key
  timer,    \* the debounce timer: "off", "set" or "firing"
  inbox,    \* events in its Inbox
  marker,   \* rotateRequestedAt
  pc,       \* where the handling of each event is
  what,     \* what the event is, from its arrival on
  read,     \* the configuration it has read last
  slow,     \* does the configuration read by handle debounce it?
  fate,     \* what became of it
  \* history
  quiet,    \* events that arrived disabled, and it has not been enabled since
  muted,    \* the timer fired disabled, and it has not been enabled since
  judged,   \* what the tree said of each event: "none", "no", "pass"
  asked,    \* events a classifier was called for
  granted   \* the classifiers that said yes of each event

channel == <<enabled, config, reloads, client>>
session == <<running, lease, timer, inbox, marker>>
history == <<quiet, muted, judged, asked, granted>>
admissionVars == <<channel, session, pc, what, read, slow, fate, history>>

Place == {"unborn", "handle", "command", "admit", "check", "deliver", "judge",
          "fetch", "redeliver", "offer", "effect", "toggle", "rotate",
          "marked", "enqueue", "dispatch", "start", "done"}
Fate == {"none", "dropped", "failed", "delivered", "toggled", "rejected",
         "rotated", "dispatched"}

AdmissionInit ==
  /\ enabled \in BOOLEAN /\ config \in Config /\ reloads = 0
  /\ client \in BOOLEAN
  /\ running = "no" /\ lease = "free" /\ timer = "off"
  /\ inbox = {} /\ marker = FALSE
  /\ pc = [e \in Event |-> "unborn"]
  /\ what = [e \in Event |-> NoValue]
  /\ read = [e \in Event |-> NoValue]
  /\ slow = {} /\ fate = [e \in Event |-> "none"]
  /\ quiet = {} /\ muted = FALSE
  /\ judged = [e \in Event |-> "none"] /\ asked = {}
  /\ granted = [e \in Event |-> {}]

Cmd(e) == what[e].cmd
Toggles(e) == Cmd(e) \in {"enable", "disable"}
Reacts(e) == what[e].kind = "reaction"

(* ChannelStateStore: the state of a channel. *)
GetEnabled == enabled
PutEnabled(on) == enabled' = on

\* sessions.has.
Registered == running # "no"

Goto(e, place) ==
  /\ pc' = [pc EXCEPT ![e] = place]
  /\ UNCHANGED <<fate, read, slow>>

\* The handling ends; what it had read is forgotten.
End(e, outcome) ==
  /\ pc' = [pc EXCEPT ![e] = "done"]
  /\ fate' = [fate EXCEPT ![e] = outcome]
  /\ read' = [read EXCEPT ![e] = NoValue]
  /\ slow' = slow \ {e}

\* An await on the Control State throws.
StoreFails(e) ==
  /\ "store" \in Faults
  /\ pc[e] \in {"check", "offer", "toggle", "rotate", "enqueue", "start"}
  /\ End(e, "failed")
  /\ UNCHANGED <<channel, session, what, history>>

-----------------------------------------------------------------------------
(* handle and handleReaction, up to admit.                                 *)

Arrive(e, sort) ==
  /\ pc[e] = "unborn"
  /\ what' = [what EXCEPT ![e] = sort]
  /\ quiet' = IF enabled THEN quiet ELSE quiet \cup {e}
  /\ Goto(e, "handle")
  /\ UNCHANGED <<channel, session, muted, judged, asked, granted>>

\* channelConfig.
Reads == {config} \cup (IF "config" \in Faults THEN {NoConfig} ELSE {})

BotBarred(ev, c) == ev.kind = "message" /\ ev.bot /\ ~c.allowBots

\* A bot's text is never a command, and a reaction has none.
IsCommand(e) == ~what[e].bot /\ ~Reacts(e) /\ Cmd(e) # "none"

Receive(e) ==
  /\ pc[e] = "handle"
  /\ \E c \in Reads :
       \/ BotBarred(what[e], c) /\ End(e, "dropped")
       \/ /\ ~BotBarred(what[e], c)
          /\ pc' = [pc EXCEPT ![e] = IF IsCommand(e) THEN "command" ELSE "admit"]
          /\ slow' = IF c.debounce /\ ~what[e].mention THEN slow \cup {e} ELSE slow
          /\ UNCHANGED <<fate, read>>
  /\ UNCHANGED <<channel, session, what, history>>

\* With a Session there, /new is rejected and a toggle passes by the gate.
CommandNow(e) ==
  /\ pc[e] = "command"
  /\ \/ Registered /\ ~Toggles(e) /\ End(e, "rejected")
     \/ Registered /\ Toggles(e) /\ Goto(e, "toggle")
     \/ ~Registered /\ Goto(e, "admit")
  /\ UNCHANGED <<channel, session, what, history>>

-----------------------------------------------------------------------------
(* admit.                                                                  *)

\* Mutant of Bypasses: reactions are not held back in a disabled channel.
BypassesReaction(e) == Toggles(e) \/ Reacts(e)

Bypasses(e) == IsCommand(e) /\ Toggles(e)

AfterCheck(e) == IF Reacts(e) THEN "judge" ELSE "deliver"

AdmitReads(e) ==
  /\ pc[e] = "admit"
  /\ \E c \in Reads : read' = [read EXCEPT ![e] = c]
  /\ pc' = [pc EXCEPT ![e] = IF Bypasses(e) THEN AfterCheck(e) ELSE "check"]
  /\ UNCHANGED <<fate, slow>>
  /\ UNCHANGED <<channel, session, what, history>>

CheckEnabled(e) ==
  /\ pc[e] = "check"
  /\ \/ GetEnabled /\ Goto(e, AfterCheck(e))
     \/ ~GetEnabled /\ End(e, "dropped")
  /\ UNCHANGED <<channel, session, what, history>>

\* Mutant of SkipsGate: the mode is not looked at.
SkipsGateAlways(c) == TRUE

SkipsGate(c) == c.whileRunning = "passthrough"

\* Step 2, messages only: a running Session is given the message.
Deliver(e) ==
  /\ pc[e] = "deliver"
  /\ Goto(e, IF SkipsGate(read[e]) /\ Registered THEN "offer" ELSE "judge")
  /\ UNCHANGED <<channel, session, what, history>>

\* gatePasses.  A tree that cannot be built fails the event.  What a leaf that
\* is not called would answer does not matter.
Judge(e) ==
  /\ pc[e] = "judge"
  /\ IF Builds[Root(read[e].when)][client]
     THEN \E answers \in Answers :
       LET result == EvaluateWhen(read[e].when, what[e], answers)
       IN  /\ \A c \in Classifier \ result.asked : answers[c] = "no"
           /\ judged' = [judged EXCEPT ![e] = IF result.trigger THEN "pass" ELSE "no"]
           /\ asked' = IF result.asked # {} THEN asked \cup {e} ELSE asked
           /\ granted' = [granted EXCEPT ![e] = {c \in Classifier : answers[c] = "yes"}]
           /\ \/ ~result.trigger /\ End(e, "dropped")
              \/ result.trigger
                 /\ Goto(e, IF Reacts(e) THEN "fetch"
                            ELSE IF SkipsGate(read[e]) THEN "effect" ELSE "redeliver")
     ELSE End(e, "failed") /\ UNCHANGED <<judged, asked, granted>>
  /\ UNCHANGED <<channel, session, what, quiet, muted>>

\* materializeReaction.
Fetch(e) ==
  /\ pc[e] = "fetch"
  /\ \/ Goto(e, "redeliver")
     \/ "fetch" \in Faults /\ End(e, "dropped")
  /\ UNCHANGED <<channel, session, what, history>>

\* What the gate let through is given to a running Session as well.
Redeliver(e) ==
  /\ pc[e] = "redeliver"
  /\ Goto(e, IF Registered THEN "offer" ELSE "effect")
  /\ UNCHANGED <<channel, session, what, history>>

\* trySteerExisting; the steer is in Session.
Offer(e) ==
  /\ pc[e] = "offer"
  /\ inbox' = inbox \cup {e}
  /\ End(e, "delivered")
  /\ UNCHANGED <<channel, running, lease, timer, marker, what, history>>

-----------------------------------------------------------------------------
(* What was admitted.                                                      *)

Effect(e) ==
  /\ pc[e] = "effect"
  /\ Goto(e, IF ~IsCommand(e) THEN "enqueue"
             ELSE IF Toggles(e) THEN "toggle" ELSE "rotate")
  /\ UNCHANGED <<channel, session, what, history>>

\* handleToggleCommand.
Toggle(e) ==
  /\ pc[e] = "toggle"
  /\ PutEnabled(Cmd(e) = "enable")
  /\ quiet' = IF enabled' THEN {} ELSE quiet
  /\ muted' = (muted /\ ~enabled')
  /\ End(e, "toggled")
  /\ UNCHANGED <<config, reloads, client, session, what, judged, asked, granted>>

\* Mutant of MayRotate: the marker is written without a lease.
MayRotateAlways == TRUE

MayRotate == lease = "free"

\* handleNewCommand: the marker is written under a lease of its own.
RotateAcquire(e) ==
  /\ pc[e] = "rotate"
  /\ \/ MayRotate /\ lease' = "new" /\ Goto(e, "marked")
     \/ ~MayRotate /\ UNCHANGED lease /\ End(e, "rejected")
  /\ UNCHANGED <<channel, running, timer, inbox, marker, what, history>>

\* Mutant of ReleaseNew: the lease is kept when the marker was not written.
ReleaseNewWritten(written) == lease' = IF written THEN "free" ELSE lease

\* The lease is released whether the marker was written or not.
ReleaseNew(written) == lease' = "free"

Rotate(e) ==
  /\ pc[e] = "marked"
  /\ \/ /\ marker' = TRUE /\ ReleaseNew(TRUE)
        /\ IF Cmd(e) = "newRest" THEN Goto(e, "enqueue") ELSE End(e, "rotated")
     \/ /\ "store" \in Faults /\ UNCHANGED marker /\ ReleaseNew(FALSE)
        /\ End(e, "failed")
  /\ UNCHANGED <<channel, running, timer, inbox, what, history>>

\* dispatchTriggered, after the choice of the Session.
Enqueue(e) ==
  /\ pc[e] = "enqueue"
  /\ inbox' = inbox \cup {e}
  /\ Goto(e, "dispatch")
  /\ UNCHANGED <<channel, running, lease, timer, marker, what, history>>

Dispatch(e) ==
  /\ pc[e] = "dispatch"
  /\ \/ Registered /\ End(e, "dispatched") /\ UNCHANGED timer
     \/ ~Registered /\ e \in slow /\ timer' = "set" /\ End(e, "dispatched")
     \/ ~Registered /\ e \notin slow /\ timer' = "off" /\ Goto(e, "start")
  /\ UNCHANGED <<channel, running, lease, inbox, marker, what, history>>

\* startOrResumeSession: the lease first, then the registry once more.
TryStart ==
  IF lease = "free" /\ ~Registered
  THEN lease' = "session" /\ running' = "live"
  ELSE UNCHANGED <<lease, running>>

StartNow(e) ==
  /\ pc[e] = "start"
  /\ TryStart
  /\ End(e, "dispatched")
  /\ UNCHANGED <<channel, timer, inbox, marker, what, history>>

\* fireDebouncedDispatch: the timer is gone, then the channel's state is read.
Fires ==
  /\ timer = "set"
  /\ timer' = IF Registered THEN "off" ELSE "firing"
  /\ muted' = ~enabled
  /\ UNCHANGED <<channel, running, lease, inbox, marker, pc, what, read, slow, fate,
                 quiet, judged, asked, granted>>

\* Mutant of MayFire: the channel's state is not read again.
MayFireAlways == TRUE

MayFire == GetEnabled

Fired ==
  /\ timer = "firing" /\ timer' = "off"
  /\ \/ MayFire /\ TryStart
     \/ ~MayFire /\ UNCHANGED <<running, lease>>
     \/ "store" \in Faults /\ UNCHANGED <<running, lease>>
  /\ UNCHANGED <<channel, inbox, marker, pc, what, read, slow, fate, history>>

-----------------------------------------------------------------------------
(* The Session, another runner, the administrator.                         *)

\* The Session consumed the marker at its start; it drains what is there,
\* gives its lease back and leaves the registry after that.
SessionEnds ==
  /\ \/ /\ running = "live" /\ running' = "ended"
        /\ lease' = "free" /\ marker' = FALSE /\ inbox' = {}
     \/ /\ running = "ended" /\ running' = "no"
        /\ UNCHANGED <<lease, marker, inbox>>
  /\ UNCHANGED <<channel, timer, pc, what, read, slow, fate, history>>

ForeignTakes ==
  /\ "foreign" \in Faults
  /\ \/ lease = "free" /\ lease' = "foreign"
     \/ lease = "foreign" /\ lease' = "free"
  /\ UNCHANGED <<channel, running, timer, inbox, marker, pc, what, read, slow, fate, history>>

Reload ==
  /\ reloads < MaxReload /\ reloads' = reloads + 1
  /\ config' \in Config
  /\ UNCHANGED <<enabled, client, session, pc, what, read, slow, fate, history>>

Handle(e) ==
  \/ Receive(e) \/ CommandNow(e) \/ AdmitReads(e) \/ CheckEnabled(e)
  \/ Deliver(e) \/ Judge(e) \/ Fetch(e) \/ Redeliver(e) \/ Offer(e)
  \/ Effect(e) \/ Toggle(e) \/ RotateAcquire(e) \/ Rotate(e)
  \/ Enqueue(e) \/ Dispatch(e) \/ StartNow(e) \/ StoreFails(e)

AdmissionNext ==
  \/ \E e \in Event, s \in Sort : Arrive(e, s)
  \/ \E e \in Event : Handle(e)
  \/ Fires \/ Fired \/ SessionEnds \/ ForeignTakes \/ Reload

AdmissionSpec == AdmissionInit /\ [][AdmissionNext]_admissionVars

-----------------------------------------------------------------------------

TypeOK ==
  /\ enabled \in BOOLEAN /\ config \in Config /\ reloads \in 0..MaxReload /\ client \in BOOLEAN
  /\ running \in {"no", "live", "ended"} /\ lease \in {"free", "session", "new", "foreign"}
  /\ timer \in {"off", "set", "firing"} /\ inbox \subseteq Event /\ marker \in BOOLEAN
  /\ pc \in [Event -> Place] /\ what \in [Event -> Sort \cup {NoValue}]
  /\ read \in [Event -> Config \cup {NoConfig, NoValue}] /\ slow \subseteq Event
  /\ fate \in [Event -> Fate] /\ judged \in [Event -> {"none", "no", "pass"}]
  /\ lease = "new" => \E e \in Event : pc[e] = "marked"
  /\ quiet \subseteq Event /\ muted \in BOOLEAN /\ asked \subseteq Event
  /\ granted \in [Event -> SUBSET Classifier]

\* session-model.md section 5.2: what arrives in a disabled channel that stays
\* disabled reaches no Session, starts none, rotates none and costs no call of
\* the classifier.  Only /enable and /disable pass.
DisabledIsQuiet ==
  \A e \in quiet : ~(IsCommand(e) /\ Toggles(e)) =>
    fate[e] \notin {"delivered", "dispatched", "rotated"} /\ e \notin asked

\* config.md section 4 and classifier.ts: the gate passes an event only if its
\* tree holds of it with no other classifiers than those that said yes; a call
\* that failed never helps, whatever is above it in the tree.
FailsClosed ==
  \A e \in Event : judged[e] = "pass" /\ pc[e] # "done" =>
    Means[Root(read[e].when)][what[e]][granted[e]]

\* message-dispatch.md section 2: with "evaluate" nothing reaches a Session
\* that the gate did not pass, also when the mode was changed on the way; with
\* "passthrough" a message to a running Session costs no classifier.
ModeHolds ==
  \A e \in Event : pc[e] = "offer" =>
    IF Reacts(e) \/ read[e].whileRunning = "evaluate"
    THEN judged[e] = "pass" ELSE e \notin asked

\* session-model.md section 5.1: the marker is not written under a Session that
\* is alive, although the registry was looked at awaits ago.
RotatesAtRest ==
  [][marker' /\ ~marker => running # "live"]_admissionVars

\* message-dispatch.md section 4: a debounce timer that comes due in a disabled
\* channel starts no Session, unless the channel is enabled before it could.
DisabledTimerIsQuiet ==
  [][timer = "firing" /\ timer' = "off" /\ running' # running => ~muted]_admissionVars

\* commands.ts: a command to a Session that runs is not handed to the agent as
\* an instruction.
CommandIsNeverText ==
  \A e \in Event : fate[e] = "delivered" => ~IsCommand(e)
=============================================================================
