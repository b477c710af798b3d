------------------------------ MODULE Ingress ------------------------------
(***************************************************************************)
(* From a delivery of Slack to the sink of the Ingress: the transports     *)
(* (src/ingress/slack/http-ingress.ts, socket-ingress.ts), the codec with  *)
(* its memory of seen messages (src/ingress/slack/adapter.ts), the common  *)
(* pipeline (src/ingress/pipeline.ts) and the resolver of names            *)
(* (src/ingress/user-resolver.ts, src/ingress/slack/user-resolver.ts).     *)
(*                                                                         *)
(* A mention of the bot comes as two events, app_mention and message, of   *)
(* one post; Slack delivers an event again as long as it has no answer.    *)
(* The sink ends at the Inbox, which takes each event id once.  The names  *)
(* in the text of a post are resolved like its sender's and left out.      *)
(***************************************************************************)
EXTENDS Naturals, FiniteSets

CONSTANTS
  Post,       \* posts of the workspace
  Mentions,   \* those that mention the bot
  Own,        \* those of the bot itself
  Other,      \* those of a subtype that is not handled
  Large,      \* those whose envelope is larger than MAX_BODY_BYTES
  User,
  AuthorOf,   \* the user of a post
  Limit,      \* SEEN_MESSAGES_LIMIT
  MaxRetry,   \* bound on the deliveries that Slack repeats
  Faults      \* what may go wrong, see FaultKind

FaultKind ==
  {"skew",    \* the signature's time is off by more than the tolerance
   "ack",     \* the ack of a socket fails, the answer to a request is lost
   "users",   \* users.info fails
   "sink",    \* the handling of the event throws
   "restart"} \* the runner dies and comes back

ASSUME PostAssumption ==
  /\ Mentions \subseteq Post /\ Own \subseteq Post
  /\ Other \subseteq Post /\ Large \subseteq Post
  /\ AuthorOf \in [Post -> User]
ASSUME BoundAssumption == Limit \in Nat \ {0} /\ MaxRetry \in Nat
ASSUME FaultsAssumption == Faults \subseteq FaultKind

Kind == {"app_mention", "message"}
Id == {<<p, k>> : p \in Post, k \in Kind}
Sent == {id \in Id : id[2] = "message" \/ id[1] \in Mentions}
Try == 1..(MaxRetry + 1)
Delivery == Sent \X Try

PostOf(d) == d[1][1]

VARIABLES
  transport, \* "http" or "socket"
  retries,
  answered,  \* events that Slack knows to be acknowledged
  seen,      \* seenMessages
  cache,     \* names by user: "unknown", "null" or "name"
  place,     \* where the handling of each delivery is
  named,     \* deliveries given a display name
  inbox,     \* event ids the Inbox has taken
  \* history
  forgotten, \* posts whose memory was dropped
  unresolved \* users whose lookup has failed

vars == <<transport, retries, answered, seen, cache, place, named, inbox,
          forgotten, unresolved>>

Place == {"none", "refused", "dropped", "received", "acked", "asking", "sink",
          "done", "failed", "lost"}

Init ==
  /\ transport \in {"http", "socket"}
  /\ retries = 0 /\ answered = {} /\ seen = {}
  /\ cache = [u \in User |-> "unknown"]
  /\ place = [d \in Delivery |-> "none"]
  /\ named = {} /\ inbox = {} /\ forgotten = {} /\ unresolved = {}

Goto(d, where) == place' = [place EXCEPT ![d] = where]

-----------------------------------------------------------------------------
(* The codec.                                                              *)

\* A subtype other than bot_message is not handled.
Normalizes(p) == p \notin Other

\* Mutant of SeenKey: posts are told apart by their channel only.
SeenKeyChannel(p) == Post

\* messageKey: the channel and the ts of the post, one for both its events.
SeenKey(p) == {p}

\* Mutant of Remember: the memory is never dropped.
RememberAlways(memory, p) == memory \cup {p}

\* Mutant of Remember: the memory is dropped after the post was added to it.
RememberThenClear(memory, p) ==
  IF Cardinality(memory) + 1 >= Limit THEN {} ELSE memory \cup {p}

\* A full memory is dropped as a whole before the post is added.
Remember(memory, p) ==
  IF Cardinality(memory) >= Limit THEN {p} ELSE memory \cup {p}

\* normalize.
Normalize(d) ==
  LET p == PostOf(d)
  IN  IF Normalizes(p) /\ SeenKey(p) \cap seen = {}
      THEN /\ seen' = Remember(seen, p)
           /\ forgotten' = forgotten \cup (seen \ seen')
           /\ Goto(d, "received")
           /\ UNCHANGED answered
      ELSE /\ Goto(d, "dropped")
           /\ answered' = answered \cup {d[1]}
           /\ UNCHANGED <<seen, forgotten>>

-----------------------------------------------------------------------------
(* The transports.                                                         *)

\* The checks of a request before its body is read as an event.
Refuses(p) ==
  /\ transport = "http"
  /\ p \in Large \/ "skew" \in Faults

MustRefuse(p) == transport = "http" /\ p \in Large

\* A first delivery, or one more as long as the last has no answer.
Due(d) ==
  /\ place[d] = "none"
  /\ \/ d[2] = 1 /\ UNCHANGED retries
     \/ /\ d[2] > 1 /\ place[<<d[1], d[2] - 1>>] # "none"
        /\ d[1] \notin answered
        /\ retries < MaxRetry /\ retries' = retries + 1

Deliver(d) ==
  /\ Due(d)
  /\ \/ ~MustRefuse(PostOf(d)) /\ Normalize(d)
     \/ /\ Refuses(PostOf(d)) /\ Goto(d, "refused")
        /\ UNCHANGED <<answered, seen, forgotten>>
  /\ UNCHANGED <<transport, cache, named, inbox, unresolved>>

\* The pipeline's first step.  In HTTP it answers 200, which may be lost; on a
\* socket it may throw, and with it the handling of the event.
Ack(d) ==
  /\ place[d] = "received"
  /\ \/ answered' = answered \cup {d[1]} /\ Goto(d, "acked")
     \/ "ack" \in Faults /\ UNCHANGED answered
        /\ Goto(d, IF transport = "http" THEN "acked" ELSE "failed")
  /\ UNCHANGED <<transport, retries, seen, cache, named, inbox, forgotten, unresolved>>

-----------------------------------------------------------------------------
(* The pipeline.                                                           *)

\* Mutant of FirstSight: the name is put in the cache before it is known.
FirstSightNull(u) == cache' = [cache EXCEPT ![u] = "null"]

\* resolve calls users.info and leaves the cache alone until it answers.
FirstSight(u) == UNCHANGED cache

\* An echo of the bot is dropped; the name of the sender is in the cache, with
\* its failure, or is asked for.
Pipeline(d) ==
  /\ place[d] = "acked"
  /\ LET p == PostOf(d)
         u == AuthorOf[p]
     IN  \/ p \in Own /\ Goto(d, "dropped") /\ UNCHANGED <<cache, named>>
         \/ /\ p \notin Own /\ cache[u] # "unknown"
            /\ named' = IF cache[u] = "name" THEN named \cup {d} ELSE named
            /\ Goto(d, "sink") /\ UNCHANGED cache
         \/ /\ p \notin Own /\ cache[u] = "unknown"
            /\ FirstSight(u)
            /\ Goto(d, "asking") /\ UNCHANGED named
  /\ UNCHANGED <<transport, retries, answered, seen, inbox, forgotten, unresolved>>

\* The last answer stays in the cache, whatever another found before.
Resolved(d) ==
  /\ place[d] = "asking"
  /\ LET u == AuthorOf[PostOf(d)]
     IN  \/ /\ cache' = [cache EXCEPT ![u] = "name"]
            /\ named' = named \cup {d} /\ UNCHANGED unresolved
         \/ /\ "users" \in Faults
            /\ cache' = [cache EXCEPT ![u] = "null"]
            /\ unresolved' = unresolved \cup {u} /\ UNCHANGED named
  /\ Goto(d, "sink")
  /\ UNCHANGED <<transport, retries, answered, seen, inbox, forgotten>>

\* The Inbox takes an event id once, also after a restart.
Sink(d) ==
  /\ place[d] = "sink"
  /\ \/ inbox' = inbox \cup {d[1]} /\ Goto(d, "done")
     \/ "sink" \in Faults /\ Goto(d, "failed") /\ UNCHANGED inbox
  /\ UNCHANGED <<transport, retries, answered, seen, cache, named, forgotten, unresolved>>

Restart ==
  /\ "restart" \in Faults
  /\ seen' = {} /\ forgotten' = forgotten \cup seen
  /\ cache' = [u \in User |-> "unknown"]
  /\ place' = [d \in Delivery |->
                 IF place[d] \in {"received", "acked", "asking", "sink"}
                 THEN "lost" ELSE place[d]]
  /\ UNCHANGED <<transport, retries, answered, named, inbox, unresolved>>

Work(d) == Ack(d) \/ Pipeline(d) \/ Resolved(d) \/ Sink(d)

Next == (\E d \in Delivery : Deliver(d) \/ Work(d)) \/ Restart

\* What was received is worked on: the process runs, and users.info answers or
\* fails in the end.
Fairness == \A d \in Delivery : WF_vars(Work(d))

Spec == Init /\ [][Next]_vars
FairSpec == Spec /\ Fairness

-----------------------------------------------------------------------------

TypeOK ==
  /\ transport \in {"http", "socket"} /\ retries \in 0..MaxRetry
  /\ answered \subseteq Sent /\ seen \subseteq Post /\ Cardinality(seen) <= Limit
  /\ cache \in [User -> {"unknown", "null", "name"}]
  /\ place \in [Delivery -> Place] /\ named \subseteq Delivery
  /\ inbox \subseteq Sent /\ forgotten \subseteq Post /\ unresolved \subseteq User

\* ingress-egress.md section 3: the two events of a mention become one item,
\* unless the post was forgotten after it was remembered.
OneItemPerPost ==
  \A p \in Post : p \notin forgotten =>
    Cardinality({id \in inbox : id[1] = p}) <= 1

\* ingress-egress.md section 4: an event whose sender has a name is handed over
\* with it, unless a lookup of that user has failed (the failure is kept).
UnnamedHasReason ==
  \A d \in Delivery :
    place[d] \in {"sink", "done"} /\ d \notin named
      => AuthorOf[PostOf(d)] \in unresolved

\* A post that came through the checks of the transport gets into the Inbox,
\* except what is dropped on purpose and what a failure took.
EveryPostArrives ==
  \A p \in Post \ (Own \cup Other) :
    (\E d \in Delivery : PostOf(d) = p /\ place[d] \notin {"none", "refused"})
      ~> \/ \E id \in inbox : id[1] = p
         \/ \E d \in Delivery : PostOf(d) = p /\ place[d] \in {"failed", "lost"}
=============================================================================
