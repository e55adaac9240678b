------------------------------- MODULE Ingress -------------------------------
(***************************************************************************)
(* The broker ingress (modules/cloudevent-broker/cmd/ingress): it checks   *)
(* who sends an event, publishes the event to the topic of its type, and   *)
(* answers when the publish is done.  A CloudEvent's partitionkey becomes  *)
(* the ordering key of the message (pkg/pubsub).                           *)
(*                                                                         *)
(* The publisher is the client library of Pub/Sub, modelled by what the    *)
(* ingress relies on: the messages of an ordering key are sent one at a    *)
(* time in the order they were published; when one of them fails the key   *)
(* is paused, and everything published to it fails until ResumePublish.    *)
(***************************************************************************)
EXTENDS Integers, SequencesExt

CONSTANTS Events,
          TypeOf,          \* ce-type of each event
          KeyOf,           \* partitionkey extension of each event, or NoKey
          NoKey,
          Tokens,          \* what the Authorization header of each event holds
          Types,
          DefaultTopic,    \* PUBSUB_TOPIC
          Overrides,       \* EVENT_TYPE_TOPIC_OVERRIDES: some types to topics
          OidcMaxAttempts, \* 5 in the code
          MaxFaults        \* bound: failed calls and lost clients in a behaviour

ASSUME ConstantsAssumption ==
    /\ TypeOf \in [Events -> Types]
    /\ DOMAIN KeyOf = Events
    /\ Tokens \in [Events -> {"none", "invalid", "unverified", "verified"}]
    /\ DOMAIN Overrides \subseteq Types
    /\ OidcMaxAttempts \in Nat \ {0}
    /\ MaxFaults \in Nat

VARIABLES
    boot,    \* main: "oidc", "backoff", "serving", "stopping", "exited" or "fatal"
    attempt, \* OIDC discovery attempts
    st,      \* the last request made for each event
    queue,   \* per publisher and key: messages not sent yet, with whether the
             \* handler that published them still waits
    paused,  \* per publisher: the keys that are paused
    topic,   \* per topic and key: the messages Pub/Sub has, in order
    faults,  \* counts faults, up to MaxFaults
    arrived, \* history: events in the order forward first saw them
    failed   \* history: events a request of which has failed

vars == <<boot, attempt, st, queue, paused, topic, faults, arrived, failed>>

-----------------------------------------------------------------------------
(***************************************************************************)
(* buildPublishers, publisherForType, fromCloudEvent                       *)
(***************************************************************************)

TopicFor(t) == IF t \in DOMAIN Overrides THEN Overrides[t] ELSE DefaultTopic

\* Mutant: a publisher for each type that has an override.
PublisherFor_PerType(t) == IF t \in DOMAIN Overrides THEN t ELSE DefaultTopic

\* Types that share a topic share its publisher, which is named by the topic.
PublisherFor(t) == TopicFor(t)

Publisher(e) == PublisherFor(TypeOf[e])
Topic(e)     == TopicFor(TypeOf[e])
Publishers   == {PublisherFor(t) : t \in Types}
Topics       == {TopicFor(t) : t \in Types}
Keys         == {KeyOf[e] : e \in Events}

Init == /\ boot = "oidc"
        /\ attempt = 1
        /\ st = [e \in Events |-> "new"]
        /\ queue = [p \in Publishers |-> [k \in Keys |-> <<>>]]
        /\ paused = [p \in Publishers |-> {}]
        /\ topic = [t \in Topics |-> [k \in Keys |-> <<>>]]
        /\ faults = 0
        /\ arrived = <<>>
        /\ failed = {}

Fault == faults < MaxFaults /\ faults' = faults + 1

-----------------------------------------------------------------------------
(***************************************************************************)
(* main: OIDC discovery, before anything is served                         *)
(***************************************************************************)

requestVars == <<st, queue, paused, topic, arrived, failed>>

OidcReady == /\ boot = "oidc"
             /\ boot' = "serving"
             /\ UNCHANGED <<attempt, faults, requestVars>>

\* Mutant: one attempt too many.
OidcFails_OneMore == /\ Fault
                     /\ boot = "oidc"
                     /\ boot' = IF attempt > OidcMaxAttempts THEN "fatal" ELSE "backoff"
                     /\ UNCHANGED <<attempt, requestVars>>

OidcFails == /\ Fault
             /\ boot = "oidc"
             /\ boot' = IF attempt = OidcMaxAttempts THEN "fatal" ELSE "backoff"
             /\ UNCHANGED <<attempt, requestVars>>

OidcRetry == /\ boot = "backoff"
             /\ boot' = "oidc"
             /\ attempt' = attempt + 1
             /\ UNCHANGED <<faults, requestVars>>

\* The context is done: at the next failure, or during the backoff.  A failure
\* of a later step of the set-up is fatal too.
OidcInterrupted == /\ Fault
                   /\ boot \in {"oidc", "backoff"}
                   /\ boot' = "fatal"
                   /\ UNCHANGED <<attempt, requestVars>>

\* SIGTERM: the receiver takes no more requests.
Sigterm == /\ boot = "serving"
           /\ boot' = "stopping"
           /\ UNCHANGED <<attempt, faults, requestVars>>

\* The handlers have answered, and Stop has sent what the publishers hold.
Exit == /\ boot = "stopping"
        /\ \A e \in Events : st[e] \notin {"queued", "ok", "error"}
        /\ \A p \in Publishers : \A k \in Keys : queue[p][k] = <<>>
        /\ boot' = "exited"
        /\ UNCHANGED <<attempt, faults, requestVars>>

-----------------------------------------------------------------------------
(***************************************************************************)
(* One request: the receiver's callback and forward                        *)
(***************************************************************************)

\* No token, one that does not verify, or an email that is not verified.
Reject(e) ==
    /\ boot = "serving"
    /\ st[e] = "new"
    /\ Tokens[e] # "verified"
    /\ st' = [st EXCEPT ![e] = "401"]
    /\ UNCHANGED <<boot, attempt, queue, paused, topic, faults, arrived, failed>>

\* Publish: a paused key fails at once, else the message is queued.  A source
\* that was answered 500 sends the event again.
Publish(e) ==
    LET p == Publisher(e)
        k == KeyOf[e]
    IN  /\ boot = "serving"
        /\ st[e] \in {"new", "500"}
        /\ Tokens[e] = "verified"
        /\ arrived' = IF st[e] = "new" THEN Append(arrived, e) ELSE arrived
        /\ IF k \in paused[p]
             THEN /\ st' = [st EXCEPT ![e] = "error"]
                  /\ failed' = failed \union {e}
                  /\ UNCHANGED queue
             ELSE /\ st' = [st EXCEPT ![e] = "queued"]
                  /\ queue' = [queue EXCEPT ![p][k] = Append(@, [ev |-> e, live |-> TRUE])]
                  /\ UNCHANGED failed
        /\ UNCHANGED <<boot, attempt, paused, topic, faults>>

\* Get returns without an error.
Accept(e) ==
    /\ st[e] = "ok"
    /\ st' = [st EXCEPT ![e] = "200"]
    /\ UNCHANGED <<boot, attempt, queue, paused, topic, faults, arrived, failed>>

\* Mutant: the key stays paused.
FailRequest_NoResume(e) ==
    /\ st' = [st EXCEPT ![e] = "500"]
    /\ UNCHANGED paused

\* Mutant: forward logs the error and returns nil.
FailRequest_Logged(e) ==
    /\ st' = [st EXCEPT ![e] = "200"]
    /\ paused' = [paused EXCEPT ![Publisher(e)] = @ \ {KeyOf[e]}]

\* The error path of forward: the key is resumed, whoever paused it.
FailRequest(e) ==
    /\ st' = [st EXCEPT ![e] = "500"]
    /\ paused' = [paused EXCEPT ![Publisher(e)] = @ \ {KeyOf[e]}]

Fail(e) ==
    /\ st[e] = "error"
    /\ FailRequest(e)
    /\ UNCHANGED <<boot, attempt, queue, topic, faults, arrived, failed>>

\* The client of the ingress is gone: Get returns the context's error and the
\* message stays where it is.
Abandon(e) ==
    LET p == Publisher(e)
        k == KeyOf[e]
    IN  /\ Fault
        /\ st[e] = "queued"
        /\ FailRequest(e)
        /\ queue' = [queue EXCEPT ![p][k] =
               [i \in DOMAIN @ |-> IF @[i].ev = e THEN [ev |-> e, live |-> FALSE] ELSE @[i]]]
        /\ failed' = failed \union {e}
        /\ UNCHANGED <<boot, attempt, topic, arrived>>

-----------------------------------------------------------------------------
(***************************************************************************)
(* The Pub/Sub publisher                                                   *)
(***************************************************************************)

\* Message i of a key is handled: the first one, or any if it has no key.
Next1(p, k, i) == i \in DOMAIN queue[p][k] /\ (k # NoKey => i = 1)

\* The result goes to the handler, if it still waits.
Result(p, k, i, out) ==
    LET m == queue[p][k][i]
    IN  /\ queue' = [queue EXCEPT ![p][k] = RemoveAt(@, i)]
        /\ st' = IF m.live THEN [st EXCEPT ![m.ev] = out] ELSE st

Stored(p, k, i) ==
    LET e == queue[p][k][i].ev
    IN  topic' = [topic EXCEPT ![Topic(e)][k] = Append(@, e)]

SendOk(p, k, i) ==
    /\ Next1(p, k, i)
    /\ k \notin paused[p]
    /\ Result(p, k, i, "ok")
    /\ Stored(p, k, i)
    /\ UNCHANGED <<boot, attempt, paused, faults, arrived, failed>>

\* The call fails, after Pub/Sub stored the message or not.
SendFails(p, k, i) ==
    /\ Fault
    /\ Next1(p, k, i)
    /\ k \notin paused[p]
    /\ Result(p, k, i, "error")
    /\ Stored(p, k, i) \/ UNCHANGED topic
    /\ paused' = [paused EXCEPT ![p] = @ \union ({k} \ {NoKey})]
    /\ failed' = failed \union {queue[p][k][i].ev}
    /\ UNCHANGED <<boot, attempt, arrived>>

\* A message queued before its key was paused.
SendRefused(p, k, i) ==
    /\ Next1(p, k, i)
    /\ k \in paused[p]
    /\ Result(p, k, i, "error")
    /\ failed' = failed \union {queue[p][k][i].ev}
    /\ UNCHANGED <<boot, attempt, paused, topic, faults, arrived>>

-----------------------------------------------------------------------------
Main == OidcReady \/ OidcRetry \/ Exit

Handler(e) == Reject(e) \/ Publish(e) \/ Accept(e) \/ Fail(e)

Sender(p, k) == \E i \in DOMAIN queue[p][k] : SendOk(p, k, i) \/ SendRefused(p, k, i)

Next == \/ Main \/ OidcFails \/ OidcInterrupted \/ Sigterm
        \/ \E e \in Events : Handler(e) \/ Abandon(e)
        \/ \E p \in Publishers, k \in Keys :
               Sender(p, k) \/ \E i \in DOMAIN queue[p][k] : SendFails(p, k, i)

Spec == Init /\ [][Next]_vars

\* The program runs, and a source that is answered 500 sends the event again.
FairSpec == /\ Spec
            /\ WF_vars(Main)
            /\ \A e \in Events : WF_vars(Handler(e))
            /\ \A p \in Publishers, k \in Keys : WF_vars(Sender(p, k))

-----------------------------------------------------------------------------
(***************************************************************************)
(* Properties                                                              *)
(***************************************************************************)

Log(e) == topic[Topic(e)][KeyOf[e]]

TypeOK == /\ boot \in {"oidc", "backoff", "serving", "stopping", "exited", "fatal"}
          /\ attempt \in 1 .. OidcMaxAttempts
          /\ st \in [Events -> {"new", "401", "queued", "ok", "error", "200", "500"}]
          /\ \A p \in Publishers : \A k \in Keys :
                 ToSet(queue[p][k]) \subseteq [ev : Events, live : BOOLEAN]
          /\ paused \in [Publishers -> SUBSET (Keys \ {NoKey})]
          /\ \A t \in Topics : \A k \in Keys : ToSet(topic[t][k]) \subseteq Events
          /\ faults \in 0 .. MaxFaults
          /\ ToSet(arrived) \subseteq Events
          /\ failed \subseteq Events

\* An event answered 2xx is in the topic of its type, so the source may forget
\* it; one that was refused for its token never is.
AnswerIsTrue == \A e \in Events : /\ st[e] = "200" => e \in ToSet(Log(e))
                                  /\ st[e] = "401" => e \notin ToSet(Log(e))

\* What the broker promises to a sender (Broker): a request is open until forward
\* or the authentication answers it, and what is kept is in the topic of its type.
Answer(e) == IF st[e] \in {"queued", "ok", "error"} THEN "open" ELSE st[e]

B == INSTANCE Broker WITH Admitted <- {e \in Events : Tokens[e] = "verified"},
                          answer   <- [e \in Events |-> Answer(e)],
                          kept     <- {e \in Events : e \in ToSet(Log(e))}

ImplementsBroker == B!Spec

\* "Consumers must tolerate reordering around a publish failure" (forward), and
\* only then: if f is in the topic and e, of the same key, came before f, then
\* e is there before f, unless a request of e has failed.
OrderUnlessFailed ==
    \A i, j \in DOMAIN arrived :
        LET e == arrived[i]
            f == arrived[j]
        IN  /\ i < j
            /\ Topic(e) = Topic(f) /\ KeyOf[e] = KeyOf[f] /\ KeyOf[e] # NoKey
            /\ e \notin failed
            => \A n \in DOMAIN Log(f) :
                   Log(f)[n] = f => \E m \in 1 .. n - 1 : Log(f)[m] = e

\* A key does not stay paused for ever ("this favours liveness"): a source that
\* keeps sending an event gets it accepted, once Pub/Sub answers again, and an
\* ingress that stops comes to an end.
EventuallyAccepted ==
    \A e \in Events : Tokens[e] = "verified" =>
        <>(st[e] = "200" \/ boot \in {"fatal", "exited"})
=============================================================================
