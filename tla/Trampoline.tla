----------------------------- MODULE Trampoline -----------------------------
(***************************************************************************)
(* The four trampolines: each takes the webhooks of one source (GitHub,    *)
(* Linear, Zendesk, or the notifications of a bucket), makes an event of   *)
(* one and sends it to the broker's ingress, again when that fails in      *)
(* passing, before it answers.  A behaviour is that of one webhook.        *)
(*                                                                         *)
(* A source delivers a webhook again that was not answered with success,   *)
(* also when only the answer was lost or late.  The first delivery may     *)
(* still be going on then: Send has no part of the context of the request. *)
(*                                                                         *)
(* Of the broker nothing is known here but what it promises (Broker), of   *)
(* each attempt to send the event: it may keep the event of one that       *)
(* failed, or that nobody waits for any longer, or do so after that.       *)
(***************************************************************************)
EXTENDS Integers, FiniteSets

CONSTANTS Secrets, WebhookID, RequestedOnly, OrgFilter,
          MaxDeliveries,  \* bound: deliveries of the webhook
          MaxRetry,       \* maxRetry
          MaxFaults       \* bound: failures of the ingress, of the network and of the service

G == INSTANCE GitHubWebhook
L == INSTANCE LinearWebhook
Z == INSTANCE ZendeskWebhook

\* The organizations of the filter are named.
ConstantsAssumption == /\ {MaxDeliveries, MaxRetry, MaxFaults} \subseteq Nat
                       /\ G!None \notin OrgFilter

VARIABLES webhook,
          pc, tries,
          waiting,  \* the source waits for the answer of a delivery
          told,     \* the answers that reached it
          age,      \* of a webhook with a time, by the clock of the trampoline
          answer,   \* of the broker to each attempt
          kept,     \* the attempts whose event the broker has
          taken,    \* history: the ages at which it was taken
          retried,  \* history: a Send was tried again, or a webhook delivered again
          faults

vars == <<webhook, pc, tries, waiting, told, age, answer, kept, taken, retried, faults>>

Deliveries == 1 .. MaxDeliveries
Attempts   == Deliveries \X (0 .. MaxRetry)

\* The trampolines are let in by the ingress.
B == INSTANCE Broker WITH Events <- Attempts, Admitted <- Attempts

Ages == {"early", "fresh", "stale"}
\* Those of Linear and Zendesk have a time, mostly; of the others nobody asks it.
Stamped(w) == w.from = "zendesk" \/ (w.from = "linear" /\ w.stamped)

Older == [early |-> Ages, fresh |-> {"fresh", "stale"}, stale |-> {"stale"}]

\* eventTypes, two of them; the body is the description of an object.
Notifications == {[from |-> "bucket", decodes |-> b, eventtype |-> t] :
                      b \in BOOLEAN, t \in {"OBJECT_FINALIZE", "OBJECT_DELETE", "unknown"}}

Webhooks == G!Webhooks \union L!Webhooks \union Z!Webhooks \union Notifications

\* The bucket trampoline takes every notification of a known type with an object.
BucketVerdict(w) == IF w.decodes /\ w.eventtype # "unknown" THEN "send" ELSE "400"

Verdict(w, a) == CASE w.from = "github"  -> G!Verdict(w)
                   [] w.from = "linear"  -> L!Verdict(w, a)
                   [] w.from = "zendesk" -> Z!Verdict(w, a)
                   [] w.from = "bucket"  -> BucketVerdict(w)

\* Mutant: every Send makes an ID.
EventID_PerDelivery(w, d) == d

\* The ID of the delivery of the webhook, or of the event of Zendesk; the client
\* gives an event without one, that of a bucket, an ID of its own.
EventID(w, d) == IF w.from = "bucket" THEN d ELSE 0

\* What the broker has: the ID of the event, and the delivery and attempt it is of.
stored == {<<EventID(webhook, a[1]), a[1], a[2]>> : a \in kept}

Init == /\ webhook \in Webhooks
        /\ pc = [d \in Deliveries |-> "unsent"]
        /\ tries = [d \in Deliveries |-> 0]
        /\ waiting = [d \in Deliveries |-> FALSE]
        /\ told = {}
        /\ age \in IF Stamped(webhook) THEN Ages ELSE {"fresh"}
        /\ B!Init
        /\ taken = {}
        /\ retried = FALSE
        /\ faults = 0

Fault == faults < MaxFaults /\ faults' = faults + 1

\* The answer reaches a source that still waits, unless it is lost.
Reply(d, code) ==
    /\ pc' = [pc EXCEPT ![d] = "over"]
    /\ waiting' = [waiting EXCEPT ![d] = FALSE]
    /\ \/ waiting[d] /\ told' = told \union {code} /\ UNCHANGED faults
       \/ waiting[d] /\ Fault /\ UNCHANGED told
       \/ ~waiting[d] /\ UNCHANGED <<told, faults>>

\* The first delivery, or another one of a webhook that no success is known of.
Deliver(d) ==
    /\ pc[d] = "unsent" /\ \A e \in 1 .. d - 1 : pc[e] # "unsent" /\ ~waiting[e]
    /\ told \intersect {"200", "202"} = {}
    /\ pc' = [pc EXCEPT ![d] = "received"]
    /\ waiting' = [waiting EXCEPT ![d] = TRUE]
    /\ retried' = (d > 1)
    /\ UNCHANGED <<webhook, tries, told, age, answer, kept, taken, faults>>

\* The attempt that is made, or is to be made.
Attempt(d) == <<d, tries[d]>>

\* ServeHTTP up to Send, which makes its first attempt.
Receive(d) ==
    LET v == Verdict(webhook, age)
    IN  /\ pc[d] = "received"
        /\ IF v = "send"
           THEN /\ pc' = [pc EXCEPT ![d] = "sending"]
                /\ taken' = taken \union {age}
                /\ B!Ask(Attempt(d))
                /\ UNCHANGED <<waiting, told, faults>>
           ELSE Reply(d, v) /\ UNCHANGED <<taken, answer, kept>>
        /\ UNCHANGED <<webhook, tries, age, retried>>

MayRetry(d) == tries[d] < MaxRetry

\* Mutant: that Send failed is logged, and no more.
Undelivered_OK == "200"

\* Mutant: the source is told that nobody was there.
Undelivered_Unavailable == "503"

\* The answer when Send has failed.
Undelivered == "500"

\* Send returns, since the broker has answered with success.
Delivered(d) ==
    /\ pc[d] = "sending"
    /\ answer[Attempt(d)] = "200"
    /\ Reply(d, "200")
    /\ UNCHANGED <<webhook, tries, age, answer, kept, taken, retried>>

\* There is an error: the broker says so, or its answer is lost or late.
Error(d) == \/ answer[Attempt(d)] = "500" /\ UNCHANGED faults
            \/ Fault

\* After an error in passing there is another attempt.
Again(d) ==
    /\ pc[d] = "sending"
    /\ Error(d)
    /\ MayRetry(d)
    /\ tries' = [tries EXCEPT ![d] = @ + 1]
    /\ retried' = TRUE
    /\ B!Ask(<<d, tries[d] + 1>>)
    /\ UNCHANGED <<webhook, pc, waiting, told, age, taken>>

\* After the last one, or another error, Send returns it.
Failed(d) ==
    /\ pc[d] = "sending"
    /\ Error(d)
    /\ pc' = [pc EXCEPT ![d] = "over"]
    /\ waiting' = [waiting EXCEPT ![d] = FALSE]
    /\ told' = IF waiting[d] THEN told \union {Undelivered} ELSE told
    /\ UNCHANGED <<webhook, tries, age, answer, kept, taken, retried>>

Send(d) == Delivered(d) \/ Again(d) \/ Failed(d)

\* The source waits no longer; the trampoline goes on.
GiveUp(d) == /\ waiting[d] /\ Fault
             /\ waiting' = [waiting EXCEPT ![d] = FALSE]
             /\ UNCHANGED <<webhook, pc, tries, told, age, answer, kept, taken, retried>>

\* The service goes down: nothing stops it in between, and nothing answers.
Die(d) == /\ pc[d] \in {"received", "sending"} /\ Fault
          /\ pc' = [pc EXCEPT ![d] = "over"]
          /\ waiting' = [waiting EXCEPT ![d] = FALSE]
          /\ UNCHANGED <<webhook, tries, told, age, answer, kept, taken, retried>>

GrowOlder == /\ Stamped(webhook)
             /\ age' \in Older[age] \ {age}
             /\ UNCHANGED <<webhook, pc, tries, waiting, told, answer, kept, taken, retried, faults>>

\* The broker keeps the event of an attempt and answers, or fails.
BrokerServes(a) == /\ B!Keep(a) \/ B!Accept(a)
                   /\ UNCHANGED <<webhook, pc, tries, waiting, told, age, taken, retried, faults>>

BrokerFails(a) == /\ B!Fail(a) /\ Fault
                  /\ UNCHANGED <<webhook, pc, tries, waiting, told, age, taken, retried>>

Step(d) == Deliver(d) \/ Receive(d) \/ Send(d)

Next == \/ \E d \in Deliveries : Step(d) \/ GiveUp(d) \/ Die(d)
        \/ \E a \in Attempts : BrokerServes(a) \/ BrokerFails(a)
        \/ GrowOlder

Spec == Init /\ [][Next]_vars

\* The broker answers an attempt that is waited for; what else it does it may leave.
ServeNow(d) == pc[d] = "sending" /\ answer[Attempt(d)] = "open" /\ BrokerServes(Attempt(d))

\* A handler that runs goes on, and Pub/Sub delivers a notification of a bucket
\* until it is answered with success.
FairSpec == /\ Spec
            /\ \A d \in Deliveries : /\ WF_vars(Receive(d) \/ Send(d))
                                     /\ WF_vars(ServeNow(d))
                                     /\ WF_vars(webhook.from = "bucket" /\ Deliver(d))

-----------------------------------------------------------------------------
(***************************************************************************)
(* Properties                                                              *)
(***************************************************************************)

TypeOK == /\ pc \in [Deliveries -> {"unsent", "received", "sending", "over"}]
          /\ tries \in [Deliveries -> 0 .. MaxRetry]
          /\ waiting \in [Deliveries -> BOOLEAN]
          /\ \A d \in Deliveries : waiting[d] => pc[d] \in {"received", "sending", "over"}
          /\ told \subseteq {"200", "202", "400", "403", "500"}
          /\ age \in Ages
          /\ answer \in [Attempts -> {"new", "open", "200", "500"}]
          /\ kept \subseteq Attempts
          /\ taken \subseteq Ages
          /\ retried \in BOOLEAN
          /\ faults \in 0 .. MaxFaults

\* A source that is told of success has nothing left to do: the broker has the
\* event, whatever became of other attempts and deliveries.
ToldMeansKept == "200" \in told => stored # {}

\* What the broker has was signed with a secret that is one, was recent when it
\* came, however often it comes, and was asked for: of GitHub by the IDs, the
\* requests and the organizations of the configuration, of Zendesk only the
\* tickets; and what a subscriber filters on names one pull request or one issue.
OnlyAskedFor ==
    stored # {} =>
        /\ Stamped(webhook) => "stale" \notin taken
        /\ CASE webhook.from = "github"  -> /\ G!ValidatePayload(webhook) /\ G!AskedFor(webhook)
                                            /\ G!OneSubject(G!Extensions(webhook))
             [] webhook.from = "linear"  -> L!ValidateSignature(webhook)
             [] webhook.from = "zendesk" -> webhook.key \in Secrets \ {"placeholder"} /\ webhook.type = "ticket"
             [] webhook.from = "bucket"  -> webhook.decodes /\ webhook.eventtype # "unknown"

\* A subscriber sees a webhook twice only if something was tried again, and can
\* tell from the ID that it did, unless it is the notification of a bucket that
\* was delivered again.
SameEvent ==
    /\ Cardinality(stored) > 1 => retried
    /\ \A s, t \in stored : \/ s[1] = t[1]
                            \/ webhook.from = "bucket" /\ s[2] # t[2]

\* A notification of a bucket gets to the broker.
Notified == webhook.from = "bucket" /\ BucketVerdict(webhook) = "send"

NothingLost == Notified ~> stored # {}
=============================================================================
