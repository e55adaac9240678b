--------------------------- MODULE WebhooksProofs ---------------------------
(***************************************************************************)
(* Proofs about the trampolines, for any secrets and filters, and any      *)
(* number of deliveries, retries and faults; and about what is left of     *)
(* the body of a Zendesk webhook, for any leaves and any number of them.   *)
(***************************************************************************)
EXTENDS Webhooks, FiniteSetTheorems, TLAPS

Types == TypeOK /\ webhook \in Webhooks

\* What the broker has answered with success it has, and what it has was sent; a
\* source was told of success only then.
Replies == /\ \A a \in Attempts : answer[a] = "200" => a \in kept
           /\ \A a \in kept : answer[a] # "new"
           /\ "200" \in told => kept # {}

\* What is sent was taken, and what was taken at an age passed at that age.
TakenPassed == /\ \A a \in Attempts : answer[a] # "new" => taken # {}
               /\ \A d \in Deliveries : pc[d] = "sending" => taken # {}
               /\ \A a \in taken : Verdict(webhook, a) = "send"

\* An attempt is one that there was, of a delivery that was taken; the first
\* delivery comes first, and if nothing was tried again it is the only one.
Begun == /\ \A d \in Deliveries, n \in 0 .. MaxRetry :
                answer[<<d, n>>] # "new" => pc[d] \in {"sending", "over"} /\ n <= tries[d]
         /\ \A d \in Deliveries : pc[d] \in {"unsent", "received"} => tries[d] = 0
         /\ \A d, e \in Deliveries : e < d /\ pc[e] = "unsent" => pc[d] = "unsent"
         /\ ~retried => \A d \in Deliveries : /\ tries[d] = 0
                                              /\ d > 1 => pc[d] = "unsent"

Inv == Types /\ Replies /\ TakenPassed /\ Begun

-----------------------------------------------------------------------------
(***************************************************************************)
(* What comes from each source, and what is made of it                     *)
(***************************************************************************)

\* GitHub names the actions of a check, and a pull request has a number.
LEMMA FromGitHub ==
    ASSUME NEW w \in G!Webhooks
    PROVE  /\ w.from = "github"
           /\ w.event = "check_run" => w.action \in {"created", "rerequested", "requested_action"}
           /\ w.event = "check_suite" => w.action \in {"completed", "requested", "rerequested"}
           /\ w.event = "pull_request" => w.pull # 0
           /\ w.event = "pull_request_review" => w.pull # 0
<1>1. CASE w \in G!Envelopes
  <2>1. PICK e \in {G!None, "push", "check_run", "check_suite"} : w \in G!EnvelopesOf(e)
    BY <1>1 DEF G!Envelopes
  <2>2. PICK s, a, h, o, p : w = G!Envelope(s, e, a, h, o, p) /\ a \in G!Actions(e)
    BY <2>1 DEF G!EnvelopesOf
  <2>3. w.from = "github" /\ w.event = e /\ w.action = a
    BY <2>2 DEF G!Envelope, G!Plain
  <2>4. QED
    BY <2>2, <2>3 DEF G!Actions, G!None
<1>2. CASE w \in G!Contents
  <2>1. PICK e \in G!PullEvents \union G!CheckEvents \union {"issues", "issue_comment"} :
             w \in G!ContentsOf(e)
    BY <1>2 DEF G!Contents
  <2>2. CASE e \in G!PullEvents
    <3>1. PICK a, m, r : w = G!Pull(e, a, m, r)
      BY <2>1, <2>2 DEF G!ContentsOf, G!PullEvents, G!CheckEvents
    <3>2. w.from = "github" /\ w.event = e /\ w.pull = 2
      BY <3>1 DEF G!Pull, G!Plain
    <3>3. QED
      BY <2>2, <3>2 DEF G!PullEvents
  <2>3. CASE e \in G!CheckEvents
    <3>1. PICK a, p : w = G!Check(e, a, p) /\ a \in G!Actions(e)
      BY <2>1, <2>3 DEF G!ContentsOf, G!PullEvents, G!CheckEvents
    <3>2. w.from = "github" /\ w.event = e /\ w.action = a
      BY <3>1 DEF G!Check, G!Plain
    <3>3. QED
      BY <2>3, <3>1, <3>2 DEF G!CheckEvents, G!Actions
  <2>4. CASE e \in {"issues", "issue_comment"}
    <3>1. PICK p, r : w = G!Issue(e, p, r)
      BY <2>1, <2>4 DEF G!ContentsOf, G!PullEvents, G!CheckEvents
    <3>2. w.from = "github" /\ w.event = e
      BY <3>1 DEF G!Issue, G!Plain
    <3>3. QED
      BY <2>4, <3>2
  <2>5. QED
    BY <2>2, <2>3, <2>4
<1>3. QED
  BY <1>1, <1>2 DEF G!Webhooks

\* What comes from the others says so.
LEMMA FromOthers ==
    /\ \A w \in L!Webhooks : w.from = "linear"
    /\ \A w \in Z!Webhooks : w.from = "zendesk"
    /\ \A w \in Notifications : w.from = "bucket"
<1>1. ASSUME NEW w \in L!Webhooks
      PROVE  w.from = "linear"
  <2>1. \/ \E k, e, r, s : w = L!Envelope(k, e, r, s)
        \/ \E u, t : w = L!Update(u, t)
        \/ \E u, c : w = L!Comment(u, c)
    BY <1>1 DEF L!Webhooks
  <2>2. QED
    BY <2>1 DEF L!Envelope, L!Update, L!Comment, L!Plain
<1>2. ASSUME NEW w \in Z!Webhooks
      PROVE  w.from = "zendesk"
  <2>1. \/ \E b, k, s, r, t : w = Z!Envelope(b, k, s, r, t)
        \/ \E a, t : w = Z!Ticket(a, t)
    BY <1>2 DEF Z!Webhooks
  <2>2. QED
    BY <2>1 DEF Z!Envelope, Z!Ticket, Z!Plain
<1>3. \A w \in Notifications : w.from = "bucket"
  BY DEF Notifications
<1>4. QED
  BY <1>1, <1>2, <1>3

\* A webhook is of one of the four sources.
LEMMA Sources ==
    ASSUME NEW w \in Webhooks
    PROVE  \/ w.from = "github" /\ w \in G!Webhooks
           \/ w.from = "linear"
           \/ w.from = "zendesk"
           \/ w.from = "bucket"
BY FromGitHub, FromOthers DEF Webhooks

\* A webhook is sent on, or answered with something that is not success.
LEMMA VerdictType ==
    ASSUME NEW w \in Webhooks, NEW a
    PROVE  Verdict(w, a) \in {"202", "400", "403", "500", "send"}
BY Sources DEF Verdict, BucketVerdict, G!Verdict, L!Verdict, Z!Verdict

\* What GitHub sends and the trampoline takes is asked for and names one subject.
LEMMA GitHubPassed ==
    ASSUME ConstantsAssumption, NEW w \in G!Webhooks, G!Verdict(w) = "send"
    PROVE  G!ValidatePayload(w) /\ G!AskedFor(w) /\ G!OneSubject(G!Extensions(w))
<1>1. /\ G!ValidatePayload(w) /\ w.event # G!None
      /\ ~(WebhookID # {} /\ w.hook \notin WebhookID)
      /\ ~(w.hook \in RequestedOnly /\ ~G!Requested(w))
      /\ ~(OrgFilter # {} /\ G!Org(w) \notin OrgFilter)
  BY DEF G!Verdict
<1>2. w.event \in G!CheckEvents => w.event \in {"check_run", "check_suite"}
  BY DEF G!CheckEvents
<1>3. w.hook \in RequestedOnly =>
         <<w.event, w.action>> \in {<<"check_run", "requested_action">>, <<"check_run", "rerequested">>,
                                    <<"check_suite", "requested">>, <<"check_suite", "rerequested">>}
  BY <1>1, <1>2, FromGitHub DEF G!Requested, G!Action, G!None
<1>4. OrgFilter # {} => w.payload = "known" /\ w.org \in OrgFilter
  BY <1>1 DEF G!Org, ConstantsAssumption
<1>5. G!AskedFor(w)
  BY <1>1, <1>3, <1>4 DEF G!AskedFor
<1>6. G!OneSubject(G!Extensions(w))
  BY FromGitHub DEF G!OneSubject, G!Extensions, G!PullOf, G!PullEvents, G!CheckEvents
<1>7. QED
  BY <1>1, <1>5, <1>6

\* What the others send and the trampolines take is signed, and of a known kind.
LEMMA OthersPassed ==
    ASSUME NEW w \in Webhooks, NEW a, Verdict(w, a) = "send"
    PROVE  /\ w.from = "github"  => G!Verdict(w) = "send"
           /\ w.from = "linear"  => L!ValidateSignature(w)
           /\ w.from = "zendesk" => w.key \in Secrets \ {"placeholder"} /\ w.type = "ticket"
           /\ w.from = "bucket"  => w.decodes /\ w.eventtype # "unknown"
           /\ Stamped(w) => a # "stale"
BY Sources DEF Verdict, BucketVerdict, L!Verdict, Z!Verdict, Z!ValidateSignature, Z!Usable, Stamped

-----------------------------------------------------------------------------
(***************************************************************************)
(* The steps                                                               *)
(***************************************************************************)

\* Nothing has come in at the start.
LEMMA InitInv == ConstantsAssumption /\ Init => Inv
<1> SUFFICES ASSUME ConstantsAssumption, Init
             PROVE  Inv
  OBVIOUS
<1>1. answer = [a \in Attempts |-> "new"] /\ kept = {}
  BY DEF Init, B!Init
<1>2. Types
  <2>1. age \in Ages
    BY DEF Init, Ages
  <2>2. 0 \in 0 .. MaxRetry /\ 0 \in 0 .. MaxFaults
    BY DEF ConstantsAssumption
  <2>3. /\ pc \in [Deliveries -> {"unsent", "received", "sending", "over"}]
        /\ tries \in [Deliveries -> 0 .. MaxRetry]
        /\ waiting \in [Deliveries -> BOOLEAN] /\ \A d \in Deliveries : ~waiting[d]
    BY <2>2 DEF Init
  <2>4. /\ webhook \in Webhooks /\ told = {} /\ taken = {}
        /\ retried = FALSE /\ faults = 0
    BY DEF Init
  <2>5. QED
    BY <1>1, <2>1, <2>2, <2>3, <2>4 DEF Types, TypeOK
<1>3. Replies /\ TakenPassed
  BY <1>1 DEF Init, Replies, TakenPassed
<1>4. Begun
  BY <1>1 DEF Init, Begun, Attempts
<1>5. QED
  BY <1>2, <1>3, <1>4 DEF Inv

\* The answer leaves the delivery over, and reaches the source or not.
LEMMA ReplyStep ==
    ASSUME ConstantsAssumption, Types, NEW d \in Deliveries, pc[d] # "unsent",
           NEW code \in {"200", "202", "400", "403", "500"}, Reply(d, code)
    PROVE  /\ pc' = [pc EXCEPT ![d] = "over"]
           /\ waiting' \in [Deliveries -> BOOLEAN]
           /\ \A e \in Deliveries : waiting'[e] => pc'[e] \in {"received", "sending", "over"}
           /\ told' \in {told, told \union {code}}
           /\ told' \subseteq {"200", "202", "400", "403", "500"}
           /\ faults' \in 0 .. MaxFaults
<1>1. pc' = [pc EXCEPT ![d] = "over"] /\ waiting' = [waiting EXCEPT ![d] = FALSE]
  BY DEF Reply
<1>2. told' \in {told, told \union {code}} /\ faults' \in 0 .. MaxFaults
  BY DEF Reply, Fault, Types, TypeOK, ConstantsAssumption
<1>3. QED
  BY <1>1, <1>2 DEF Types, TypeOK

\* The verdict on a webhook is the same as long as the webhook is.
LEMMA SameVerdict == UNCHANGED webhook => \A a : Verdict(webhook, a)' = Verdict(webhook, a)
BY DEF Verdict, BucketVerdict

\* A step that makes no attempt, does nothing to the broker, and starts no delivery.
LEMMA QuietInv ==
    ASSUME Inv, Types', UNCHANGED <<webhook, tries, answer, kept, taken, retried>>,
           "200" \in told' => "200" \in told \/ kept # {},
           \A d \in Deliveries : /\ pc'[d] = "unsent" <=> pc[d] = "unsent"
                                 /\ pc'[d] = "sending" => pc[d] = "sending"
                                 /\ pc[d] \in {"sending", "over"} => pc'[d] \in {"sending", "over"}
    PROVE  Inv'
<1>1. Types /\ Replies /\ TakenPassed /\ Begun
  BY DEF Inv
<1>2. \A d \in Deliveries : pc'[d] \in {"unsent", "received"} => pc[d] \in {"unsent", "received"}
  BY <1>1 DEF Types, TypeOK
<1>3. Replies'
  BY <1>1 DEF Replies
<1>4. TakenPassed'
  BY <1>1, SameVerdict DEF TakenPassed
<1>5. Begun'
  <2>1. \A d \in Deliveries, n \in 0 .. MaxRetry :
            answer[<<d, n>>] # "new" => pc'[d] \in {"sending", "over"} /\ n <= tries[d]
    BY <1>1 DEF Begun
  <2>2. \A d \in Deliveries : pc'[d] \in {"unsent", "received"} => tries[d] = 0
    BY <1>1, <1>2 DEF Begun
  <2>3. \A d, e \in Deliveries : e < d /\ pc'[e] = "unsent" => pc'[d] = "unsent"
    BY <1>1 DEF Begun
  <2>4. ~retried => \A d \in Deliveries : tries[d] = 0 /\ (d > 1 => pc'[d] = "unsent")
    BY <1>1 DEF Begun
  <2>5. QED
    BY <2>1, <2>2, <2>3, <2>4 DEF Begun
<1>6. QED
  BY <1>3, <1>4, <1>5 DEF Inv

\* A step that makes attempt n of a delivery.
LEMMA AskInv ==
    ASSUME Inv, Types', NEW d \in Deliveries, NEW n \in 0 .. MaxRetry,
           UNCHANGED <<webhook, told>>, B!Ask(<<d, n>>),
           taken' # {}, \A a \in taken' : Verdict(webhook, a) = "send",
           pc[d] # "unsent", pc' = [pc EXCEPT ![d] = "sending"],
           n <= tries'[d], \A e \in Deliveries : tries'[e] >= tries[e] /\ (e # d => tries'[e] = tries[e]),
           retried' \/ (~retried /\ UNCHANGED tries)
    PROVE  Inv'
<1>1. Types /\ Replies /\ TakenPassed /\ Begun
  BY DEF Inv
<1>2. /\ kept' = kept /\ kept \subseteq Attempts
      /\ \A a \in Attempts : answer'[a] = IF a = <<d, n>> THEN "open" ELSE answer[a]
  BY <1>1 DEF B!Ask, Types, TypeOK
<1>3. \A e \in Deliveries : pc'[e] = IF e = d THEN "sending" ELSE pc[e]
  BY <1>1 DEF Types, TypeOK
<1>4. Replies'
  BY <1>1, <1>2 DEF Replies
<1>5. TakenPassed'
  BY SameVerdict DEF TakenPassed
<1>6. Begun'
  <2>1. ASSUME NEW e \in Deliveries, NEW m \in 0 .. MaxRetry, answer'[<<e, m>>] # "new"
        PROVE  pc'[e] \in {"sending", "over"} /\ m <= tries'[e]
    <3>1. CASE e = d /\ m = n
      BY <1>3, <3>1
    <3>2. CASE ~(e = d /\ m = n)
      <4>1. <<e, m>> \in Attempts /\ <<e, m>> # <<d, n>>
        BY <3>2 DEF Attempts
      <4>2. answer[<<e, m>>] # "new"
        BY <1>2, <2>1, <4>1
      <4>3. pc[e] \in {"sending", "over"} /\ m <= tries[e]
        BY <1>1, <4>2 DEF Begun
      <4>4. tries[e] \in Int /\ tries'[e] \in Int
        BY <1>1 DEF Types, TypeOK
      <4>5. QED
        BY <1>3, <4>3, <4>4
    <3>3. QED
      BY <3>1, <3>2
  <2>2. \A e \in Deliveries : pc'[e] \in {"unsent", "received"} => tries'[e] = 0
    BY <1>1, <1>3 DEF Begun
  <2>3. \A e, f \in Deliveries : f < e /\ pc'[f] = "unsent" => pc'[e] = "unsent"
    BY <1>1, <1>3 DEF Begun
  <2>4. ~retried' => \A e \in Deliveries : tries'[e] = 0 /\ (e > 1 => pc'[e] = "unsent")
    BY <1>1, <1>3 DEF Begun
  <2>5. QED
    BY <2>1, <2>2, <2>3, <2>4 DEF Begun, Deliveries
<1>7. QED
  BY <1>4, <1>5, <1>6 DEF Inv

\* A delivery starts: the first one, or one more that makes it a retry.
LEMMA DeliverInv ==
    ASSUME ConstantsAssumption, Inv, NEW d \in Deliveries, Deliver(d)
    PROVE  Inv'
<1>1. /\ pc[d] = "unsent" /\ \A e \in 1 .. d - 1 : pc[e] # "unsent"
      /\ pc' = [pc EXCEPT ![d] = "received"]
      /\ waiting' = [waiting EXCEPT ![d] = TRUE]
      /\ retried' = (d > 1)
      /\ UNCHANGED <<webhook, tries, told, age, answer, kept, taken, faults>>
  BY DEF Deliver
<1>2. Types /\ Replies /\ TakenPassed /\ Begun
  BY DEF Inv
<1>3. Types'
  BY <1>1, <1>2 DEF Types, TypeOK, Deliveries
<1>4. Replies'
  BY <1>1, <1>2 DEF Replies
<1>5. TakenPassed'
  BY <1>1, <1>2, SameVerdict DEF TakenPassed
<1>6. Begun'
  <2>1. \A e \in Deliveries : pc'[e] = IF e = d THEN "received" ELSE pc[e]
    BY <1>1, <1>2 DEF Types, TypeOK
  <2>2. \A e \in Deliveries, n \in 0 .. MaxRetry :
            answer[<<e, n>>] # "new" => pc'[e] \in {"sending", "over"} /\ n <= tries[e]
    BY <1>1, <1>2, <2>1 DEF Begun
  <2>3. \A e \in Deliveries : pc'[e] \in {"unsent", "received"} => tries[e] = 0
    BY <1>1, <1>2, <2>1 DEF Begun
  <2>4. \A e \in Deliveries : e < d => pc[e] # "unsent"
    BY <1>1 DEF Deliveries
  <2>5. \A e, f \in Deliveries : f < e /\ pc'[f] = "unsent" => pc'[e] = "unsent"
    BY <1>2, <2>1, <2>4 DEF Begun
  <2>6. ASSUME d = 1, NEW e \in Deliveries
        PROVE  tries[e] = 0 /\ (e > 1 => pc'[e] = "unsent")
    <3>1. e = 1 \/ 1 < e
      BY DEF Deliveries
    <3>2. pc[e] = "unsent"
      BY <1>1, <1>2, <2>6, <3>1 DEF Begun
    <3>3. QED
      BY <1>2, <2>1, <2>6, <3>2 DEF Begun
  <2>7. d = 1 \/ d > 1
    BY DEF Deliveries
  <2>8. QED
    BY <1>1, <2>2, <2>3, <2>5, <2>6, <2>7 DEF Begun, Deliveries
<1>7. QED
  BY <1>3, <1>4, <1>5, <1>6 DEF Inv

\* ServeHTTP takes the webhook, at the age it has, or answers without success.
LEMMA ReceiveInv ==
    ASSUME ConstantsAssumption, Inv, NEW d \in Deliveries, Receive(d)
    PROVE  Inv'
<1> DEFINE v == Verdict(webhook, age)
<1>1. Types /\ TakenPassed /\ Begun
  BY DEF Inv
<1>2. /\ pc[d] = "received"
      /\ UNCHANGED <<webhook, tries, age, retried>>
      /\ IF v = "send" THEN /\ pc' = [pc EXCEPT ![d] = "sending"]
                            /\ taken' = taken \union {age}
                            /\ B!Ask(Attempt(d))
                            /\ UNCHANGED <<waiting, told, faults>>
                       ELSE Reply(d, v) /\ UNCHANGED <<taken, answer, kept>>
  BY DEF Receive
<1>3. v \in {"202", "400", "403", "500", "send"}
  BY <1>1, VerdictType DEF Types
<1>4. CASE v = "send"
  <2>1. tries[d] = 0 /\ 0 \in 0 .. MaxRetry
    BY <1>1, <1>2 DEF Begun, ConstantsAssumption
  <2>2. B!Ask(<<d, 0>>)
    BY <1>2, <1>4, <2>1 DEF Attempt
  <2>3. Types'
    BY <1>1, <1>2, <1>4, <2>2 DEF B!Ask, Types, TypeOK
  <2>4. taken' # {} /\ \A a \in taken' : Verdict(webhook, a) = "send"
    BY <1>1, <1>2, <1>4 DEF TakenPassed, v
  <2>5. /\ 0 <= tries'[d] /\ pc[d] # "unsent"
        /\ \A e \in Deliveries : tries'[e] >= tries[e] /\ (e # d => tries'[e] = tries[e])
    BY <1>1, <1>2, <2>1 DEF Types, TypeOK
  <2>6. retried' \/ (~retried /\ UNCHANGED tries)
    BY <1>2
  <2> HIDE DEF v
  <2>7. QED
    BY <1>2, <1>4, <2>1, <2>2, <2>3, <2>4, <2>5, <2>6, AskInv
<1>5. CASE v # "send"
  <2> HIDE DEF v
  <2>1. /\ pc' = [pc EXCEPT ![d] = "over"]
        /\ waiting' \in [Deliveries -> BOOLEAN]
        /\ \A e \in Deliveries : waiting'[e] => pc'[e] \in {"received", "sending", "over"}
        /\ told' \in {told, told \union {v}} /\ told' \subseteq {"200", "202", "400", "403", "500"}
        /\ faults' \in 0 .. MaxFaults
    BY <1>1, <1>2, <1>3, <1>5, ReplyStep
  <2>2. Types'
    BY <1>1, <1>2, <1>5, <2>1 DEF Types, TypeOK
  <2>3. \A e \in Deliveries : /\ pc'[e] = "unsent" <=> pc[e] = "unsent"
                              /\ pc'[e] = "sending" => pc[e] = "sending"
                              /\ pc[e] \in {"sending", "over"} => pc'[e] \in {"sending", "over"}
    BY <1>1, <1>2, <2>1 DEF Types, TypeOK
  <2>4. "200" \in told' => "200" \in told
    BY <1>3, <1>5, <2>1
  <2>5. QED
    BY <1>2, <1>5, <2>2, <2>3, <2>4, QuietInv
<1>6. QED
  BY <1>4, <1>5

\* Send is answered with success, and so is the source.
LEMMA DeliveredInv ==
    ASSUME ConstantsAssumption, Inv, NEW d \in Deliveries, Delivered(d)
    PROVE  Inv'
<1>1. Types /\ Replies
  BY DEF Inv
<1>2. /\ pc[d] = "sending" /\ answer[Attempt(d)] = "200" /\ Reply(d, "200")
      /\ UNCHANGED <<webhook, tries, age, answer, kept, taken, retried>>
  BY DEF Delivered
<1>3. Attempt(d) \in Attempts
  BY <1>1 DEF Attempt, Attempts, Types, TypeOK
<1>4. kept # {}
  BY <1>1, <1>2, <1>3 DEF Replies
<1>5. /\ pc' = [pc EXCEPT ![d] = "over"]
      /\ waiting' \in [Deliveries -> BOOLEAN]
      /\ \A e \in Deliveries : waiting'[e] => pc'[e] \in {"received", "sending", "over"}
      /\ told' \subseteq {"200", "202", "400", "403", "500"}
      /\ faults' \in 0 .. MaxFaults
  BY <1>1, <1>2, ReplyStep
<1>6. Types'
  BY <1>1, <1>2, <1>5 DEF Types, TypeOK
<1>7. \A e \in Deliveries : /\ pc'[e] = "unsent" <=> pc[e] = "unsent"
                            /\ pc'[e] = "sending" => pc[e] = "sending"
                            /\ pc[e] \in {"sending", "over"} => pc'[e] \in {"sending", "over"}
  BY <1>1, <1>2, <1>5 DEF Types, TypeOK
<1>8. QED
  BY <1>2, <1>4, <1>6, <1>7, QuietInv

\* An error is one more fault, or none.
LEMMA ErrorStep ==
    ASSUME ConstantsAssumption, Types, NEW d \in Deliveries, Error(d)
    PROVE  faults' \in 0 .. MaxFaults
BY DEF Error, Fault, Types, TypeOK, ConstantsAssumption

\* An attempt that there is left follows one that failed.
LEMMA AgainInv ==
    ASSUME ConstantsAssumption, Inv, NEW d \in Deliveries, Again(d)
    PROVE  Inv'
<1>1. Types /\ TakenPassed /\ Begun
  BY DEF Inv
<1>2. /\ pc[d] = "sending" /\ tries[d] < MaxRetry /\ tries' = [tries EXCEPT ![d] = @ + 1]
      /\ retried' = TRUE /\ B!Ask(<<d, tries[d] + 1>>) /\ faults' \in 0 .. MaxFaults
      /\ UNCHANGED <<webhook, pc, waiting, told, age, taken>>
  BY <1>1, ErrorStep DEF Again, MayRetry
<1>3. PICK n \in 0 .. MaxRetry : n = tries[d] + 1
  BY <1>1, <1>2 DEF Types, TypeOK, ConstantsAssumption
<1>4. tries' = [tries EXCEPT ![d] = n] /\ B!Ask(<<d, n>>)
  BY <1>1, <1>2, <1>3 DEF Types, TypeOK
<1>5. Types'
  BY <1>1, <1>2, <1>4 DEF B!Ask, Types, TypeOK
<1>6. /\ n <= tries'[d] /\ pc[d] # "unsent" /\ pc' = [pc EXCEPT ![d] = "sending"]
      /\ \A e \in Deliveries : tries'[e] >= tries[e] /\ (e # d => tries'[e] = tries[e])
  BY <1>1, <1>2, <1>3, <1>4 DEF Types, TypeOK
<1>7. taken' # {} /\ \A a \in taken' : Verdict(webhook, a) = "send"
  BY <1>1, <1>2 DEF TakenPassed, Types
<1>8. QED
  BY <1>2, <1>4, <1>5, <1>6, <1>7, AskInv

\* Send has failed, and the source is told so.
LEMMA FailedInv ==
    ASSUME ConstantsAssumption, Inv, NEW d \in Deliveries, Failed(d)
    PROVE  Inv'
<1>1. Types
  BY DEF Inv
<1>2. /\ pc[d] = "sending" /\ pc' = [pc EXCEPT ![d] = "over"]
      /\ waiting' = [waiting EXCEPT ![d] = FALSE]
      /\ told' \in {told, told \union {"500"}} /\ faults' \in 0 .. MaxFaults
      /\ UNCHANGED <<webhook, tries, age, answer, kept, taken, retried>>
  BY <1>1, ErrorStep DEF Failed, Undelivered
<1>3. Types'
  BY <1>1, <1>2 DEF Types, TypeOK
<1>4. \A e \in Deliveries : /\ pc'[e] = "unsent" <=> pc[e] = "unsent"
                            /\ pc'[e] = "sending" => pc[e] = "sending"
                            /\ pc[e] \in {"sending", "over"} => pc'[e] \in {"sending", "over"}
  BY <1>1, <1>2 DEF Types, TypeOK
<1>5. QED
  BY <1>2, <1>3, <1>4, QuietInv

\* The source gives up, the service goes down, time passes: what was sent and
\* told stays.
LEMMA OutsideInv ==
    ASSUME ConstantsAssumption, Inv,
           GrowOlder \/ UNCHANGED vars \/ \E d \in Deliveries : GiveUp(d) \/ Die(d)
    PROVE  Inv'
<1>1. Types
  BY DEF Inv
<1>2. UNCHANGED <<webhook, tries, told, answer, kept, taken, retried>>
  BY DEF GrowOlder, GiveUp, Die, vars
<1>3. \A e \in Deliveries : /\ pc'[e] = "unsent" <=> pc[e] = "unsent"
                            /\ pc'[e] = "sending" => pc[e] = "sending"
                            /\ pc[e] \in {"sending", "over"} => pc'[e] \in {"sending", "over"}
  BY <1>1 DEF Types, TypeOK, GrowOlder, GiveUp, Die, vars
<1>4. Types'
  <2>1. CASE GrowOlder
    BY <1>1, <2>1 DEF Types, TypeOK, GrowOlder, Older, Ages
  <2>2. CASE UNCHANGED vars
    BY <1>1, <2>2 DEF Types, TypeOK, vars
  <2>3. CASE \E d \in Deliveries : GiveUp(d)
    BY <1>1, <2>3 DEF Types, TypeOK, GiveUp, Fault, ConstantsAssumption, Deliveries
  <2>4. CASE \E d \in Deliveries : Die(d)
    BY <1>1, <2>4 DEF Types, TypeOK, Die, Fault, ConstantsAssumption, Deliveries
  <2>5. QED
    BY <2>1, <2>2, <2>3, <2>4
<1>5. QED
  BY <1>2, <1>3, <1>4, QuietInv

\* The broker keeps what was sent, and answers with success what it has.
LEMMA BrokerInv ==
    ASSUME ConstantsAssumption, Inv, NEW a \in Attempts, BrokerServes(a) \/ BrokerFails(a)
    PROVE  Inv'
<1>1. Types /\ Replies /\ TakenPassed /\ Begun
  BY DEF Inv
<1>2. /\ UNCHANGED <<webhook, pc, tries, waiting, told, age, taken, retried>>
      /\ faults' \in 0 .. MaxFaults
  BY <1>1 DEF BrokerServes, BrokerFails, Fault, Types, TypeOK, ConstantsAssumption
<1>3. \/ answer[a] # "new" /\ kept' = kept \union {a} /\ answer' = answer
      \/ answer[a] = "open" /\ a \in kept /\ answer' = [answer EXCEPT ![a] = "200"] /\ kept' = kept
      \/ answer[a] = "open" /\ answer' = [answer EXCEPT ![a] = "500"] /\ kept' = kept
  BY DEF BrokerServes, BrokerFails, B!Keep, B!Accept, B!Fail
<1>4. /\ \A b \in Attempts : answer'[b] # "new" => answer[b] # "new"
      /\ kept \subseteq kept' /\ kept' \subseteq Attempts
      /\ \A b \in kept' : answer'[b] # "new"
      /\ \A b \in Attempts : answer'[b] = "200" => b \in kept'
      /\ answer' \in [Attempts -> {"new", "open", "200", "500"}]
  BY <1>1, <1>3 DEF Types, TypeOK, Replies
<1>5. Types'
  BY <1>1, <1>2, <1>4 DEF Types, TypeOK
<1>6. Replies'
  BY <1>1, <1>2, <1>4 DEF Replies
<1>7. TakenPassed'
  BY <1>1, <1>2, <1>4, SameVerdict DEF TakenPassed
<1>8. Begun'
  <2>1. \A d \in Deliveries, n \in 0 .. MaxRetry :
            answer'[<<d, n>>] # "new" => pc[d] \in {"sending", "over"} /\ n <= tries[d]
    BY <1>1, <1>4 DEF Begun, Attempts
  <2>2. QED
    BY <1>1, <1>2, <2>1 DEF Begun
<1>9. QED
  BY <1>5, <1>6, <1>7, <1>8 DEF Inv

\* Every step keeps the invariant.
LEMMA NextInv == ConstantsAssumption /\ Inv /\ [Next]_vars => Inv'
BY DeliverInv, ReceiveInv, DeliveredInv, AgainInv, FailedInv, OutsideInv, BrokerInv DEF Next, Step, Send

-----------------------------------------------------------------------------
\* What the trampoline and the source keep of each delivery.
THEOREM TrampolineTypes == ASSUME ConstantsAssumption PROVE Spec => []TypeOK
<1>1. Inv => TypeOK
  BY DEF Inv, Types
<1>2. QED
  BY InitInv, NextInv, <1>1, PTL DEF Spec

\* "200" is said of what the broker has, whatever fails, is lost, comes again or
\* goes down meanwhile (ServeHTTP of the four trampolines).
THEOREM ToldIsKept == ASSUME ConstantsAssumption PROVE Spec => []ToldMeansKept
<1>1. Inv => ToldMeansKept
  BY DEF Inv, Replies, ToldMeansKept, stored
<1>2. QED
  BY InitInv, NextInv, <1>1, PTL DEF Spec

\* Nothing reaches the broker that is not signed, recent, and of what the
\* configuration asks for, whatever the secrets and the filters are.
THEOREM NothingElseIsSent == ASSUME ConstantsAssumption PROVE Spec => []OnlyAskedFor
<1>1. ASSUME Inv
      PROVE  OnlyAskedFor
  <2>1. SUFFICES ASSUME stored # {}
                 PROVE  /\ Stamped(webhook) => "stale" \notin taken
                        /\ CASE webhook.from = "github"  -> /\ G!ValidatePayload(webhook) /\ G!AskedFor(webhook)
                                                            /\ G!OneSubject(G!Extensions(webhook))
                             [] webhook.from = "linear"  -> L!ValidateSignature(webhook)
                             [] webhook.from = "zendesk" -> /\ webhook.key \in Secrets \ {"placeholder"}
                                                            /\ webhook.type = "ticket"
                             [] webhook.from = "bucket"  -> webhook.decodes /\ webhook.eventtype # "unknown"
    BY DEF OnlyAskedFor
  <2>2. webhook \in Webhooks /\ \A b \in taken : Verdict(webhook, b) = "send"
    BY <1>1 DEF Inv, Types, TakenPassed
  <2>3. PICK a \in taken : Verdict(webhook, a) = "send"
    BY <1>1, <2>1 DEF Inv, Types, TypeOK, Replies, TakenPassed, stored
  <2>4. Stamped(webhook) => "stale" \notin taken
    BY <2>2, OthersPassed
  <2>5. CASE webhook.from = "github"
    <3>1. webhook \in G!Webhooks /\ G!Verdict(webhook) = "send"
      BY <2>2, <2>3, <2>5, Sources, OthersPassed
    <3>2. QED
      BY <2>4, <2>5, <3>1, GitHubPassed
  <2>6. CASE webhook.from # "github"
    BY <2>2, <2>3, <2>4, <2>6, Sources, OthersPassed
  <2>7. QED
    BY <2>5, <2>6
<1>2. QED
  BY InitInv, NextInv, <1>1, PTL DEF Spec

\* The broker has a second copy of a webhook only after something was tried
\* again, and the copies have one ID, unless a bucket's delivery came again.
THEOREM CopiesAreTheSame == ASSUME ConstantsAssumption PROVE Spec => []SameEvent
<1>1. ASSUME Inv
      PROVE  SameEvent
  <2>1. \A s \in stored : s[1] = EventID(webhook, s[2])
    BY DEF stored
  <2>2. \A s, t \in stored : s[1] = t[1] \/ (webhook.from = "bucket" /\ s[2] # t[2])
    BY <2>1 DEF EventID
  <2>3. ASSUME ~retried
        PROVE  ~(Cardinality(stored) > 1)
    <3> DEFINE only == <<EventID(webhook, 1), 1, 0>>
    <3>1. \A d \in Deliveries, n \in 0 .. MaxRetry : <<d, n>> \in kept => d = 1 /\ n = 0
      <4>1. SUFFICES ASSUME NEW d \in Deliveries, NEW n \in 0 .. MaxRetry, <<d, n>> \in kept
                     PROVE  d = 1 /\ n = 0
        OBVIOUS
      <4>2. pc[d] # "unsent" /\ n <= tries[d]
        BY <1>1, <4>1 DEF Inv, Replies, Begun
      <4>3. tries[d] = 0 /\ ~(d > 1)
        BY <1>1, <2>3, <4>2 DEF Inv, Begun
      <4>4. QED
        BY <4>2, <4>3 DEF Deliveries
    <3>2. stored \subseteq {only}
      BY <1>1, <3>1 DEF Inv, Types, TypeOK, Attempts, stored
    <3> HIDE DEF only
    <3>3. Cardinality(stored) <= Cardinality({only}) /\ Cardinality({only}) = 1 /\ Cardinality(stored) \in Nat
      BY <3>2, FS_Singleton, FS_Subset, FS_CardinalityType
    <3>4. QED
      BY <3>3
  <2>4. QED
    BY <2>2, <2>3 DEF SameEvent
<1>2. QED
  BY InitInv, NextInv, <1>1, PTL DEF Spec

\* What the broker takes a request for, the first of an event, is what is sent next:
\* by ServeHTTP when it comes to Send, and by Send when it tries again.
NothingInTheWay ==
    \A d \in Deliveries :
        /\ pc[d] = "received" => answer[Attempt(d)] = "new"
        /\ pc[d] = "sending" /\ MayRetry(d) => answer[<<d, tries[d] + 1>>] = "new"

\* The trampolines leave the broker to itself: what happens to it is what it does,
\* and that attempts are made (Send), so that what is shown of it holds here.  And
\* the broker leaves the trampolines to themselves: no delivery and no retry has
\* to wait for what it demands of a request.
THEOREM BrokerIsOneHere ==
    ASSUME ConstantsAssumption
    PROVE  Spec => B!Spec /\ []NothingInTheWay
<1>1. Init => B!Init
  BY DEF Init
<1>2. ConstantsAssumption /\ Inv /\ [Next]_vars => [B!Next]_<<answer, kept>>
  <2> SUFFICES ASSUME ConstantsAssumption, Inv, [Next]_vars
               PROVE  [B!Next]_<<answer, kept>>
    OBVIOUS
  <2>1. ASSUME NEW d \in Deliveries, Receive(d) \/ Again(d)
        PROVE  [B!Next]_<<answer, kept>>
    <3>1. tries[d] \in 0 .. MaxRetry /\ MaxRetry \in Nat
      BY DEF Inv, Types, TypeOK, ConstantsAssumption
    <3>2. Again(d) => <<d, tries[d] + 1>> \in Attempts /\ B!Ask(<<d, tries[d] + 1>>)
      BY <3>1 DEF Again, MayRetry, Attempts
    <3>3. Receive(d) => /\ Attempt(d) \in Attempts
                        /\ B!Ask(Attempt(d)) \/ UNCHANGED <<answer, kept>>
      BY <3>1 DEF Receive, Attempt, Attempts
    <3>4. QED
      BY <2>1, <3>2, <3>3 DEF B!Next
  <2>2. ASSUME NEW a \in Attempts, BrokerServes(a) \/ BrokerFails(a)
        PROVE  [B!Next]_<<answer, kept>>
    BY <2>2 DEF BrokerServes, BrokerFails, B!Next
  <2>3. CASE GrowOlder \/ UNCHANGED vars \/ \E d \in Deliveries : \/ Deliver(d) \/ GiveUp(d) \/ Die(d)
                                                                  \/ Delivered(d) \/ Failed(d)
    BY <2>3 DEF GrowOlder, vars, Deliver, GiveUp, Die, Delivered, Failed
  <2>4. QED
    BY <2>1, <2>2, <2>3 DEF Next, Step, Send
<1>3. Inv => NothingInTheWay
  <2> SUFFICES ASSUME Inv, NEW d \in Deliveries
               PROVE  /\ pc[d] = "received" => answer[Attempt(d)] = "new"
                      /\ pc[d] = "sending" /\ MayRetry(d) => answer[<<d, tries[d] + 1>>] = "new"
    BY DEF NothingInTheWay
  <2>1. MaxRetry \in Nat /\ tries[d] \in 0 .. MaxRetry
    BY DEF ConstantsAssumption, Inv, Types, TypeOK
  <2>2. /\ MayRetry(d) => tries[d] + 1 \in 0 .. MaxRetry
        /\ ~(tries[d] + 1 <= tries[d])
    BY <2>1 DEF MayRetry
  <2>3. /\ pc[d] = "received" => answer[Attempt(d)] = "new"
        /\ MayRetry(d) => answer[<<d, tries[d] + 1>>] = "new"
    BY <2>1, <2>2 DEF Inv, Begun, Attempt
  <2>4. QED
    BY <2>3
<1>4. QED
  BY <1>1, <1>2, <1>3, InitInv, NextInv, PTL DEF Spec, B!Spec

-----------------------------------------------------------------------------
(***************************************************************************)
(* What is left of a body                                                  *)
(***************************************************************************)

ABody == Len(body) <= MaxLeaves /\ body \in [1 .. Len(body) -> Leaves]

\* Of what is kept, people have written nothing.
LEMMA KeptWords ==
    ASSUME R!ConstantsAssumption, NEW l \in Leaves, NEW drop \in BOOLEAN, R!Kept(l, drop)
    PROVE  R!Tokens(l) \in Seq(R!Words \union {"key", "value"})
<1> DEFINE W == R!Words \union {"key", "value"}
<1>1. l.name \in Seq(R!Words) /\ (l.allowed => l.text \in Seq(R!Words))
      /\ l.text \in Seq(R!Words \union {"prose"})
  BY DEF R!ConstantsAssumption
<1>2. l.kind = "string" => l.text \in Seq(R!Words)
  BY <1>1 DEF R!Kept
<1>3. \A s \in Seq(R!Words) : s \in Seq(W)
  OBVIOUS
<1>4. <<>> \in Seq(W) /\ <<"value">> \in Seq(W)
  OBVIOUS
<1>5. \A s \in Seq(W) : Append(s, "key") \in Seq(W) /\ Append(s, "value") \in Seq(W)
  OBVIOUS
<1>6. \A s, t \in Seq(W) : s \o t \in Seq(W)
  OBVIOUS
<1>7. R!KeyOf(l) \in Seq(W)
  BY <1>1, <1>3, <1>4, <1>5 DEF R!KeyOf
<1>8. (IF l.kind = "string" THEN Append(l.text, "value") ELSE <<"value">>) \in Seq(W)
  BY <1>2, <1>3, <1>4, <1>5
<1> HIDE DEF W
<1>9. R!Tokens(l) \in Seq(W)
  BY <1>6, <1>7, <1>8 DEF R!Tokens
<1>10. QED
  BY <1>9 DEF W

\* Neither in the text that encodes it.
LEMMA WalkWords ==
    ASSUME R!ConstantsAssumption, ABody, NEW drop \in BOOLEAN
    PROVE  \A s \in DOMAIN R!Walk(body, drop) : R!Walk(body, drop)[s] # "prose"
<1> DEFINE left  == {i \in DOMAIN body : R!Kept(body[i], drop)}
           spots == UNION {{i} \X DOMAIN R!Tokens(body[i]) : i \in left}
<1>1. R!Walk(body, drop) = [s \in spots |-> R!Tokens(body[s[1]])[s[2]]]
  BY DEF R!Walk
<1>2. SUFFICES ASSUME NEW s \in spots PROVE R!Tokens(body[s[1]])[s[2]] # "prose"
  BY <1>1
<1>3. PICK i \in left : s \in {i} \X DOMAIN R!Tokens(body[i])
  OBVIOUS
<1>4. s[1] = i /\ s[2] \in DOMAIN R!Tokens(body[i]) /\ body[i] \in Leaves /\ R!Kept(body[i], drop)
  BY <1>3 DEF ABody
<1>5. R!Tokens(body[i]) \in Seq(R!Words \union {"key", "value"})
  BY <1>4, KeptWords
<1>6. R!Tokens(body[i])[s[2]] \in R!Words \union {"key", "value"}
  BY <1>4, <1>5
<1>7. QED
  BY <1>4, <1>6 DEF R!Words, R!Patterns

\* The spots that a leaf of those that are kept has in the text.
LEMMA WalkEnds ==
    ASSUME R!ConstantsAssumption, ABody, NEW drop \in BOOLEAN,
           NEW i \in DOMAIN body, R!Kept(body[i], drop)
    PROVE  <<i, Len(R!Tokens(body[i]))>> \in DOMAIN R!Walk(body, drop)
<1> DEFINE left  == {j \in DOMAIN body : R!Kept(body[j], drop)}
           spots == UNION {{j} \X DOMAIN R!Tokens(body[j]) : j \in left}
<1>1. DOMAIN R!Walk(body, drop) = spots
  BY DEF R!Walk
<1>2. Len(R!Tokens(body[i])) \in DOMAIN R!Tokens(body[i])
  <2> DEFINE l == body[i]
             last == IF l.kind = "string" THEN Append(l.text, "value") ELSE <<"value">>
  <2>1. l \in Leaves
    BY DEF ABody
  <2>2. l.name \in Seq(R!Words) /\ l.text \in Seq(R!Words \union {"prose"})
    BY <2>1 DEF R!ConstantsAssumption
  <2>3. last \in Seq(R!Words \union {"prose", "value"}) /\ Len(last) >= 1
    <3>1. CASE l.kind = "string"
      <4>1. last = Append(l.text, "value")
        BY <3>1
      <4>2. l.text \in Seq(R!Words \union {"prose", "value"}) /\ Len(l.text) \in Nat
        BY <2>2
      <4> HIDE DEF last
      <4>3. QED
        BY <4>1, <4>2
    <3>2. CASE l.kind # "string"
      <4>1. last = <<"value">>
        BY <3>2
      <4> HIDE DEF last
      <4>2. QED
        BY <4>1
    <3>3. QED
      BY <3>1, <3>2
  <2>4. R!KeyOf(l) \in Seq(R!Words \union {"key"})
    BY <2>2 DEF R!KeyOf
  <2>5. R!Tokens(l) = R!KeyOf(l) \o last
    BY DEF R!Tokens
  <2> HIDE DEF last, l
  <2>6. R!KeyOf(l) \in Seq(R!Words \union {"prose", "value", "key"})
        /\ last \in Seq(R!Words \union {"prose", "value", "key"})
    BY <2>3, <2>4
  <2>7. R!Tokens(l) \in Seq(R!Words \union {"prose", "value", "key"}) /\ Len(R!Tokens(l)) >= 1
    BY <2>3, <2>5, <2>6
  <2>8. QED
    BY <2>7 DEF l
<1>3. QED
  BY <1>1, <1>2

\* The patterns leave nothing they know, and no private key.
LEMMA Scanned ==
    ASSUME NEW text, \A s \in DOMAIN text : text[s] # "prose"
    PROVE  LET out == R!Scan(body, text).text
           IN  /\ \A s \in DOMAIN out : out[s] \notin {"prose"} \union R!Patterns
               /\ \A s, t \in DOMAIN out : out[s] = "begin" /\ out[t] = "end" => ~R!Before(s, t)
<1> DEFINE Spots(t)    == {s \in DOMAIN text : text[s] = t}
           Ended(s, t) == \E e \in Spots("end") : R!Before(s, e) /\ R!Before(e, t)
           begins      == {s \in Spots("begin") : \E e \in Spots("end") : R!Before(s, e)}
           left        == {s \in DOMAIN text : \A k \in begins : R!Before(k, s) => Ended(k, s)}
           Mask(s)     == IF text[s] \in R!Patterns \/ s \in begins THEN "mask" ELSE text[s]
           out         == R!Scan(body, text).text
<1>1. out = [s \in left |-> Mask(s)]
  BY DEF R!Scan
<1>2. ASSUME NEW s \in DOMAIN out
      PROVE  out[s] \notin {"prose"} \union R!Patterns
  BY <1>1, <1>2 DEF R!Patterns
<1>3. ASSUME NEW s \in DOMAIN out, NEW t \in DOMAIN out, out[s] = "begin", out[t] = "end", R!Before(s, t)
      PROVE  FALSE
  BY <1>1, <1>3
<1>4. QED
  BY <1>2, <1>3

\* Without the first line of a private key all of the text is left.
LEMMA AllIsLeft ==
    ASSUME NEW text, \A s \in DOMAIN text : text[s] # "begin"
    PROVE  /\ DOMAIN R!Scan(body, text).text = DOMAIN text
           /\ R!Scan(body, text).json <=> \A s \in DOMAIN text : text[s] # "escaped"
BY DEF R!Scan

\* What the tokens of a text are of.
LEMMA WalkTokens ==
    ASSUME R!ConstantsAssumption, ABody, NEW drop \in BOOLEAN,
           NEW s \in DOMAIN R!Walk(body, drop)
    PROVE  \E i \in DOMAIN body :
              LET l == body[i]
                  t == R!Walk(body, drop)[s]
              IN  /\ R!Kept(l, drop)
                  /\ \/ t \in {"key", "value"}
                     \/ t \in R!Of(l.name)
                     \/ l.kind = "string" /\ t \in R!Of(l.text)
<1> DEFINE left  == {j \in DOMAIN body : R!Kept(body[j], drop)}
           spots == UNION {{j} \X DOMAIN R!Tokens(body[j]) : j \in left}
<1>1. R!Walk(body, drop) = [r \in spots |-> R!Tokens(body[r[1]])[r[2]]]
  BY DEF R!Walk
<1>2. PICK i \in left : s \in {i} \X DOMAIN R!Tokens(body[i])
  BY <1>1
<1> DEFINE l == body[i]
           n == s[2]
           last == IF l.kind = "string" THEN Append(l.text, "value") ELSE <<"value">>
<1>3. l \in Leaves /\ R!Kept(l, drop) /\ n \in DOMAIN R!Tokens(l)
      /\ R!Walk(body, drop)[s] = R!Tokens(l)[n]
  BY <1>1, <1>2 DEF ABody
<1>4. l.name \in Seq(R!Words) /\ l.text \in Seq(R!Words \union {"prose"})
  BY <1>3 DEF R!ConstantsAssumption
<1>5. R!Tokens(l) = R!KeyOf(l) \o last
  BY DEF R!Tokens
<1>6. \A m \in DOMAIN R!KeyOf(l) : R!KeyOf(l)[m] \in {"key"} \union R!Of(l.name)
  BY <1>4 DEF R!KeyOf, R!Of
<1>7. \A m \in DOMAIN last : last[m] \in {"value"} \/ (l.kind = "string" /\ last[m] \in R!Of(l.text))
  BY <1>4 DEF R!Of
<1>8. R!KeyOf(l) \in Seq(R!Words \union {"key", "value", "prose"})
      /\ last \in Seq(R!Words \union {"key", "value", "prose"})
  <2> DEFINE W == R!Words \union {"key", "value", "prose"}
  <2>1. l.name \in Seq(W) /\ l.text \in Seq(W) /\ <<>> \in Seq(W) /\ <<"value">> \in Seq(W)
    BY <1>4
  <2>2. \A q \in Seq(W) : Append(q, "key") \in Seq(W) /\ Append(q, "value") \in Seq(W)
    OBVIOUS
  <2> HIDE DEF W
  <2>3. R!KeyOf(l) \in Seq(W) /\ last \in Seq(W)
    BY <2>1, <2>2 DEF R!KeyOf
  <2>4. QED
    BY <2>3 DEF W
<1> HIDE DEF last
<1>9. \/ n \in DOMAIN R!KeyOf(l) /\ R!Tokens(l)[n] = R!KeyOf(l)[n]
      \/ n - Len(R!KeyOf(l)) \in DOMAIN last /\ R!Tokens(l)[n] = last[n - Len(R!KeyOf(l))]
  BY <1>3, <1>5, <1>8
<1>10. QED
  BY <1>2, <1>3, <1>6, <1>7, <1>9

-----------------------------------------------------------------------------
\* What comes of a body.
LEMMA BodyIsClean ==
    ASSUME R!ConstantsAssumption, ABody
    PROVE  LET out == R!Body(body)
           IN  /\ out.json = TRUE
               /\ \A s \in DOMAIN out.text : out.text[s] \notin {"prose"} \union R!Patterns
               /\ \A s, t \in DOMAIN out.text :
                      out.text[s] = "begin" /\ out.text[t] = "end" => ~R!Before(s, t)
<1> DEFINE first  == R!Scan(body, R!Walk(body, FALSE))
           second == R!Scan(body, R!Walk(body, TRUE))
<1>1. first.json \in BOOLEAN /\ second.json \in BOOLEAN
  BY DEF R!Scan
<1>2. CASE first.json
  <2>1. R!Body(body) = first
    BY <1>2 DEF R!Body
  <2>2. QED
    BY <1>1, <1>2, <2>1, WalkWords, Scanned
<1>3. CASE ~first.json /\ second.json
  <2>1. R!Body(body) = second
    BY <1>3 DEF R!Body
  <2>2. QED
    BY <1>1, <1>3, <2>1, WalkWords, Scanned
<1>4. CASE ~first.json /\ ~second.json
  <2>1. R!Body(body) = R!NoFields
    BY <1>4 DEF R!Body
  <2>2. QED
    BY <2>1 DEF R!NoFields
<1>5. QED
  BY <1>2, <1>3, <1>4

\* With no private key and no escape in the keys, what is technical stays.
LEMMA BodyKeeps ==
    ASSUME R!ConstantsAssumption, ABody
    PROVE  LET left    == {i \in DOMAIN body : R!Kept(body[i], FALSE) \/ R!Kept(body[i], TRUE)}
               keys    == UNION {R!Of(body[i].name) : i \in left}
               strings == UNION {R!Of(body[i].text) : i \in {j \in left : body[j].kind = "string"}}
           IN  "begin" \notin keys \union strings /\ "escaped" \notin keys =>
                   \A i \in DOMAIN body :
                       /\ body[i].allowed
                       /\ body[i].kind = "number" \/ (body[i].kind = "string" /\ "escaped" \notin strings)
                       => <<i, Len(R!Tokens(body[i]))>> \in DOMAIN R!Body(body).text
<1> DEFINE left    == {i \in DOMAIN body : R!Kept(body[i], FALSE) \/ R!Kept(body[i], TRUE)}
           keys    == UNION {R!Of(body[i].name) : i \in left}
           strings == UNION {R!Of(body[i].text) : i \in {j \in left : body[j].kind = "string"}}
           first   == R!Scan(body, R!Walk(body, FALSE))
           second  == R!Scan(body, R!Walk(body, TRUE))
<1>1. SUFFICES ASSUME "begin" \notin keys \union strings, "escaped" \notin keys,
                      NEW i \in DOMAIN body, body[i].allowed,
                      body[i].kind = "number" \/ (body[i].kind = "string" /\ "escaped" \notin strings)
               PROVE  <<i, Len(R!Tokens(body[i]))>> \in DOMAIN R!Body(body).text
  OBVIOUS
<1>2. ASSUME NEW drop \in BOOLEAN, NEW s \in DOMAIN R!Walk(body, drop), NEW t, t \notin {"key", "value"},
             R!Walk(body, drop)[s] = t
      PROVE  t \in keys \/ (t \in strings /\ drop = FALSE)
  <2>1. PICK j \in DOMAIN body : /\ R!Kept(body[j], drop)
                                 /\ \/ t \in R!Of(body[j].name)
                                    \/ body[j].kind = "string" /\ t \in R!Of(body[j].text)
    BY <1>2, WalkTokens
  <2>2. j \in left
    BY <2>1
  <2>3. body[j].kind = "string" => drop = FALSE
    BY <2>1 DEF R!Kept
  <2>4. QED
    BY <2>1, <2>2, <2>3
<1>3. \A drop \in BOOLEAN : \A s \in DOMAIN R!Walk(body, drop) : R!Walk(body, drop)[s] # "begin"
  BY <1>1, <1>2
<1>4. \A s \in DOMAIN R!Walk(body, TRUE) : R!Walk(body, TRUE)[s] # "escaped"
  BY <1>1, <1>2
<1>5. "escaped" \notin strings => \A s \in DOMAIN R!Walk(body, FALSE) : R!Walk(body, FALSE)[s] # "escaped"
  BY <1>1, <1>2
<1> HIDE DEF keys, strings, left
<1>6. /\ DOMAIN first.text = DOMAIN R!Walk(body, FALSE)
      /\ DOMAIN second.text = DOMAIN R!Walk(body, TRUE)
      /\ second.json
      /\ "escaped" \notin strings => first.json
  BY <1>3, <1>4, <1>5, AllIsLeft
<1>7. R!Kept(body[i], FALSE) /\ (body[i].kind = "number" => R!Kept(body[i], TRUE))
  BY <1>1 DEF R!Kept
<1>8. R!Body(body) = IF first.json THEN first ELSE second
  BY <1>6 DEF R!Body
<1> HIDE DEF first, second
<1>9. QED
  BY <1>1, <1>6, <1>7, <1>8, WalkEnds

\* What is there before a body is redacted, and after.
RedactInv == /\ ABody
             /\ object \in BOOLEAN /\ done \in BOOLEAN
             /\ redacted = IF ~done THEN R!Nothing ELSE IF object THEN R!Body(body) ELSE R!NoFields

\* What is left of a body has nothing personal in it (Body and String in redact.go), is JSON,
\* and has all that is technical: for any leaves and any length of a body.
THEOREM NothingPersonalIsLeft == ASSUME R!ConstantsAssumption
                                 PROVE  R!Spec => []Redacted
<1>1. R!Init => RedactInv
  <2> SUFFICES ASSUME R!Init PROVE RedactInv
    OBVIOUS
  <2>1. PICK n \in 0 .. MaxLeaves : body \in [1 .. n -> Leaves]
    BY DEF R!Init
  <2>2. body \in Seq(Leaves) /\ Len(body) = n /\ n <= MaxLeaves
    BY <2>1 DEF R!ConstantsAssumption
  <2>3. QED
    BY <2>1, <2>2 DEF R!Init, RedactInv, ABody
<1>2. RedactInv /\ [R!Next]_(R!vars) => RedactInv'
  <2> SUFFICES ASSUME RedactInv, [R!Next]_(R!vars) PROVE RedactInv'
    OBVIOUS
  <2>1. body' = body /\ object' = object
    BY DEF R!Next, R!Redact, R!vars
  <2>2. ABody' /\ object' \in BOOLEAN /\ done' \in BOOLEAN
    BY <2>1 DEF RedactInv, ABody, R!Next, R!Redact, R!vars
  <2>3. redacted' = IF ~done' THEN R!Nothing ELSE IF object' THEN R!Body(body) ELSE R!NoFields
    BY <2>1 DEF RedactInv, R!Next, R!Redact, R!vars
  <2>4. QED
    BY <2>1, <2>2, <2>3 DEF RedactInv
<1>3. ASSUME RedactInv PROVE R!Redacted /\ R!TypeOK
  <2>1. CASE ~done
    <3>1. redacted = R!Nothing /\ DOMAIN redacted.text = {} /\ redacted.json = FALSE
      BY <1>3, <2>1 DEF RedactInv, R!Nothing
    <3>2. R!NothingPersonal /\ R!IsJSON /\ R!TechnicalStays
      BY <2>1, <3>1 DEF R!NothingPersonal, R!IsJSON, R!TechnicalStays
    <3>3. QED
      BY <1>3, <3>1, <3>2 DEF RedactInv, ABody, R!TypeOK, R!Redacted
  <2>2. CASE done /\ ~object
    <3>1. redacted = R!NoFields /\ DOMAIN redacted.text = {} /\ redacted.json = TRUE
      BY <1>3, <2>2 DEF RedactInv, R!NoFields
    <3>2. R!NothingPersonal /\ R!IsJSON /\ R!TechnicalStays
      BY <2>2, <3>1 DEF R!NothingPersonal, R!IsJSON, R!TechnicalStays
    <3>3. QED
      BY <1>3, <2>2, <3>1, <3>2 DEF RedactInv, ABody, R!TypeOK, R!Redacted
  <2>3. CASE done /\ object
    <3>1. redacted = R!Body(body) /\ ABody
      BY <1>3, <2>3 DEF RedactInv
    <3>2. redacted.json = TRUE /\ R!NothingPersonal
      BY <3>1, BodyIsClean DEF R!NothingPersonal
    <3>3. R!TechnicalStays
      BY <3>1, BodyKeeps DEF R!TechnicalStays
    <3>4. QED
      BY <1>3, <2>3, <3>2, <3>3 DEF RedactInv, ABody, R!TypeOK, R!Redacted, R!IsJSON
  <2>4. QED
    BY <1>3, <2>1, <2>2, <2>3 DEF RedactInv
<1>4. QED
  BY <1>1, <1>2, <1>3, PTL DEF R!Spec, Redacted
=============================================================================
