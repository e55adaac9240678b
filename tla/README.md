# Verification of terraform-infra-common

TLA+ models, TLC runs and TLAPS proofs for the Go programs and libraries of
this repository. Paths below are relative to the repository (`src/` here).

## The system

The repository provides infrastructure modules for event-driven services on
Cloud Run. Its own logic is in Go:

```
 GitHub, Linear, Zendesk, GCS      trampolines (webhook -> CloudEvent)
        |  HTTP webhooks                 |  CloudEvents over HTTP, 3 retries
        v                                v
 modules/{github,linear,zendesk,bucket}-events  ->  modules/cloudevent-broker (ingress)
                                                       |  one Pub/Sub topic per type
                                                       v
      subscriptions (retry, dead letter topic)  ->  recorder + uploader -> bucket
                                                ->  bots (modules/github-bots/sdk)
      dead letter subscriptions  ->  cmd/replayer  ->  topic
      BigQuery  ->  modules/cloudevent-recorder/cmd/dejavu-bq  ->  topic
```

## Inventory

| Component | State | Operations | What is hard | What makes it correct |
|---|---|---|---|---|
| Secondary rate limit waiter (`modules/github-bots/sdk/ratelimit.go`) | end of the pause, channel of the pause, mutex, one timer goroutine per pause | `RoundTrip`, `processLimit`, `Wait`, `PauseFor` | every request of a client shares it; a pause can be extended while requests wait and old timers run | no channel closed twice, no waiter left behind, no pause cut short, no retry before its time |
| GitHub client (`modules/github-bots/sdk/github.go`) | token source with a cached token, GitHub's labels and comments | `Token`, `Close`, `CloneRepo`, `AddLabel`, `RemoveLabel`, `SetComment`, look-ups of runs and artifacts | tokens are minted and revoked while requests use them; label and comment updates read, then write; lists change between two pages | no token is left alive that nobody knows; nobody is refused without a reason; a bot writes to its own comments only; what was there all along is found |
| Bot (`modules/github-bots/sdk/bot.go`, `handlers.go`) | handler registry | `NewBot`, `RegisterHandler`, `Serve` | a panic is recovered and the event is acknowledged | an event is acknowledged exactly when its handler accepted it |
| Check run builder (`modules/github-bots/sdk/check/check.go`) | a text buffer | `Writef`, `CheckRunCreate`, `CheckRunUpdate` | GitHub's limit on the length, met by several writes | the text is what was written, or its beginning with the message at the end |
| Recorder (`modules/cloudevent-recorder/cmd/recorder`) | the log volume | `recordEvent` | redelivery, failed writes, the uploader on the same volume | an acknowledged event is kept |
| Uploader (`pkg/rotate`, `modules/cloudevent-recorder/cmd/logrotate`) | the log volume, objects of a bucket | `Run`, `flush`, `BufferWriteToBucket`, `Upload` | failed uploads, crashes between upload and removal, shutdown | nothing is removed that is not uploaded; the last flush takes everything |
| Broker ingress (`modules/cloudevent-broker/cmd/ingress`, `pkg/pubsub`) | one publisher per event type, paused ordering keys | `buildPublishers`, authentication, `forward` | a failed publish pauses its ordering key | an event answered 2xx is published; a key does not stay paused |
| Replayer (`cmd/replayer`) | time of the last message | `Receive` callback, `exitOnIdling` | the exit races the acknowledgement; ordered messages | a message is acknowledged only once it is published; the job ends |
| Replay from BigQuery (`modules/cloudevent-recorder/cmd/dejavu-bq`) | an iterator | `main` | an iterator error | each row published once, the job ends |
| Trampolines (`modules/{github,linear,zendesk,bucket}-events`) | secrets, filters | `ServeHTTP`, payload validation, event extensions, sending with retries | lost answers, repeated deliveries, many early returns, time stamps | only what is asked for is forwarded; a source told of success lost nothing; one webhook is one event |
| Redaction (`modules/zendesk-events/internal/redact`) | none | `RedactPayload` | expressions over the text of JSON, in an order | nothing personal is left, what is left is JSON, what is technical stays |
| HTTP metrics (`pkg/httpmetrics`) | bucket tables, gauges, counters | `SetBuckets`, `SetBucketSuffixes`, `bucketize`, `instrumentRequest`, `instrumentGitHubRateLimits`, `Handler` | tables replaced while requests read them; wrappers, panics, answers cut short | gauges and counters agree with the requests there are; no body is changed by looking at it |
| Tracing (`pkg/httpmetrics`) | spans, headers, batches | `SetupTracer`, samplers, exporters, `preserveTraceparent` | the platform writes its own span; every service decides alone what it keeps | a trace is one tree, kept or dropped as one by services of one rate |
| Git execution (`pkg/gitexec`) | pipes, writers, the tail of the errors | `Run`, `Output`, `tailBuffer`, `gogit` | goroutines of `os/exec`, writers that are one and the same, helpers that outlive git | caller and log get what was written; the outcome is the one of the command |
| Valkey client (`pkg/valkey`), prober (`pkg/prober`), profiler, webhook secrets, users of Octo STS | little or none | configuration and a handler each | start-up only | the configuration is the one asked for |
| Terraform modules | none at run time | declarative | subscription policies are used by the models as the behaviour of Pub/Sub | - |

Nothing but Pub/Sub and HTTP connects the programs, and each may be delivered
more than once; so every component is modelled with the deliveries it meets.

## Modules

| Module | Of | Uses |
|---|---|---|
| `PauseGate` | what the rate limit waiter promises | - |
| `RateLimiter` | `modules/github-bots/sdk/ratelimit.go` | `PauseGate`, as what it implements |
| `TokenSource` | the tokens of `NewGitHubClient`, `Close` and `CloneRepo` in `github.go` | - |
| `LookUps` | what a client looks up in `github.go`, page by page | - |
| `GitHubClient` | a client's tokens and its look-ups | `TokenSource`, `LookUps` |
| `LabelBot` | `Serve` in `bot.go`, `AddLabel` and `RemoveLabel` in `github.go`, the dead letter policy of `modules/cloudevent-trigger` | - |
| `BotComments` | `SetComment` and `AddComment` in `github.go` | - |
| `CheckBuilder` | `modules/github-bots/sdk/check/check.go` | - |
| `BotSdk` | what bots do with the SDK: labels, comments, check runs | `CheckBuilder`, `LabelBot`, `BotComments` |
| `RecorderPipeline` | `recorder/main.go` and `pkg/rotate/blob.go` on one volume | - |
| `Broker` | what the broker promises to who sends it events | - |
| `Ingress` | `cloudevent-broker/cmd/ingress/main.go`, the ordering key of `pkg/pubsub` | `Broker`, as what it implements |
| `Replayer` | `cmd/replayer/main.go` | - |
| `DejaVu` | `cloudevent-recorder/cmd/dejavu-bq/main.go` | - |
| `Replays` | the two ways to send again what was sent before | `Replayer`, `DejaVu` |
| `GitHubWebhook`, `LinearWebhook`, `ZendeskWebhook` | what a trampoline makes of one webhook: its answer, or the event | - |
| `Trampoline` | the four trampolines between a source and the broker | the three modules above, and `Broker`, as what it sends to |
| `Redact` | `zendesk-events/internal/redact/redact.go` | - |
| `Webhooks` | a webhook on its way, and what is left of the body of one | `Trampoline`, `Redact` |
| `HttpMetrics` | the transport of `pkg/httpmetrics/transport.go` | - |
| `ServerMetrics` | `Handler` in `pkg/httpmetrics/metrics.go` | - |
| `Tracing` | `SetupTracer`, its samplers and exporters, `preserve_traceparent.go` | - |
| `GitExec` | `pkg/gitexec`, `pkg/gitexec/gogit` | - |
| `Observability` | what is measured, traced and logged | `HttpMetrics`, `ServerMetrics`, `Tracing`, `GitExec` |
| `RateLimiterProofs`, `GitHubClientProofs`, `BotSdkProofs`, `RecorderPipelineProofs`, `IngressProofs`, `ReplaysProofs`, `WebhooksProofs`, `ObservabilityProofs` | theorems about the module of that name | TLAPS |
| `MC*` | instances for TLC | the modules they check |

Each module has the state, then one action per step of the code, then the
properties. Operators whose name has an underscore (`Answer_Logged`) are mutants:
the definition named before the underscore, changed the way a bug would change
it. Nothing refers to them; putting one in place of its definition must make TLC
find the property `PROJECT.json` names with it violated. `PROJECT.json` also
gives, for every definition, the lines it models.

`GitHubClient`, `BotSdk`, `Replays`, `Webhooks` and `Observability` put modules side by side whose
states have nothing in common, so that a run and the theorems about them are about the same definitions: a theorem
about one of the modules is `L!Spec => []P`, with the specification of that module.

`MCRateLimiter` and `MCIngress` give constants their values. The other MC modules
check several parts in one run: the variable `part` says in the first state
which one takes steps, and the variables of the others keep a fixed value or stay in
a first state of theirs. The parts of `MCRecorderPipeline` are one module with
different pushes and faults. Such a run explores the states of each part one after
the other, not their product: parts do not interact. The properties of one part are
true of the states of the others, so a name in a cfg is about one module; `ClientTypeOK`,
`SdkTypeOK`, `ReplaysTypeOK`, `ObservedTypeOK` and `MetricsAreTrue` are conjunctions with
a part for each module; `Redacted` has the types of `Redact` in it. Where a proof is about a module (`GitHubClient`, `BotSdk`,
`RecorderPipeline`, `Replays`, `Webhooks`, `Observability`), the MC module extends it,
so that run and theorem are about the same definition.

### RateLimiter

A critical section of `limiter.mu` is an action (`ReadPause`, `PauseFor`,
`TimerFires`); waiting on the channel is outside of it (`Resume`, `Abandon`).
Channels are numbered as they are made, `closed` are those that are closed, and
each timer goroutine is a channel with the instant its timer fires. `PauseLength`
is `processLimit`: the three headers and what an absent, unparsable or past value
means. `Delays` ranges over all combinations of the constants.

`PauseGate` leaves channels, timers and mutex out: a gate that is shut until some
instant, and the requests that stand at it. `RateLimiter` implements it with
`blocked` the requests whose channel is open.

### TokenSource and LookUps

`oauth2.ReuseTokenSource` holds a mutex while it asks `tokenSource.Token`, so
`Refresh`, `Mint`, `RevokePrevious`, `Install` are steps of one holder, and
requests and `Close` happen at any time with the token a caller got. A clone asks
for its token once and uses it until it ends. Tokens are fresh, then stale (the 45
minutes of `Expiry`), then expired (the hour of GitHub). Octo STS and GitHub may
answer with an error and have done what was asked.

`LookUps` has what GitHub lists, the newest first: items enter at the front and leave
anywhere, while a call turns its pages. The list is the set of its items, a larger one
being newer, and the place of an item is how many are newer. One module has the look-up of a pull request, of an
artifact (`FetchArtifact`, and `OldFetchArtifact` for the deprecated call), the
walk of `ListArtifactsFunc`, the logs, and calls that are one request.
`KeepOptions` is a caller that calls again with the options it has. An item that goes
while it is on a page that the call has read (`OnReadPage`) moves those after it into
what is read already; a call this happens to is excused, and no other is.

### LabelBot, BotComments and CheckBuilder

`LabelBot` has a pull request, the events its changes make, and workers that
handle events with what the event says, not with what is the case. `Dispatch` is
the callback of `Serve`; the cases for each type of handler are alike, and the
model has one of them, the pull request handler. `Answer` is the return of the
callback: an error gives the event back, anything else, a recovered panic
included, accepts it. The handler itself is not in this repository; it is the one
the README of `github-bots` describes (a label if and only if the title asks).

`BotComments` has the comments of a pull request in the order GitHub lists them.
A call of `SetComment` is `List`, then `EditComment` or `CreateComment`. People
comment, quote markers and delete.

`CheckBuilder` has the text as a sequence of bytes; `written`, a history variable,
is what it would be without a limit.

### RecorderPipeline

Recorder and uploader share a volume. A push is a handler with its steps: the file
is created or truncated, then written. The uploader's flush is a walk, one
attempt after the other to write an object, and a removal for each file. A file
is absent, torn or whole; an object that is being written is a set of events.
History variables note which events were written by two handlers at a time or
while the uploader had them listed (`contested`): those nothing protects, and the
run `recorder_torn` shows it.

### Ingress, Replayer, DejaVu

`Ingress` has the start with its OIDC retries, a publisher for each topic
(`PublisherFor`: types with the same override share one), and the client library's
rule that a failed publish pauses its ordering key. `forward` is `Publish`, then
`Accept`, `Fail`, `FailRequest` or, when the client went away, `Abandon`.

`Broker` leaves start, publishers, queues and topics out: requests that are open or
answered, and the events that are kept. It promises that only events of a verified sender
are kept and that success is answered for kept events only; it does not promise that an
event is not kept that was answered with an error, nor that it is kept before that answer.
`Ingress` implements it with `answer` the last answer to a request for each event, and
`kept` the events in the topic of their type.

`Replayer` has a subscription messages come to at any time, a publisher without
message ordering (which refuses a message that has a key), acknowledgements that are
on their way, and the ticker of `exitOnIdling`. The job may be run again.

`DejaVu` has the query, an iterator that reads rows a page at a time and repeats an
error for ever, and the attempts of `Publish`. Which rows no event can be made of
(`unfit`: one with a number that JSON does not have, say) is open at the start: `Send`
of such a row is the end of the program.

### Webhooks: Trampoline and Redact

`GitHubWebhook`, `LinearWebhook` and `ZendeskWebhook` have no state. Each has a set
of webhooks, the verdict of its `ServeHTTP` with the checks in the code's order
(the status it answers with, or `send`), and `Extensions`, what it tells of the
webhook in the event. A webhook is a record of what those checks look at; each
check is met with every value of what it reads, alone and together with those
before it. A body that is no JSON passes the filters of GitHub's trampoline, as one
without an organization, and is a 500 when it has to become the data of the event; a
notification of a bucket that does not decode is a 400.

`Trampoline` is one webhook from its source to the broker: a source delivers it
again when it was not told of success, and the delivery before may still be in
progress. `Receive` is `ServeHTTP` up to the send, and asks the broker for the first
time; `Send` is what comes of that: `Delivered`, or after an error `Again`, which asks once more, or
`Failed`. The other side of it is `Broker`, with an event for each attempt
(`BrokerServes`, `BrokerFails`): it may keep one whose answer is lost or is an error, and
keep it when the trampoline has gone on or is gone. `GiveUp` is the
source that does not wait any longer, `Die` the end of the instance. Time passes
in three ages (`GrowOlder`): ahead of the clock, recent, and too old. What the broker keeps
of the attempts (`stored`) has the identity the trampoline gave it: the ID of the webhook
or, for a bucket, one of each delivery.

`Redact` has a body of leaves, each at a place and with a kind of text, and the
two passes of `RedactPayload` over it: `Walk`, the leaves that are kept, and
`Scan`, the expressions over the text the body is encoded to. A text is a function from
spots (a leaf, and a place in its encoding) to tokens, so that what an expression takes is
a set of spots and nothing has to be counted. An expression does
not know the structure of JSON: one that spans from one value to another takes the
structure between them, and the result is no JSON. `Body` is the check for that,
and what is left then.

### Observability: HttpMetrics, ServerMetrics, Tracing, GitExec

`HttpMetrics` has the requests of several goroutines through the measuring
transport. Each increment, each `Set` of a gauge and each load of the label tables
is a step, since nothing protects them together; so are the counter of a request
(`Count`) and the gauge that falls when the wrapper returns (`Leave`). GitHub and Docker Hub tell of
their limits in headers, and `Classify` reads the body of a refusal and puts it
back; `LimitOf` is the kind it counts. `SetBuckets` and `SetBucketSuffixes` are `Load`, then `Store`.

`ServerMetrics` has the nested wrappers of `Handler`, from the inside out:
`CountStatus`, `ObserveDuration`, `Leave`; a `Panic` runs only the last of them.
`Wrap` is the start, when the provider that verifies tokens is there or is not.

`Tracing` has one trace through several services. `Ask` is a request or a message
with the headers the caller writes, of which the platform replaces `traceparent`. The
transport makes two spans of a request, one within the other: the outer one, of
`instrumentRequest`, is a `Work`, and the inner one, of `otelhttp`, is the one that asks.
`Serve` restores the caller's (`Restored`). `Keeps` says which exporter keeps a
span that ends, `Flush` sends a batch, `Exit` is the end of a service with or
without its shutdown. Sampling looks at the same part of the trace ID (`x`) in
every service.

`GitExec` has one command: `Wired` is how the outputs of git are connected to the
writers (which may be one and the same, and comparable or not), then pipes and the
copying goroutines of `os/exec`. A helper of git holds the pipes and may write after
git has ended. `TailWrite` is the bounded buffer, `Record` what is logged and
returned. A byte is the number of its place in all that was written, so that
order and loss show.

## Runs

| Run | Bounds | Distinct states | Shows |
|---|---|---|---|
| `rate_limiter` | 2 requests, 3 limited answers, every combination of the values of each header | 247,484 | no channel closed twice, no request orphaned, no pause cut short, each answer covered, `PauseGate` implemented; every `RoundTrip` returns once GitHub stops limiting |
| `rate_limiter_early` | 2 limited answers | - | finding 1 |
| `github_client` | a request, a clone, 2 calls of `Close`, 3 tokens; 4 items on pages of 2, 2 calls | 723,235 | `NoTokenIsLeft`: a token is alive only while somebody knows it, and not after `Close`, errors apart; `RefusedForReason`: a token is refused only past its expiry or after `Close`; `RightAnswer`: what was there all along is found and handed on, unless something went from a page the call had read |
| `list_again` | 4 items, 2 calls, a caller that keeps its options | - | finding 4 |
| `bots` | 2 workers, 1 edit, 1 fault, 1 panic, 2 attempts, a malformed event and one without a handler; 4 calls for comments of 2 bots, pages of 2, 1 comment and 1 deletion by people; texts of 5 pieces of 1 to 3 bytes, of which 5 bytes are taken | 343,233 | a wrong label has an event left that puts it right, and the label comes to what the title asks for; when a bot may have two comments, and whose comments change; the text of a check run is whole or cut at its end |
| `recorder_pipeline` | 2 events in 2 directories, one of them pushed twice with a fault, or 2 faults; 2 upload attempts | 513,411 | what is acknowledged is on the volume or in the bucket, and gets to the bucket; the last flush takes everything |
| `recorder_torn` | the same, without the excuse of contested events | - | finding 2 |
| `ingress` | 3 events and one not verified, 2 topics, 2 faults | 119,822 | `Broker` implemented: an answer 2xx is true, and nothing of an unverified sender is kept; order is broken only around a failure; no key stays paused |
| `replays` | 3 messages, one with a key, 2 runs of the job, 2 faults; 4 rows in 2 pages, an error of BigQuery, SIGTERM, a query that fails, any of the rows one of which no event can be made | 74,232 | nothing lost and no copy without a reason; each row once; both programs come to their end |
| `replayer_keyed` | 2 messages, one with a key | - | finding 3 |
| `webhooks` | 839 webhooks, 3 deliveries, 1 retry of a send, 2 faults; bodies of up to 3 leaves of 30 kinds | 469,356 | a source told of success lost nothing; only what is asked for and recent is sent; a webhook is one event unless something was tried again; a notification of a bucket gets to the broker in the end; what is left of a body |
| `observability` | 2 requests, a quota of 2; 2 requests and 2 handlers; 3 spans in 3 services, 1 service that ends; 3 bytes, a tail of 2 | 1,038,120 | gauges and counters agree with the requests, also in what kind each limit was; a trace is one tree and kept as one; caller and log of git get all that was written |

The bounds are what it takes for the hazards to meet: two actors of a kind (a
third one repeats what the second can do to the first: what they share is one
channel, one mutex, one cache, one file, one key, one gauge), one fault more than the
code has retries or attempts where giving up matters, two pages where there are
pages, one byte more than a buffer holds, a third service where a span hangs on
one that was itself called, and a second change while the first is still on its
way (in `LabelBot` the bot's own changes are among these). Three leaves are the two
ends of an expression and one between them. Counters are bounded in the
guards, by constants the modules mark with "bound", with the exception of the
events of `LabelBot`, which end by themselves when people stop. `CHECK_DEADLOCK
FALSE` stands where the program or the system comes to an end. Symmetry is used for
callers of `Close` and for the requests of `HttpMetrics` and `ServerMetrics`, in
runs without liveness.

## Fairness

Fairness is that of the scheduler and of the peers, never of faults: goroutines run,
timers fire and the clock goes on (`RateLimiter`); Pub/Sub delivers what is not
acknowledged and a handler's calls, which have deadlines, are answered
(`LabelBot`, `Ingress`, `Replayer`, and `Deliver` of a bucket's notification in
`Trampoline`; a webhook of the other sources is not fairly delivered, since nobody
but the source decides to send it again); the broker answers an attempt that is waited for, which
the fairness of `Ingress` stands for (`ServeNow`), and need not do what nobody waits for; the uploader's interval passes
and its container is started again (`RecorderPipeline`). No fairness makes a
context end, SIGTERM come, people act, a call fail, or GitHub start or stop
limiting; faults are bounded by a counter, so that liveness means "once faults
stop". `LabelFollowsTitle` needs fewer faults than `MaxAttempts`, since an event that is
given up for faults only is lost, and that every change makes an event that gets to the
subscription; a panic over the last event it excuses, and no other panic. `JobEnds` is
about runs of the job that do not receive a message with an ordering key again and again
(one that has not come, or comes after the exit); those are what `replayer_keyed`
shows. `EndsWithTheRows` excuses an error of the iterator and SIGTERM, and has a row of
which no event can be made for an end.

## Proofs

TLAPS proves these for every value of the constants that satisfies the
`ConstantsAssumption` of the module, and from nothing else but, for the look-ups, that a
caller has `ListOptions` of its own for each call (finding 4 is what happens if not):

| Theorem | Of | States |
|---|---|---|
| `LimiterTypes` | `RateLimiter` | `Spec => []TypeOK` |
| `NeverClosedTwice` | `RateLimiter` | `Spec => []NoDoubleClose` |
| `NeverOrphaned` | `RateLimiter` | `Spec => []NoOrphan` |
| `PausesRunTheirCourse` | `RateLimiter` | `Spec => PauseRunsItsCourse` |
| `PausesCoverAnswers` | `RateLimiter` | `Spec => PauseCoversAnswer` |
| `Implementation` | `RateLimiter` | `Spec => ImplementsGate` |
| `NoTokenIsEverLeft` | `TokenSource` | `Spec => []NoTokenIsLeft` |
| `RefusedOnlyForReason` | `TokenSource` | `Spec => []RefusedForReason` |
| `LookUpsAreRight` | `LookUps` | `L!Spec => []RightAnswer`, if `KeepOptions` is `FALSE` |
| `ClientTypes` | `GitHubClient` | `Spec /\ L!Spec => []ClientTypeOK`, if `KeepOptions` is `FALSE` |
| `SdkTypes` | `BotSdk` | `Spec /\ L!Spec /\ C!Spec => []SdkTypeOK` |
| `TextIsAlwaysWhole` | `CheckBuilder` | `Spec => []TextIsWhole` |
| `NoChangeIsMissed` | `LabelBot` | `L!Spec => []NothingMissed` |
| `OneCommentPerBot` | `BotComments` | `C!Spec => []OneOfItsOwn` |
| `NoMarkerForPeople` | `BotComments` | `C!Spec => PeopleAreLeftAlone` |
| `PipelineTypes` | `RecorderPipeline` | `Spec => []TypeOK` |
| `AckedStays` | `RecorderPipeline` | `Spec => []AckedIsKept` |
| `NothingIsLeft` | `RecorderPipeline` | `Spec => []LastFlushTakesAll` |
| `OnlyContestedAreLost` | `RecorderPipeline` | `Spec => [][RemovesUploadedAlone]_vars` |
| `IngressTypes` | `Ingress` | `Spec => []TypeOK` |
| `AnswersAreTrue` | `Ingress` | `Spec => []AnswerIsTrue` |
| `IngressIsABroker` | `Ingress` | `Spec => ImplementsBroker` |
| `OrderedUnlessFailed` | `Ingress` | `Spec => []OrderUnlessFailed` |
| `ReplaysTypes` | `Replays` | `Spec /\ D!Spec => []ReplaysTypeOK` |
| `EachOnce` | `Replayer` | `Spec => []OnceEach` |
| `EachRowIsSentOnce` | `DejaVu` | `D!Spec => [](D!TypeOK /\ EachRowOnce)` |
| `TrampolineTypes` | `Trampoline` | `Spec => []TypeOK` |
| `ToldIsKept` | `Trampoline` | `Spec => []ToldMeansKept` |
| `NothingElseIsSent` | `Trampoline` | `Spec => []OnlyAskedFor` |
| `CopiesAreTheSame` | `Trampoline` | `Spec => []SameEvent` |
| `BrokerIsOneHere` | `Trampoline` | `Spec => B!Spec /\ []NothingInTheWay` |
| `NothingPersonalIsLeft` | `Redact` | `R!Spec => []Redacted` |
| `TraceIsOneTree` | `Tracing` | `Spec => []OneTree` |
| `MetricsStayTrue` | `HttpMetrics`, `ServerMetrics` | `H!Spec /\ S!Spec => []MetricsAreTrue` |
| `GitIsAsItWas` | `GitExec` | `G!Spec => []AsItWas` |
| `ObservedTypes` | `Observability` | `Spec /\ H!Spec /\ S!Spec /\ G!Spec => []ObservedTypeOK` |

The assumptions are the types of the constants, that bounds are numbers, that requests and
the items of a list are finitely many (they are counted), that items are numbers above 0, which
stands for none, and a few facts that names are not mixed up: callers that do different things are different, a
worker is no state of an event, people are no bot, a check run has a name, there is a
directory events may be recorded in, and "no organization" is not the name of one. Of a body that
is redacted, the names that are allowed are names without anything to mask, and the values under
them are not what people write, as the comment of `safeStringKeys` has it of Zendesk's fields.

No invariant is inductive as it stands; each proof is about a stronger one that is.

- `RateLimiter`: `IInv` is the types, no channel closed twice, `PauseState` and
  `RequestState`. Its core is `PauseState`: the current channel is open and has a
  timer for the end of the pause, every other channel that was made is closed. From
  it a timer or `PauseFor` can close only an open channel, and a request that waits
  on a channel that is not the current one waits on a closed one, which is
  `NoOrphan`. That timers of the current channel carry the end of the pause gives
  `PauseRunsItsCourse`, and the `Open` step of the gate: when the channel is closed by
  its timer, the time has come. `RequestState` ties a limited request to the delay it
  asks for, which gives `PauseCoversAnswer`. The refinement maps each action to a step
  of the gate or to a stutter: `ReadPause` of a paused client is `Arrive`, `Abandon` is
  `GiveUp`, `PauseFor` that extends is `Shut`, `TimerFires` of the current channel is
  `Open`.
- `TokenSource`: `TokenInv` has `HolderInv` (the holder of the mutex is inside of `Token`,
  the cache has the token minted last, which is stale while the mutex is held, and is
  revoked or excused before the next takes its place), `LiveInv` (a token that lives is
  that one, the holder's, or excused; and, for a caller that has a token, is its own, a
  later one, or excused) and `ReasonInv` (what is revoked was stale, or Close was called
  on it). That the cache is stale throughout a refresh is what makes a revocation
  harmless; that a call of `Close` knows of every token that lives is what makes it complete.
- `LookUps`: `LookInv`. `ToCome` says of what was there all along that it is `Ahead`, on the page
  that is read next or a later one, unless it was found or handed on; of an artifact that
  is being downloaded, that none of the name that was there all along is newer. What
  appears only adds to the places of the others (`Moved`), so they stay ahead; what is on no
  page up to the one that was read is on a page after it (`OnThePage`, `Turned`), and after
  the last page nothing is ahead. What goes from a page that is still to be read moves
  nothing to a page before it (`ClosedUp`), so only what goes from one that was read
  has to be excused. The first of a page is its largest, which a set of
  numbers has by well-foundedness (`Least`, `FirstOf`).
- `CheckBuilder`: `TextInv`, the types and `TextIsWhole`. What carries it is
  `CutAgain`: writing to a text that was cut and cutting it again gives the same text.
- `LabelBot`: `LabelInv`. Its core is `LatestSaysSo`: the last event says what the pull
  request is, since every change makes one. So a worker that calls GitHub for the last event
  makes the label right (`CallsAsked`), one that accepts the last event leaves the label right
  unless its handler panicked (`AcceptsDone`), and one that gives an event back met with a fault, or had an
  event that is not the last, or a malformed one (`RefusesForReason`). A stale event may
  put a wrong label; the change it makes is a new last event.
- `BotComments`: `CommentInv`. What a call of `SetComment` holds on to while it is between its two
  requests points to a comment of its own bot (`Pointed`). For a bot without an excuse there is
  one such call at a time (`OneAtATime`), and if it saw no comment there still is none
  (`NoneYet`), so that none has two (`NoTwo`). `NotOfOthers` keeps the markers apart.
- `RecorderPipeline`: `Inv`, a conjunct for each thing the uploader relies on. `Safe` is
  the point: a clean event (one that is not contested) whose handler has written its file is
  whole on the volume, or filed: in an object other than the one that is being written.
  `Linked` says that no clean event is written to a file that is gone, which is what `Watched`
  is for; `Copied` and `Uploaded` that a file has been through the writer before it is removed;
  `Fresh` that no object is replaced by one without its events; `Phases` and `Listed` that
  the last flush leaves late and contested events only. `OnlyContestedAreLost` is from the
  same invariant: finding 2 has no cause but contention.
- `Replayer`: `ReplayInv` says of each message that a callback has its lease, that what
  is out of the subscription or published has a copy, and that a message with a copy is
  excused unless the copy is its only one and the message is gone or about to be. The
  end of the process, in which leases and acknowledgements on their way are lost,
  excuses exactly those whose copy this leaves behind. `CountInv` bounds the copies: each
  start of the job and each fault makes room for one, and a message that is `Open`
  has not used the room of this start yet.
- `DejaVu`: `RowInv`, the types, `EachRowOnce` and `Sending`: an event is sent for the row that was
  given last or for none, no more often than the client retries, and nothing is given before the
  query. So a row that is not fit, which is never sent, is the last that was given.
- `Ingress`: `IngressInv` adds to the answers what leads to them: a queue of a publisher
  holds verified events of its key only, a topic verified events only, and a request that
  is about to be answered 2xx has its event in the topic. `OrderInv` is about the queue and the log
  of one key with the history of what was handed to the client: what did not fail is in
  one of them (`NoneLost`), and of two such the earlier one is ahead of the later one in the
  log, in the queue, or from the queue to the log (`InOrder`). It is stated of any two
  sequences, so that the lemmas about an append, a removal and a failure are about sequences and
  not about the ingress. `SetUp` has the start and the paused keys. That it is a `Broker` needs
  `AskedInv` as well: what is in a queue has been sent and waits in the queue of its own type and
  key, and a handler waits for one message at most, so that a result is for the request that is open. `Publish` is
  `Ask`, `Reject` is `Refuse`, `Accept` is `Accept`, `Fail` and `Abandon` are `Fail`, a message that
  Pub/Sub stores is `Keep`, whether the call succeeds or not, and the rest is a stutter.
- `Trampoline`: `Inv` has, besides the types, `Replies` (the broker keeps what it accepted, and nothing it
  was not asked to keep, and keeps something if a source was told of success), `TakenPassed` (what is sent
  passed the checks at the age the webhook had then) and `Begun` (deliveries and attempts
  begin in their order, and nothing is asked or kept of one that has not begun, so that a second
  one means that something was tried again). A step of the broker and one of a trampoline disturb different
  parts of it (`BrokerInv`; `AskInv`, `QuietInv`). `OnlyAskedFor` then is about the checks alone: each
  verdict of each source, one lemma for each. `BrokerIsOneHere` says that the other side is no more than
  `Broker` promises, and that it demands nothing of an attempt that is not so, so that no behaviour of
  a trampoline is left out; with `IngressIsABroker` the two modules fit together at that seam.
- `Redact`: `RedactInv` has the types, and that what is left of a body that is done is what `Body`
  makes of it. The proof is about two
  functions: what is kept has no prose (`KeptWords`, `WalkWords`), no spot that is left by `Scan` has a
  pattern's token or stands between the first line of a key and the last (`Scanned`), and if no key
  begins, all is left (`AllIsLeft`). The second pass may lose the strings and not the numbers,
  since the names of the fields they are under cannot break an escape (`BodyKeeps`).
- `Tracing`: `TraceInv` has, besides the types, `CallsInv` (what is restored of a request
  names its caller and the decision all others carry), `TreeInv` (each span hangs on its
  caller) and `KeptInv` (a span is in a batch, sent or lost exactly if it has ended and
  its exporter keeps it). `KeptTogether` follows from the last, `ThresholdGrows`, and that
  all spans look at the same `x`. `BoundedInv`, for the types: a span or a call comes from a
  span that was there before.
- `ServerMetrics`: `ServerInv`. `Measured` says that each measure is the cardinality of the set
  of requests that have got to it, and `Truthful` what the caller saw. A step moves one
  request, so each of these sets gains it, loses it, or stays (`OneOfThem`, a lemma about finite
  sets), and the measure goes up, down, or stays with it (`StaysMeasured`).
- `HttpMetrics`: `HttpInv`, in the same way: `Tallied` for gauges and counters, with what a
  request knows of its answer at each step (`Fits`). That the gauge that falls is the one that was
  raised is what the label kept in the request gives, and each kind of limit is the number of the
  requests whose answer `LimitOf` has of that kind (`Refused`), which `KindOfLimit` ties to what
  `KindsOfLimit` says of headers and body. `Settled` is about the two setters: a
  copy that is stored over the other's was loaded before it was there. `GaugeInv` is about the
  three gauges of a limit, set one after the other: unless two recorded at once, there is at most one
  request that records (`OneAtATime`), the gauges it has set are of its answer
  (`Ongoing`), and with none they are of one answer (`Sound`); `Since` says that what remains on
  GitHub never grows above what an answer said.
- `GitExec`: `GitInv`. A byte of a pipe is with its writers, in the hands of the goroutine that
  copies, or in the pipe, in this order and in the order it was written (`Flows`), and a writer of one
  goroutine has all of the first (`HasAll`), or their end if it is the tail
  (`TailStaysTheEnd`, about any two sequences and any limit). A goroutine is over when nobody
  holds the pipe and it is empty (`Drained`), and `Record` comes after both, so that
  nothing is on its way when the command returns. `WhoGetsWhat` is the wiring: which of the writers
  has one goroutine, for each way a caller may ask for them.

Only model-checked:

- the liveness properties and whatever needs ENABLED, which the proof system does not handle.

## Findings

1. `rate_limiter_early` - `modules/github-bots/sdk/ratelimit.go:236`: a longer pause
   closes the channel of the running one and so lets the requests that wait on it go at once,
   before the time their answers gave; the comments of `processLimit` say "don't retry
   until after the time specified".
2. `recorder_torn` - `pkg/rotate/blob.go:162`: the uploader reads a file the recorder has
   not finished and then removes it by name; the event was acknowledged and is
   not in the bucket. Line 158 says "Only delete files after a successful upload."
3. `replayer_keyed` - `cmd/replayer/main.go:59`: a message with an ordering key is refused
   by the publisher, given back, and received again without end.
4. `list_again` - `modules/github-bots/sdk/github.go:551`: `ListArtifactsFunc` turns the
   pages in the options of its caller and leaves the last one there; called again with them
   it skips the pages before. Line 525 says it is executed "on each of the artifacts".

Seen while modelling, and part of the models, without a run of their own:

- `github.go:130`: the token of a client is refreshed after 45 minutes, and the one
  before revoked (`Refresh`, `RevokePrevious`); the comment at line 40 says it is not.
- `github.go:292`: `SetComment` reads the first page of comments only, and
  adds another comment where its own is further down; line 290 says it "adds or replaces".
- `dejavu-bq/main.go:97`: an error of the iterator makes an event of `null`, and
  another, without end, after SIGTERM too (`ReadFails`).
- `dejavu-bq/main.go:103`: a row of which no event can be made ends the job, with the exit
  code of success, and the rows after it are not sent (`Send`); an event that cannot be delivered
  is passed over, "Try to process next events" (line 126).
- `transport.go:130`: of two setters that run at a time the part one of them has set
  may be lost (`Store`); `MetricsAreTrue` asks for both only of setters that did not overlap.
- `metrics.go:559`: a service that is killed loses its batch, which tears a trace; `OneTree` counts
  such spans as kept, since it is about what the services decide.
- `recorder/main.go:90`: a redelivered event truncates the file of one that was acknowledged;
  `AckedIsKept` excuses it (`contested`), and finding 2 is what comes of it.

## Not modelled

"components" in `PROJECT.json` lists every part with its reason. In short:

- declarations of infrastructure, data types, generators, examples and the expression for
  users of Octo STS: nothing in them takes steps;
- configuration at start (Valkey, prober, profiler, webhook secrets, ID tokens, clients of
  the ingress) and the gauges of a file system: a value is read and used, by one
  goroutine;
- the table of GitHub's paths in `github_api.go` and the fields and arguments that
  `pkg/gitexec` writes to its log: lists of expressions over text without state;
- the client of a GitHub installation, whose tokens a library mints and keeps.

Within modelled components the wording of logs, and the bytes of messages except
where a length or a pattern matters, are left out. A body that the transport has
read before it sends a request again (`ratelimit.go:106`) depends on the transport
below and has no property.

## What is left to do

1. A subscription behind the broker: an abstract at-least-once channel from what `Broker` keeps to
   a service or its dead letter topic, which the deliveries in `LabelBot`, `RecorderPipeline` and
   `Replayer` would use as `Trampoline` uses `Broker`. Now each of them has deliveries of its own.
2. That a broker answers and keeps: `Broker` states safety only. The liveness `Trampoline`
   asks of it (`ServeNow`) is what `EventuallyAccepted` checks of `Ingress`, by itself.
