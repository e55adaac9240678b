------------------------------- MODULE Tracing -------------------------------
(***************************************************************************)
(* One trace through several services (pkg/httpmetrics).  A request or a   *)
(* message goes through the platform, which writes its own span into the   *)
(* traceparent header; two other headers keep that of the caller.  A       *)
(* service makes spans of what it serves and of what it asks for, and each *)
(* exporter gets those that its processor keeps.                           *)
(***************************************************************************)
EXTENDS Integers, Sequences, Functions

CONSTANTS Services,
          Scale,     \* values of the part of a trace ID that is looked at
          Rate,      \* OTEL_TRACE_SAMPLING_RATE of each service, times Scale
          Configured, \* services whose OTEL_TRACES_EXPORTER is set
          Entries,   \* what it lists for each, which may be nothing but blanks
          Endpoints, \* names with an OTEL_EXPORTER_OTLP_TRACES_<name>_ENDPOINT
          OnGCP,
          MaxSpans,  \* bound: spans of the trace
          MaxExits   \* bound: ends of services

ConstantsAssumption == /\ Scale \in Nat \ {0}
                       /\ Rate \in [Services -> Int]
                       /\ Configured \subseteq Services
                       /\ \A s \in Services : Entries[s] \in Seq([kind : STRING, name : STRING])
                       /\ OnGCP \in BOOLEAN
                       /\ {MaxSpans, MaxExits} \subseteq Nat

VARIABLES x,      \* the part of the trace ID
          spans,  \* in the order they were started
          calls,  \* requests and messages on their way
          batch,  \* spans that each service has for its exporters
          sent,   \* spans that the exporters have sent
          lost,   \* history: spans that were with a service when it was killed
          exits

vars == <<x, spans, calls, batch, sent, lost, exits>>

\* The value of a header: a span and whether its trace is sampled.  A span of the
\* platform, or none, is 0.
Header(span, sampled) == [span |-> span, sampled |-> sampled]
None     == Header(-1, FALSE)
Platform == {Header(0, sampled) : sampled \in BOOLEAN}

Call(to, from, traceparent, original, googclient) ==
    [to |-> to, from |-> from, traceparent |-> traceparent,
     original |-> original, googclient |-> googclient]

\* Somebody asks one of the services.
Init == /\ x \in 0 .. Scale - 1
        /\ spans = <<>>
        /\ calls \in {{Call(s, 0, h, None, None)} : s \in Services, h \in Platform}
        /\ batch = [s \in Services |-> {}]
        /\ sent = {}
        /\ lost = {}
        /\ exits = 0

-----------------------------------------------------------------------------
\* ParentBased(AlwaysSample()): as the parent says.
Span(service, parent, from, genai) ==
    [service |-> service, parent |-> parent.span, from |-> from, sampled |-> parent.sampled,
     genai |-> genai, at |-> "open"]

StartSpan(service, parent, from, genai) ==
    /\ Len(spans) < MaxSpans
    /\ spans' = Append(spans, Span(service, parent, from, genai))

\* restoreTraceparentHeader: that of a message, else that of the service that asks,
\* else what the platform wrote.
Restored(c) == IF c.googclient # None THEN c.googclient
               ELSE IF c.original # None THEN c.original ELSE c.traceparent

\* Handler: a span for what is served.  A message may come again.
Serve(c) ==
    /\ c \in calls
    /\ StartSpan(c.to, Restored(c), c.from, FALSE)
    /\ calls' \in {calls \ {c}} \union IF c.googclient = None THEN {} ELSE {calls}
    /\ UNCHANGED <<x, batch, sent, lost, exits>>

Open(i) == spans[i].at = "open"

\* What the service does on the way: a call of a model has an attribute gen_ai.*.
Work(i, genai) ==
    /\ Open(i)
    /\ StartSpan(spans[i].service, Header(i, spans[i].sampled), i, genai)
    /\ UNCHANGED <<x, calls, batch, sent, lost, exits>>

\* The transport: otelhttp's span for the request, injected into traceparent (over
\* what useGoogClientTraceparent may have put there) and preserved in
\* original-traceparent before the platform gets it; or the client of Pub/Sub, which
\* puts it into the attributes of the message.  The span that instrumentRequest
\* begins around it is a Work of the caller's, which then is the one that asks.
Ask(i, to, viaPubSub) ==
    LET mine == Header(Len(spans) + 1, spans[i].sampled)
    IN  /\ Open(i)
        /\ StartSpan(spans[i].service, Header(i, spans[i].sampled), i, FALSE)
        /\ \E h \in Platform :
              calls' = calls \union
                  {IF viaPubSub THEN Call(to, mine.span, h, None, mine) ELSE Call(to, mine.span, h, mine, None)}
        /\ UNCHANGED <<x, batch, sent, lost, exits>>

-----------------------------------------------------------------------------
\* newSamplingProcessor.
Threshold(s) == IF Rate[s] >= Scale THEN Scale ELSE IF Rate[s] <= 0 THEN 0 ELSE Rate[s]

Entry(kind, name) == [kind |-> kind, name |-> name]

\* selectExporters: Cloud Trace if nothing is said, and it is there; what is said
\* may be a list of nothing.
selectExporters(s) == IF s \in Configured THEN Range(Entries[s])
                      ELSE {e \in {Entry("gcp", "")} : OnGCP}

\* newOTLPProcessor: a name without an endpoint is skipped, as is what is unknown.
Exporters(s) ==
    {e \in selectExporters(s) : e.kind = "gcp" \/ (e.kind = "otlp" /\ e.name \in Endpoints \union {""})}

\* Mutant: the first span of a service is kept if the service that asked has sampled it.
Keeps_Remote(e, i) ==
    IF e.kind = "gcp"
    THEN \/ x < Threshold(spans[i].service)
         \/ spans[i].parent # 0 /\ spans[spans[i].parent].service # spans[i].service
    ELSE spans[i].genai

\* OnEnd of samplingSpanProcessor and of llmSpanFilterProcessor.
Keeps(e, i) == IF e.kind = "gcp" THEN x < Threshold(spans[i].service) ELSE spans[i].genai

Kept(i) == {<<e, i>> : e \in {f \in Exporters(spans[i].service) : Keeps(f, i)}}

\* Spans end in any order: one of a request may end after that of the handler.
End(i) ==
    /\ Open(i)
    /\ spans' = [spans EXCEPT ![i].at = "ended"]
    /\ batch' = IF spans[i].sampled
                THEN [batch EXCEPT ![spans[i].service] = @ \union Kept(i)] ELSE batch
    /\ UNCHANGED <<x, calls, sent, lost, exits>>

\* The batch processors send what they have.
Flush(s) ==
    /\ batch[s] # {}
    /\ sent' = sent \union batch[s]
    /\ batch' = [batch EXCEPT ![s] = {}]
    /\ UNCHANGED <<x, spans, calls, lost, exits>>

\* The service returns from main, and SetupTracer's function shuts the provider
\* down; or it is killed.  What it had open is never ended.
Exit(s, clean) ==
    /\ exits < MaxExits
    /\ exits' = exits + 1
    /\ spans' = [i \in DOMAIN spans |-> IF spans[i].service = s /\ Open(i)
                                        THEN [spans[i] EXCEPT !.at = "gone"] ELSE spans[i]]
    /\ batch' = [batch EXCEPT ![s] = {}]
    /\ IF clean THEN sent' = sent \union batch[s] /\ UNCHANGED lost
                ELSE lost' = lost \union batch[s] /\ UNCHANGED sent
    /\ UNCHANGED <<x, calls>>

Next == \/ \E c \in calls : Serve(c)
        \/ \E i \in DOMAIN spans : \/ End(i)
                                   \/ \E genai \in BOOLEAN : Work(i, genai)
                                   \/ \E to \in Services, viaPubSub \in BOOLEAN : Ask(i, to, viaPubSub)
        \/ \E s \in Services : Flush(s) \/ \E clean \in BOOLEAN : Exit(s, clean)

Spec == Init /\ [][Next]_vars

-----------------------------------------------------------------------------
(***************************************************************************)
(* Properties                                                              *)
(***************************************************************************)

TypeOK == /\ x \in 0 .. Scale - 1
          /\ Len(spans) <= MaxSpans
          /\ \A i \in DOMAIN spans : /\ spans[i].service \in Services
                                     /\ spans[i].parent \in 0 .. i - 1
                                     /\ spans[i].at \in {"open", "ended", "gone"}
          /\ \A k \in sent \union lost : k[2] \in DOMAIN spans
          /\ exits \in 0 .. MaxExits

Ended(i) == spans[i].at = "ended" /\ spans[i].sampled
Has(e, i) == <<e, i>> \in sent \union lost \union batch[spans[i].service]

\* A span hangs on the one that asked for it, whatever the platform wrote and
\* however often a message came, and the whole trace is sampled or not.
UnderItsCaller ==
    \A i \in DOMAIN spans : /\ spans[i].parent = spans[i].from
                            /\ spans[i].sampled = spans[1].sampled

Of(kind, i) == {e \in Exporters(spans[i].service) : e.kind = kind}

\* "Every span in a trace is kept or dropped together -- no orphan roots": those
\* that have ended, in all services of one rate; and one with a lower rate keeps
\* nothing of a trace of which one with a higher rate has dropped a span.
KeptTogether ==
    \A i, j \in DOMAIN spans : \A e \in Of("gcp", i), f \in Of("gcp", j) :
        Ended(j) /\ Has(e, i) /\ Rate[spans[i].service] <= Rate[spans[j].service] => Has(f, j)

\* Each OTLP backend gets the calls of models, all of them and nothing else.
OnlyModels ==
    \A i \in DOMAIN spans : \A e \in Of("otlp", i) : Has(e, i) = (Ended(i) /\ spans[i].genai)

OneTree == UnderItsCaller /\ KeptTogether /\ OnlyModels
=============================================================================
