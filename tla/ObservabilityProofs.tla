------------------------ MODULE ObservabilityProofs ------------------------
(***************************************************************************)
(* Proofs about what is measured, traced and logged: a trace, for any      *)
(* services, rates and exporters, and any number of spans, messages that   *)
(* come again, and ends of services; the metrics of any number of requests *)
(* that are sent and served; a call of git with any limit, and any number  *)
(* of bytes, in any pieces.                                                *)
(***************************************************************************)
EXTENDS Observability, FiniteSets, FiniteSetTheorems, TLAPS

-----------------------------------------------------------------------------
(***************************************************************************)
(* A trace                                                                 *)
(***************************************************************************)

HeaderType == [span : Int, sampled : BOOLEAN]
CallType   == [to : Services, from : Int, traceparent : HeaderType,
               original : HeaderType, googclient : HeaderType]
SpanType   == [service : Services, parent : Int, from : Int, sampled : BOOLEAN,
               genai : BOOLEAN, at : {"open", "ended", "gone"}]
Sendable   == (UNION {Exporters(s) : s \in Services}) \X Nat

Types == /\ x \in 0 .. Scale - 1
         /\ spans \in Seq(SpanType)
         /\ calls \subseteq CallType
         /\ batch \in [Services -> SUBSET Sendable]
         /\ sent \subseteq Sendable
         /\ lost \subseteq Sendable

\* A request or a message tells its receiver who asks, and what all others tell of
\* the trace.
CallsInv ==
    /\ \A c \in calls : Restored(c).span = c.from
    /\ \A c, d \in calls : Restored(c).sampled = Restored(d).sampled
    /\ \A c \in calls, i \in DOMAIN spans : Restored(c).sampled = spans[i].sampled

\* The spans hang on their callers, and are sampled as all others.
TreeInv ==
    /\ \A i \in DOMAIN spans : spans[i].parent = spans[i].from
    /\ \A i, j \in DOMAIN spans : spans[i].sampled = spans[j].sampled

\* Spans are with their service, sent or lost when their exporter keeps them.
KeptInv ==
    /\ \A s \in Services : \A k \in batch[s] : k[2] \in DOMAIN spans /\ spans[k[2]].service = s
    /\ \A k \in sent \union lost : k[2] \in DOMAIN spans
    /\ \A i \in DOMAIN spans : \A e \in Exporters(spans[i].service) :
          Has(e, i) <=> (Ended(i) /\ Keeps(e, i))

TraceInv == Types /\ CallsInv /\ TreeInv /\ KeptInv

-----------------------------------------------------------------------------
\* The headers of a call are headers.
LEMMA RestoredType ==
    ASSUME NEW c \in CallType
    PROVE  Restored(c) \in HeaderType
BY DEF Restored, CallType

\* A span has what every span has.
LEMMA SpanTyped ==
    ASSUME Types, NEW i \in DOMAIN spans
    PROVE  spans[i] \in SpanType /\ i \in Nat
<1>1. spans \in Seq(SpanType)
  BY DEF Types
<1>2. QED
  BY <1>1

\* A span that is started comes last and leaves the others as they are.
LEMMA StartLast ==
    ASSUME Types, NEW service \in Services, NEW parent \in HeaderType, NEW from \in Int,
           NEW genai \in BOOLEAN, StartSpan(service, parent, from, genai)
    PROVE  LET n == Len(spans)
               s == Span(service, parent, from, genai)
           IN  /\ n \in Nat /\ DOMAIN spans = 1 .. n /\ DOMAIN spans' = 1 .. n + 1
               /\ spans' \in Seq(SpanType)
               /\ \A i \in 1 .. n : spans'[i] = spans[i]
               /\ spans'[n + 1] = s
<1> DEFINE s == Span(service, parent, from, genai)
<1>1. s \in SpanType
  BY DEF Span, SpanType, HeaderType
<1>2. spans \in Seq(SpanType) /\ spans' = Append(spans, s)
  BY DEF Types, StartSpan
<1> HIDE DEF s
<1>3. QED
  BY <1>1, <1>2 DEF s

\* A span that has not ended is nowhere, and what is kept of the others stays.
LEMMA StartKept ==
    ASSUME Types, KeptInv, NEW service \in Services, NEW parent \in HeaderType, NEW from \in Int,
           NEW genai \in BOOLEAN, StartSpan(service, parent, from, genai),
           UNCHANGED <<x, batch, sent, lost>>
    PROVE  KeptInv'
<1> DEFINE n == Len(spans)
<1>1. /\ n \in Nat /\ DOMAIN spans = 1 .. n /\ DOMAIN spans' = 1 .. n + 1
      /\ \A i \in 1 .. n : spans'[i] = spans[i]
      /\ spans'[n + 1] = Span(service, parent, from, genai)
  BY StartLast
<1>2. /\ \A t \in Services : \A k \in batch[t] : k[2] \in 1 .. n /\ spans[k[2]].service = t
      /\ \A k \in sent \union lost : k[2] \in 1 .. n
  BY <1>1 DEF KeptInv
<1>3. /\ \A t \in Services : \A k \in batch'[t] : k[2] \in DOMAIN spans' /\ spans'[k[2]].service = t
      /\ \A k \in sent' \union lost' : k[2] \in DOMAIN spans'
  BY <1>1, <1>2
<1>4. ASSUME NEW i \in 1 .. n + 1, NEW e \in Exporters(spans'[i].service)
      PROVE  Has(e, i)' <=> (Ended(i)' /\ Keeps(e, i)')
  <2>1. CASE i \in 1 .. n
    <3>1. spans'[i] = spans[i] /\ e \in Exporters(spans[i].service) /\ i \in DOMAIN spans
      BY <1>1, <1>4, <2>1
    <3>2. Has(e, i) <=> (Ended(i) /\ Keeps(e, i))
      BY <3>1 DEF KeptInv
    <3>3. QED
      BY <3>1, <3>2 DEF Has, Ended, Keeps, Threshold
  <2>2. CASE i = n + 1
    <3>1. spans'[i].at = "open" /\ spans'[i].service = service
      BY <1>1, <2>2 DEF Span
    <3>2. ~Ended(i)'
      BY <3>1 DEF Ended
    <3>3. <<e, i>> \notin sent' \union lost' \union batch'[service]
      BY <1>1, <1>2, <2>2
    <3>4. QED
      BY <3>1, <3>2, <3>3 DEF Has
  <2>3. QED
    BY <1>1, <2>1, <2>2
<1>5. QED
  BY <1>1, <1>3, <1>4 DEF KeptInv

\* What is served hangs on who asked.
LEMMA ServeInv ==
    ASSUME ConstantsAssumption, TraceInv, NEW c \in calls, Serve(c)
    PROVE  TraceInv'
<1> DEFINE n == Len(spans)
           h == Restored(c)
<1>1. c \in CallType /\ c.to \in Services /\ c.from \in Int /\ h \in HeaderType
  BY RestoredType DEF TraceInv, Types, CallType
<1>2. StartSpan(c.to, h, c.from, FALSE) /\ UNCHANGED <<x, batch, sent, lost>> /\ calls' \subseteq calls
  BY DEF Serve
<1>3. Types /\ CallsInv /\ TreeInv /\ KeptInv
  BY DEF TraceInv
<1>4. /\ n \in Nat /\ DOMAIN spans = 1 .. n /\ DOMAIN spans' = 1 .. n + 1
      /\ spans' \in Seq(SpanType)
      /\ \A i \in 1 .. n : spans'[i] = spans[i]
      /\ spans'[n + 1] = Span(c.to, h, c.from, FALSE)
  BY <1>1, <1>2, <1>3, StartLast
<1>5. spans'[n + 1].parent = c.from /\ spans'[n + 1].from = c.from /\ spans'[n + 1].sampled = h.sampled
  BY <1>3, <1>4 DEF Span, CallsInv
<1>6. Types'
  BY <1>2, <1>3, <1>4 DEF Types
<1>7. /\ \A d \in calls : Restored(d).sampled = h.sampled /\ Restored(d).span = d.from
      /\ \A i \in 1 .. n : spans[i].sampled = h.sampled /\ spans[i].parent = spans[i].from
  BY <1>3, <1>4 DEF CallsInv, TreeInv
<1>8. \A i \in DOMAIN spans' : spans'[i].sampled = h.sampled /\ spans'[i].parent = spans'[i].from
  <2>1. TAKE i \in DOMAIN spans'
  <2>2. i \in 1 .. n \/ i = n + 1
    BY <1>4
  <2>3. QED
    BY <1>4, <1>5, <1>7, <2>2
<1>9. \A d \in calls' : Restored(d).sampled = h.sampled /\ Restored(d).span = d.from
  BY <1>2, <1>7
<1>10. CallsInv' /\ TreeInv'
  BY <1>8, <1>9 DEF CallsInv, TreeInv
<1>11. KeptInv'
  BY <1>1, <1>2, <1>3, StartKept
<1>12. QED
  BY <1>6, <1>10, <1>11 DEF TraceInv

\* A span below one of the same service.
LEMMA ChildInv ==
    ASSUME ConstantsAssumption, TraceInv, NEW i \in DOMAIN spans, NEW genai \in BOOLEAN,
           StartSpan(spans[i].service, Header(i, spans[i].sampled), i, genai),
           UNCHANGED <<x, batch, sent, lost>>
    PROVE  /\ spans' \in Seq(SpanType) /\ TreeInv' /\ KeptInv'
           /\ Len(spans) \in Nat
           /\ \A j \in DOMAIN spans' : spans'[j].sampled = spans[i].sampled
<1> DEFINE n == Len(spans)
           h == Header(i, spans[i].sampled)
<1>1. Types /\ TreeInv /\ KeptInv
  BY DEF TraceInv
<1>2. spans[i] \in SpanType /\ i \in Int
  BY <1>1 DEF Types
<1>3. spans[i].service \in Services /\ h \in HeaderType
  BY <1>2 DEF SpanType, HeaderType, Header
<1>4. /\ n \in Nat /\ DOMAIN spans = 1 .. n /\ DOMAIN spans' = 1 .. n + 1
      /\ spans' \in Seq(SpanType)
      /\ \A j \in 1 .. n : spans'[j] = spans[j]
      /\ spans'[n + 1] = Span(spans[i].service, h, i, genai)
  BY <1>1, <1>2, <1>3, StartLast
<1>5. spans'[n + 1].parent = i /\ spans'[n + 1].from = i /\ spans'[n + 1].sampled = spans[i].sampled
  BY <1>4 DEF Span, Header
<1>6. \A j \in DOMAIN spans' : spans'[j].sampled = spans[i].sampled /\ spans'[j].parent = spans'[j].from
  BY <1>1, <1>4, <1>5 DEF TreeInv
<1>7. TreeInv'
  BY <1>6 DEF TreeInv
<1>8. KeptInv'
  BY <1>1, <1>2, <1>3, StartKept
<1>9. QED
  BY <1>4, <1>6, <1>7, <1>8

\* The calls stay as they are.
LEMMA WorkInv ==
    ASSUME ConstantsAssumption, TraceInv, NEW i \in DOMAIN spans, NEW genai \in BOOLEAN, Work(i, genai)
    PROVE  TraceInv'
<1>1. /\ StartSpan(spans[i].service, Header(i, spans[i].sampled), i, genai)
      /\ UNCHANGED <<x, calls, batch, sent, lost>>
  BY DEF Work
<1>2. /\ spans' \in Seq(SpanType) /\ TreeInv' /\ KeptInv'
      /\ \A j \in DOMAIN spans' : spans'[j].sampled = spans[i].sampled
  BY <1>1, ChildInv
<1>3. /\ \A c \in calls : Restored(c).span = c.from /\ Restored(c).sampled = spans[i].sampled
      /\ Types
  BY DEF TraceInv, CallsInv
<1>4. CallsInv'
  BY <1>1, <1>2, <1>3 DEF CallsInv
<1>5. Types'
  BY <1>1, <1>2, <1>3 DEF Types
<1>6. QED
  BY <1>2, <1>4, <1>5 DEF TraceInv

\* Whatever the platform writes, the receiver will take the header of the span that asks.
LEMMA AskInv ==
    ASSUME ConstantsAssumption, TraceInv, NEW i \in DOMAIN spans, NEW to \in Services,
           NEW viaPubSub \in BOOLEAN, Ask(i, to, viaPubSub)
    PROVE  TraceInv'
<1> DEFINE n    == Len(spans)
           mine == Header(n + 1, spans[i].sampled)
           new(h) == IF viaPubSub THEN Call(to, mine.span, h, None, mine)
                                  ELSE Call(to, mine.span, h, mine, None)
<1>1. /\ StartSpan(spans[i].service, Header(i, spans[i].sampled), i, FALSE)
      /\ UNCHANGED <<x, batch, sent, lost>>
  BY DEF Ask
<1>2. /\ spans' \in Seq(SpanType) /\ TreeInv' /\ KeptInv' /\ n \in Nat
      /\ \A j \in DOMAIN spans' : spans'[j].sampled = spans[i].sampled
  BY <1>1, ChildInv
<1>3. PICK h \in Platform : calls' = calls \union {new(h)}
  BY DEF Ask
<1>4. Types /\ \A c \in calls : Restored(c).span = c.from /\ Restored(c).sampled = spans[i].sampled
  BY DEF TraceInv, CallsInv
<1>5. spans[i].sampled \in BOOLEAN
  BY <1>4, SpanTyped DEF SpanType
<1>6. h \in HeaderType /\ mine \in HeaderType /\ None \in HeaderType /\ mine # None
  BY <1>2, <1>5 DEF Platform, HeaderType, Header, None
<1>7. new(h) \in CallType /\ Restored(new(h)) = mine /\ new(h).from = mine.span
  BY <1>2, <1>6 DEF Call, CallType, Restored, HeaderType
<1>8. Restored(new(h)).span = new(h).from /\ Restored(new(h)).sampled = spans[i].sampled
  BY <1>7 DEF Header
<1> HIDE DEF new
<1>9. \A c \in calls' : Restored(c).span = c.from /\ Restored(c).sampled = spans[i].sampled
  BY <1>3, <1>4, <1>8
<1>10. CallsInv'
  BY <1>2, <1>9 DEF CallsInv
<1>11. Types'
  BY <1>1, <1>2, <1>3, <1>4, <1>7 DEF Types
<1>12. QED
  BY <1>2, <1>10, <1>11 DEF TraceInv

\* A span that ends is handed to the exporters that keep it, and to no other.
LEMMA EndInv ==
    ASSUME ConstantsAssumption, TraceInv, NEW i \in DOMAIN spans, End(i)
    PROVE  TraceInv'
<1> DEFINE s == spans[i].service
<1>1. Types /\ CallsInv /\ TreeInv /\ KeptInv
  BY DEF TraceInv
<1>2. /\ spans[i] \in SpanType /\ s \in Services /\ i \in Nat
  BY <1>1, SpanTyped DEF SpanType
<1>3. /\ spans' = [spans EXCEPT ![i].at = "ended"]
      /\ batch' = IF spans[i].sampled THEN [batch EXCEPT ![s] = @ \union Kept(i)] ELSE batch
      /\ UNCHANGED <<x, calls, sent, lost>>
      /\ spans[i].at = "open"
  BY DEF End, Open
<1>4. /\ spans' \in Seq(SpanType) /\ DOMAIN spans' = DOMAIN spans
      /\ \A j \in DOMAIN spans : /\ spans'[j].service = spans[j].service
                                 /\ spans'[j].parent = spans[j].parent
                                 /\ spans'[j].from = spans[j].from
                                 /\ spans'[j].sampled = spans[j].sampled
                                 /\ spans'[j].genai = spans[j].genai
                                 /\ j # i => spans'[j].at = spans[j].at
      /\ spans'[i].at = "ended"
  <2> DEFINE ended == [spans[i] EXCEPT !.at = "ended"]
  <2>1. /\ ended \in SpanType /\ ended.at = "ended"
        /\ ended.service = spans[i].service /\ ended.parent = spans[i].parent
        /\ ended.from = spans[i].from /\ ended.sampled = spans[i].sampled
        /\ ended.genai = spans[i].genai
    BY <1>2 DEF SpanType
  <2>2. spans \in Seq(SpanType) /\ spans' = [spans EXCEPT ![i] = ended]
    BY <1>1, <1>3 DEF Types
  <2> HIDE DEF ended
  <2>3. /\ spans' \in Seq(SpanType) /\ DOMAIN spans' = DOMAIN spans
        /\ spans'[i] = ended /\ \A j \in DOMAIN spans : j # i => spans'[j] = spans[j]
    BY <2>1, <2>2
  <2>4. QED
    BY <2>1, <2>3
<1>5. Kept(i) \subseteq Sendable /\ \A k \in Kept(i) : k[2] = i
  BY <1>2 DEF Kept, Sendable
<1>6. Types'
  BY <1>1, <1>2, <1>3, <1>4, <1>5 DEF Types
<1>7. CallsInv'
  BY <1>1, <1>3, <1>4 DEF CallsInv
<1>8. TreeInv'
  BY <1>1, <1>4 DEF TreeInv
<1>9. /\ \A t \in Services : batch'[t] = IF t = s /\ spans[i].sampled THEN batch[t] \union Kept(i) ELSE batch[t]
  BY <1>1, <1>2, <1>3 DEF Types
<1>10. /\ \A t \in Services : \A k \in batch'[t] : k[2] \in DOMAIN spans' /\ spans'[k[2]].service = t
       /\ \A k \in sent' \union lost' : k[2] \in DOMAIN spans'
  BY <1>1, <1>3, <1>4, <1>5, <1>9 DEF KeptInv
<1>11. ASSUME NEW j \in DOMAIN spans, NEW e \in Exporters(spans[j].service)
       PROVE  Has(e, j)' <=> (Ended(j)' /\ Keeps(e, j)')
  <2>1. Keeps(e, j)' <=> Keeps(e, j)
    BY <1>3, <1>4 DEF Keeps, Threshold
  <2>2. Has(e, j) <=> (Ended(j) /\ Keeps(e, j))
    BY <1>1, <1>11 DEF KeptInv
  <2>3. spans[j].service \in Services /\ spans[j].sampled \in BOOLEAN
    BY <1>1, SpanTyped DEF SpanType
  <2>4. CASE j = i
    <3>1. ~Has(e, i)
      BY <1>3, <2>2, <2>4 DEF Ended
    <3>2. <<e, i>> \in Kept(i) <=> Keeps(e, i)
      BY <1>11, <2>4 DEF Kept
    <3>3. Has(e, i)' <=> (spans[i].sampled /\ Keeps(e, i))
      <4>1. <<e, i>> \notin sent \union lost /\ <<e, i>> \notin batch[s]
        BY <3>1 DEF Has
      <4>2. Has(e, i)' <=> <<e, i>> \in batch'[s]
        BY <1>3, <1>4, <4>1 DEF Has
      <4>3. batch'[s] = IF spans[i].sampled THEN batch[s] \union Kept(i) ELSE batch[s]
        BY <1>2, <1>9
      <4>4. QED
        BY <4>1, <4>2, <4>3, <3>2
    <3>4. Ended(i)' <=> spans[i].sampled
      BY <1>2, <1>4 DEF Ended
    <3>5. QED
      BY <2>1, <2>4, <3>3, <3>4
  <2>5. CASE j # i
    <3>1. <<e, j>> \notin Kept(i)
      BY <1>5, <2>5
    <3>2. Has(e, j)' <=> Has(e, j)
      BY <1>3, <1>4, <1>9, <2>3, <3>1 DEF Has
    <3>3. Ended(j)' <=> Ended(j)
      BY <1>4, <2>5 DEF Ended
    <3>4. QED
      BY <2>1, <2>2, <3>2, <3>3
  <2>6. QED
    BY <2>4, <2>5
<1>12. KeptInv'
  BY <1>4, <1>10, <1>11 DEF KeptInv
<1>13. QED
  BY <1>6, <1>7, <1>8, <1>12 DEF TraceInv

\* What leaves a batch is sent or lost, and is of the service.
LEMMA LeaveKept ==
    ASSUME TraceInv, NEW s \in Services,
           spans' \in Seq(SpanType), DOMAIN spans' = DOMAIN spans,
           \A i \in DOMAIN spans : /\ spans'[i].service = spans[i].service
                                   /\ spans'[i].parent = spans[i].parent
                                   /\ spans'[i].from = spans[i].from
                                   /\ spans'[i].sampled = spans[i].sampled
                                   /\ spans'[i].genai = spans[i].genai
                                   /\ spans'[i].at = "ended" <=> spans[i].at = "ended",
           batch' = [batch EXCEPT ![s] = {}],
           sent' \union lost' = sent \union lost \union batch[s],
           UNCHANGED <<x, calls>>
    PROVE  TraceInv'
<1>1. Types /\ CallsInv /\ TreeInv /\ KeptInv
  BY DEF TraceInv
<1>2. \A t \in Services : batch'[t] = IF t = s THEN {} ELSE batch[t]
  BY <1>1 DEF Types
<1>3. sent' \subseteq Sendable /\ lost' \subseteq Sendable
  BY <1>1 DEF Types
<1>4. Types'
  BY <1>1, <1>2, <1>3 DEF Types
<1>5. CallsInv' /\ TreeInv'
  BY <1>1 DEF CallsInv, TreeInv
<1>6. /\ \A t \in Services : \A k \in batch'[t] : k[2] \in DOMAIN spans' /\ spans'[k[2]].service = t
      /\ \A k \in sent' \union lost' : k[2] \in DOMAIN spans'
  BY <1>1, <1>2 DEF KeptInv
<1>7. ASSUME NEW i \in DOMAIN spans, NEW e \in Exporters(spans[i].service)
      PROVE  Has(e, i)' <=> (Ended(i)' /\ Keeps(e, i)')
  <2>1. Has(e, i) <=> (Ended(i) /\ Keeps(e, i))
    BY <1>1, <1>7 DEF KeptInv
  <2>2. (Ended(i)' <=> Ended(i)) /\ (Keeps(e, i)' <=> Keeps(e, i))
    BY DEF Ended, Keeps, Threshold
  <2>3. spans[i].service \in Services
    BY <1>1, SpanTyped DEF SpanType
  <2>4. <<e, i>> \in batch[s] => spans[i].service = s
    BY <1>1 DEF KeptInv
  <2>5. Has(e, i)' <=> Has(e, i)
    BY <1>2, <2>3, <2>4 DEF Has
  <2>6. QED
    BY <2>1, <2>2, <2>5
<1>8. KeptInv'
  BY <1>6, <1>7 DEF KeptInv
<1>9. QED
  BY <1>4, <1>5, <1>8 DEF TraceInv

\* What is sent is no longer with the service.
LEMMA FlushInv ==
    ASSUME TraceInv, NEW s \in Services, Flush(s)
    PROVE  TraceInv'
<1>1. /\ UNCHANGED <<x, spans, calls, lost>> /\ sent' = sent \union batch[s]
      /\ batch' = [batch EXCEPT ![s] = {}]
  BY DEF Flush
<1>2. spans' \in Seq(SpanType)
  BY <1>1 DEF TraceInv, Types
<1>3. QED
  BY <1>1, <1>2, LeaveKept

\* A service that ends sends or loses what it has, and ends none of its open spans.
LEMMA ExitInv ==
    ASSUME TraceInv, NEW s \in Services, NEW clean \in BOOLEAN, Exit(s, clean)
    PROVE  TraceInv'
<1>1. /\ spans' = [i \in DOMAIN spans |-> IF spans[i].service = s /\ Open(i)
                                          THEN [spans[i] EXCEPT !.at = "gone"] ELSE spans[i]]
      /\ batch' = [batch EXCEPT ![s] = {}]
      /\ sent' \union lost' = sent \union lost \union batch[s]
      /\ UNCHANGED <<x, calls>>
  BY DEF Exit
<1>2. /\ Len(spans) \in Nat /\ DOMAIN spans = 1 .. Len(spans)
      /\ \A i \in DOMAIN spans : spans[i] \in SpanType
  BY DEF TraceInv, Types
<1>3. \A i \in DOMAIN spans : /\ spans'[i] \in SpanType
                              /\ spans'[i].service = spans[i].service
                              /\ spans'[i].parent = spans[i].parent
                              /\ spans'[i].from = spans[i].from
                              /\ spans'[i].sampled = spans[i].sampled
                              /\ spans'[i].genai = spans[i].genai
                              /\ spans'[i].at = "ended" <=> spans[i].at = "ended"
  BY <1>1, <1>2 DEF SpanType, Open
<1>4. spans' \in Seq(SpanType) /\ DOMAIN spans' = DOMAIN spans
  BY <1>1, <1>2, <1>3
<1>5. QED
  BY <1>1, <1>3, <1>4, LeaveKept
-----------------------------------------------------------------------------
\* The one call there is at first comes with what the platform wrote.
LEMMA InitInv ==
    ASSUME ConstantsAssumption, Init
    PROVE  TraceInv
<1>1. PICK s \in Services, h \in Platform : calls = {Call(s, 0, h, None, None)}
  BY DEF Init
<1>2. h \in HeaderType /\ None \in HeaderType /\ h.span = 0
  BY DEF Platform, HeaderType, Header, None
<1> DEFINE c == Call(s, 0, h, None, None)
<1>3. c \in CallType /\ Restored(c) = h /\ c.from = 0
  BY <1>2 DEF Call, CallType, Restored
<1> HIDE DEF c
<1>4. calls = {c} /\ spans = <<>>
  BY <1>1 DEF Init, c
<1>5. Types
  BY <1>3, <1>4 DEF Init, Types
<1>6. CallsInv
  BY <1>2, <1>3, <1>4 DEF CallsInv
<1>7. TreeInv
  BY <1>4 DEF TreeInv
<1>8. KeptInv
  BY <1>4 DEF KeptInv, Init
<1>9. QED
  BY <1>5, <1>6, <1>7, <1>8 DEF TraceInv

\* Every step keeps the invariant.
LEMMA NextInv ==
    ASSUME ConstantsAssumption, TraceInv, [Next]_vars
    PROVE  TraceInv'
<1>1. ASSUME NEW c \in calls, Serve(c)
      PROVE  TraceInv'
  BY <1>1, ServeInv
<1>2. ASSUME NEW i \in DOMAIN spans, End(i)
      PROVE  TraceInv'
  BY <1>2, EndInv
<1>3. ASSUME NEW i \in DOMAIN spans, NEW genai \in BOOLEAN, Work(i, genai)
      PROVE  TraceInv'
  BY <1>3, WorkInv
<1>4. ASSUME NEW i \in DOMAIN spans, NEW to \in Services, NEW viaPubSub \in BOOLEAN, Ask(i, to, viaPubSub)
      PROVE  TraceInv'
  BY <1>4, AskInv
<1>5. ASSUME NEW s \in Services, Flush(s)
      PROVE  TraceInv'
  BY <1>5, FlushInv
<1>6. ASSUME NEW s \in Services, NEW clean \in BOOLEAN, Exit(s, clean)
      PROVE  TraceInv'
  BY <1>6, ExitInv
<1>7. CASE UNCHANGED vars
  BY <1>7 DEF vars, TraceInv, Types, CallsInv, TreeInv, KeptInv, Has, Ended, Keeps, Threshold
<1>8. QED
  BY <1>1, <1>2, <1>3, <1>4, <1>5, <1>6, <1>7 DEF Next

\* A service with a higher rate keeps all that one with a lower rate keeps.
LEMMA ThresholdGrows ==
    ASSUME ConstantsAssumption, NEW s \in Services, NEW t \in Services, Rate[s] <= Rate[t]
    PROVE  Threshold(s) <= Threshold(t)
BY DEF ConstantsAssumption, Threshold

\* What the invariant says of all spans, OneTree asks of some.
LEMMA InvIsOneTree ==
    ASSUME ConstantsAssumption, TraceInv
    PROVE  OneTree
<1>1. Types /\ TreeInv /\ KeptInv
  BY DEF TraceInv
<1>2. UnderItsCaller
  <2>1. ASSUME NEW i \in DOMAIN spans
        PROVE  1 \in DOMAIN spans
    <3>1. Len(spans) \in Nat /\ DOMAIN spans = 1 .. Len(spans)
      BY <1>1 DEF Types
    <3>2. QED
      BY <3>1
  <2>2. QED
    BY <1>1, <2>1 DEF TreeInv, UnderItsCaller
<1>3. KeptTogether
  <2>1. SUFFICES ASSUME NEW i \in DOMAIN spans, NEW j \in DOMAIN spans,
                        NEW e \in Of("gcp", i), NEW f \in Of("gcp", j),
                        Ended(j), Has(e, i), Rate[spans[i].service] <= Rate[spans[j].service]
                 PROVE  Has(f, j)
    BY DEF KeptTogether
  <2>2. /\ e \in Exporters(spans[i].service) /\ e.kind = "gcp"
        /\ f \in Exporters(spans[j].service) /\ f.kind = "gcp"
    BY DEF Of
  <2>3. x < Threshold(spans[i].service)
    BY <1>1, <2>1, <2>2 DEF KeptInv, Keeps
  <2>4. spans[i].service \in Services /\ spans[j].service \in Services
    BY <1>1, SpanTyped DEF SpanType
  <2>5. x < Threshold(spans[j].service)
    <3>1. Threshold(spans[i].service) <= Threshold(spans[j].service)
      BY <2>1, <2>4, ThresholdGrows
    <3>2. Threshold(spans[i].service) \in Int /\ Threshold(spans[j].service) \in Int
      BY <2>4 DEF Threshold, ConstantsAssumption
    <3>3. x \in Int
      BY <1>1 DEF Types, ConstantsAssumption
    <3>4. QED
      BY <2>3, <3>1, <3>2, <3>3
  <2>6. QED
    BY <1>1, <2>1, <2>2, <2>5 DEF KeptInv, Keeps
<1>4. OnlyModels
  <2>1. SUFFICES ASSUME NEW i \in DOMAIN spans, NEW e \in Of("otlp", i)
                 PROVE  Has(e, i) = (Ended(i) /\ spans[i].genai)
    BY DEF OnlyModels
  <2>2. e \in Exporters(spans[i].service) /\ e.kind # "gcp"
    BY DEF Of
  <2>3. Has(e, i) <=> (Ended(i) /\ spans[i].genai)
    BY <1>1, <2>2 DEF KeptInv, Keeps
  <2>4. spans[i].genai \in BOOLEAN
    BY <1>1, SpanTyped DEF SpanType
  <2>5. QED
    BY <2>3, <2>4 DEF Has, Ended
<1>5. QED
  BY <1>2, <1>3, <1>4 DEF OneTree

\* A span, and a call, comes from a span that was there before, or from the platform.
BoundedInv ==
    /\ Len(spans) <= MaxSpans
    /\ exits \in 0 .. MaxExits
    /\ \A c \in calls : c.from \in 0 .. Len(spans)
    /\ \A i \in DOMAIN spans : spans[i].from \in 0 .. i - 1

\* One span more, which comes from one of those that were there.
LEMMA StartBounded ==
    ASSUME ConstantsAssumption, Types, BoundedInv, NEW service \in Services, NEW parent \in HeaderType,
           NEW from \in 0 .. Len(spans), NEW genai \in BOOLEAN,
           StartSpan(service, parent, from, genai), UNCHANGED exits,
           \A c \in calls' : c \in calls \/ c.from = Len(spans) + 1
    PROVE  BoundedInv'
<1> DEFINE n == Len(spans)
<1>1. /\ n \in Nat /\ DOMAIN spans = 1 .. n /\ DOMAIN spans' = 1 .. n + 1
      /\ spans' \in Seq(SpanType)
      /\ \A i \in 1 .. n : spans'[i] = spans[i]
      /\ spans'[n + 1] = Span(service, parent, from, genai)
  <2>1. n \in Nat
    BY DEF Types
  <2>2. from \in Int
    BY <2>1
  <2>3. QED
    BY <2>2, StartLast
<1>2. Len(spans') = n + 1
  BY <1>1
<1>3. n < MaxSpans /\ MaxSpans \in Nat
  BY DEF StartSpan, ConstantsAssumption
<1>4. Len(spans') <= MaxSpans
  BY <1>1, <1>2, <1>3
<1>5. \A c \in calls' : c.from \in 0 .. Len(spans')
  BY <1>1, <1>2 DEF BoundedInv
<1>6. \A i \in DOMAIN spans' : spans'[i].from \in 0 .. i - 1
  <2>1. TAKE i \in DOMAIN spans'
  <2>2. CASE i \in 1 .. n
    BY <1>1, <2>2 DEF BoundedInv
  <2>3. CASE i = n + 1
    BY <1>1, <2>3 DEF Span
  <2>4. QED
    BY <1>1, <2>1, <2>2, <2>3
<1>7. QED
  BY <1>4, <1>5, <1>6 DEF BoundedInv

\* The spans come from where they came.
LEMMA StayBounded ==
    ASSUME Types, BoundedInv, spans' \in Seq(SpanType), DOMAIN spans' = DOMAIN spans,
           \A i \in DOMAIN spans : spans'[i].from = spans[i].from,
           UNCHANGED calls, exits' \in 0 .. MaxExits
    PROVE  BoundedInv'
<1>1. spans \in Seq(SpanType)
  BY DEF Types
<1>2. Len(spans') = Len(spans)
  BY <1>1
<1>3. QED
  BY <1>2 DEF BoundedInv

\* Every step keeps the bounds.
LEMMA NextBounded ==
    ASSUME ConstantsAssumption, TraceInv, BoundedInv, [Next]_vars
    PROVE  BoundedInv'
<1>1. Types
  BY DEF TraceInv
<1>2. Len(spans) \in Nat /\ DOMAIN spans = 1 .. Len(spans) /\ spans \in Seq(SpanType)
  BY <1>1 DEF Types
<1>3. ASSUME NEW c \in calls, Serve(c)
      PROVE  BoundedInv'
  <2>1. c \in CallType /\ c.to \in Services /\ Restored(c) \in HeaderType
    BY <1>1, RestoredType DEF Types, CallType
  <2>2. c.from \in 0 .. Len(spans)
    BY DEF BoundedInv
  <2>3. StartSpan(c.to, Restored(c), c.from, FALSE) /\ UNCHANGED exits /\ calls' \subseteq calls
    BY <1>3 DEF Serve
  <2>4. QED
    BY <1>1, <2>1, <2>2, <2>3, StartBounded
<1>4. ASSUME NEW i \in DOMAIN spans, NEW genai \in BOOLEAN,
             StartSpan(spans[i].service, Header(i, spans[i].sampled), i, genai), UNCHANGED exits,
             \A c \in calls' : c \in calls \/ c.from = Len(spans) + 1
      PROVE  BoundedInv'
  <2>1. spans[i].service \in Services /\ Header(i, spans[i].sampled) \in HeaderType /\ i \in 0 .. Len(spans)
    BY <1>1, <1>2, SpanTyped DEF SpanType, Header, HeaderType
  <2>2. QED
    BY <1>1, <1>4, <2>1, StartBounded
<1>5. ASSUME NEW i \in DOMAIN spans, NEW genai \in BOOLEAN, Work(i, genai)
      PROVE  BoundedInv'
  BY <1>4, <1>5 DEF Work
<1>6. ASSUME NEW i \in DOMAIN spans, NEW to \in Services, NEW viaPubSub \in BOOLEAN, Ask(i, to, viaPubSub)
      PROVE  BoundedInv'
  <2>1. \A c \in calls' : c \in calls \/ c.from = Len(spans) + 1
    BY <1>6 DEF Ask, Header, Call
  <2>2. QED
    BY <1>4, <1>6, <2>1 DEF Ask
<1>7. ASSUME NEW i \in DOMAIN spans, End(i)
      PROVE  BoundedInv'
  <2>1. spans' = [spans EXCEPT ![i].at = "ended"] /\ UNCHANGED <<calls, exits>>
    BY <1>7 DEF End
  <2>2. DOMAIN spans' = DOMAIN spans /\ \A j \in DOMAIN spans : spans'[j].from = spans[j].from
    BY <1>1, <1>2, <2>1, SpanTyped DEF SpanType
  <2>3. TraceInv'
    BY <1>7, EndInv
  <2>4. QED
    BY <1>1, <2>1, <2>2, <2>3, StayBounded DEF TraceInv, Types, BoundedInv
<1>8. ASSUME NEW s \in Services, Flush(s)
      PROVE  BoundedInv'
  BY <1>8 DEF Flush, BoundedInv
<1>9. ASSUME NEW s \in Services, NEW clean \in BOOLEAN, Exit(s, clean)
      PROVE  BoundedInv'
  <2>1. /\ spans' = [i \in DOMAIN spans |-> IF spans[i].service = s /\ Open(i)
                                            THEN [spans[i] EXCEPT !.at = "gone"] ELSE spans[i]]
        /\ exits < MaxExits /\ exits' = exits + 1 /\ UNCHANGED calls
    BY <1>9 DEF Exit
  <2>2. DOMAIN spans' = DOMAIN spans /\ \A j \in DOMAIN spans : spans'[j].from = spans[j].from
    BY <1>1, <2>1, SpanTyped DEF SpanType
  <2>3. exits' \in 0 .. MaxExits
    BY <2>1 DEF BoundedInv, ConstantsAssumption
  <2>4. TraceInv'
    BY <1>9, ExitInv
  <2>5. QED
    BY <1>1, <2>1, <2>2, <2>3, <2>4, StayBounded DEF TraceInv, Types
<1>10. CASE UNCHANGED vars
  BY <1>10 DEF vars, BoundedInv
<1>11. QED
  BY <1>3, <1>5, <1>6, <1>7, <1>8, <1>9, <1>10 DEF Next

\* Nothing has been started.
LEMMA InitBounded ==
    ASSUME ConstantsAssumption, Init
    PROVE  BoundedInv
<1>1. spans = <<>> /\ exits = 0 /\ \A c \in calls : c.from = 0
  BY DEF Init, Call
<1>2. QED
  BY <1>1 DEF BoundedInv, ConstantsAssumption

\* A span's parent is where it comes from.
LEMMA InvIsTyped ==
    ASSUME TraceInv, BoundedInv
    PROVE  TypeOK
<1>1. Types /\ TreeInv /\ KeptInv
  BY DEF TraceInv
<1>2. ASSUME NEW i \in DOMAIN spans
      PROVE  /\ spans[i].service \in Services
             /\ spans[i].parent \in 0 .. i - 1
             /\ spans[i].at \in {"open", "ended", "gone"}
  <2>1. spans[i] \in SpanType
    BY <1>1, SpanTyped
  <2>2. QED
    BY <1>1, <2>1 DEF SpanType, TreeInv, BoundedInv
<1>3. QED
  BY <1>1, <1>2 DEF Types, KeptInv, BoundedInv, TypeOK

-----------------------------------------------------------------------------
(***************************************************************************)
(* Counting the requests                                                   *)
(***************************************************************************)

\* HttpMetrics and ServerMetrics count with the Cardinality of FiniteSets.
LEMMA SameCount ==
    /\ \A A : H!Cardinality(A) = Cardinality(A)
    /\ \A A : S!Cardinality(A) = Cardinality(A)
    /\ \A A : H!IsFiniteSet(A) <=> IsFiniteSet(A)
    /\ \A A : S!IsFiniteSet(A) <=> IsFiniteSet(A)
BY DEF H!Cardinality, S!Cardinality, Cardinality, H!IsFiniteSet, S!IsFiniteSet, IsFiniteSet

\* Some of the requests are as many as a number that is at most all of them.
LEMMA HowMany ==
    ASSUME IsFiniteSet(Requests), NEW A \in SUBSET Requests
    PROVE  /\ IsFiniteSet(A)
           /\ Cardinality(A) \in Nat /\ Cardinality(Requests) \in Nat
           /\ Cardinality(A) \in 0 .. Cardinality(Requests)
<1>1. IsFiniteSet(A) /\ Cardinality(A) <= Cardinality(Requests)
  BY FS_Subset
<1>2. Cardinality(A) \in Nat /\ Cardinality(Requests) \in Nat
  BY <1>1, FS_CardinalityType
<1>3. QED
  BY <1>1, <1>2

\* A step of one request: the others are where they were.
LEMMA OneOfThem ==
    ASSUME IsFiniteSet(Requests), NEW A \in SUBSET Requests, NEW B \in SUBSET Requests,
           NEW r \in Requests, \A q \in Requests \ {r} : q \in B <=> q \in A
    PROVE  /\ (r \in A <=> r \in B) => Cardinality(B) = Cardinality(A)
           /\ r \notin A /\ r \in B => Cardinality(B) = Cardinality(A) + 1
           /\ r \in A /\ r \notin B => Cardinality(B) = Cardinality(A) - 1
<1>1. IsFiniteSet(A) /\ IsFiniteSet(B)
  BY HowMany
<1>2. CASE r \in A <=> r \in B
  <2>1. A = B
    BY <1>2
  <2>2. QED
    BY <1>2, <2>1
<1>3. CASE r \notin A /\ r \in B
  <2>1. B = A \union {r}
    BY <1>3
  <2>2. QED
    BY <1>1, <1>3, <2>1, FS_AddElement
<1>4. CASE r \in A /\ r \notin B
  <2>1. B = A \ {r}
    BY <1>4
  <2>2. QED
    BY <1>1, <1>4, <2>1, FS_RemoveElement
<1>5. QED
  BY <1>2, <1>3, <1>4

\* A counter of some that goes up or down.
LEMMA UpOrDown ==
    ASSUME NEW D, NEW f \in [D -> Int], NEW m \in D, NEW g,
           NEW n \in Int, g = [f EXCEPT ![m] = @ + n]
    PROVE  g \in [D -> Int] /\ \A k \in D : g[k] = f[k] + (IF k = m THEN n ELSE 0)
OBVIOUS

-----------------------------------------------------------------------------
(***************************************************************************)
(* ServerMetrics: what is measured is what is served                       *)
(***************************************************************************)

Stages == {"new", "handler", "sized", "counted", "timed", "done", "panicked"}
Served == [at : Stages, token : S!Tokens, email : S!Emails, status : S!Codes,
           seen : S!Codes \union {"nothing"}, again : BOOLEAN]

\* Where a request is while each of the measures has it.
Being    == {"handler", "sized", "counted", "timed"}
Sized    == {"sized", "counted", "timed", "done"}
Coded    == {"counted", "timed", "done"}
Timed    == {"timed", "done"}

In(stages, e)  == {q \in Requests : served[q].at \in stages /\ served[q].email = e}
InCode(e, c)   == {q \in In(Coded, e) : served[q].status = c}

ServerTypes == /\ provider \in {"unasked", "there", "none"}
               /\ wrapped \in [Handlers -> {"no", "verifies", "does not"}]
               /\ served \in [Requests -> Served]
               /\ serving \in [S!Emails -> Int] /\ sized \in [S!Emails -> Int]
               /\ timed \in [S!Emails -> Int]
               /\ status \in [S!Emails \X S!Codes -> Int]

\* Each measure is the number of the requests it has.
Measured ==
    \A e \in S!Emails :
        /\ serving[e] = Cardinality(In(Being, e))
        /\ sized[e] = Cardinality(In(Sized, e))
        /\ timed[e] = Cardinality(In(Timed, e))
        /\ \A c \in S!Codes : status[<<e, c>>] = Cardinality(InCode(e, c))

\* What the caller saw of a handler that wrote one header, and who it is.
Truthful(q) ==
    /\ ~q.again => q.seen = q.status \/ (q.seen = "nothing" /\ q.status = "200")
    /\ q.at = "done" => q.seen # "nothing"
    /\ q.email = "caller" => q.token = "google"

ServerInv == /\ ServerTypes
             /\ Measured
             /\ \A r \in Requests : Truthful(served[r])

\* Whether a measure has a request, as a number.
One(q, stages, e) == IF q.at \in stages /\ q.email = e THEN 1 ELSE 0
OneCode(q, e, c)  == IF q.at \in Coded /\ q.email = e /\ q.status = c THEN 1 ELSE 0

\* A step of one request changes what has it, and by one.
LEMMA OneServed ==
    ASSUME S!ConstantsAssumption, ServerTypes, NEW r \in Requests, NEW q \in Served,
           served' = [served EXCEPT ![r] = q],
           NEW stages, NEW e, NEW c
    PROVE  /\ Cardinality(In(stages, e)') =
                  Cardinality(In(stages, e)) + One(q, stages, e) - One(served[r], stages, e)
           /\ Cardinality(InCode(e, c)') =
                  Cardinality(InCode(e, c)) + OneCode(q, e, c) - OneCode(served[r], e, c)
<1>1. IsFiniteSet(Requests)
  BY SameCount DEF S!ConstantsAssumption
<1>2. served'[r] = q /\ \A o \in Requests \ {r} : served'[o] = served[o]
  BY DEF ServerTypes
<1>3. ASSUME NEW A \in SUBSET Requests, NEW B \in SUBSET Requests,
             \A o \in Requests \ {r} : o \in B <=> o \in A
      PROVE  /\ Cardinality(A) \in Int
             /\ Cardinality(B) = Cardinality(A) + (IF r \in B THEN 1 ELSE 0) - (IF r \in A THEN 1 ELSE 0)
  BY <1>1, <1>3, HowMany, OneOfThem
<1>4. Cardinality(In(stages, e)') =
          Cardinality(In(stages, e)) + One(q, stages, e) - One(served[r], stages, e)
  <2>1. \A o \in Requests \ {r} : o \in In(stages, e)' <=> o \in In(stages, e)
    BY <1>2 DEF In
  <2>2. /\ r \in In(stages, e)' <=> q.at \in stages /\ q.email = e
        /\ r \in In(stages, e) <=> served[r].at \in stages /\ served[r].email = e
    BY <1>2 DEF In
  <2>3. In(stages, e) \in SUBSET Requests /\ In(stages, e)' \in SUBSET Requests
    BY DEF In
  <2>4. QED
    BY <1>3, <2>1, <2>2, <2>3 DEF One
<1>5. Cardinality(InCode(e, c)') =
          Cardinality(InCode(e, c)) + OneCode(q, e, c) - OneCode(served[r], e, c)
  <2>1. \A o \in Requests \ {r} : o \in InCode(e, c)' <=> o \in InCode(e, c)
    BY <1>2 DEF InCode, In
  <2>2. /\ r \in InCode(e, c)' <=> q.at \in Coded /\ q.email = e /\ q.status = c
        /\ r \in InCode(e, c) <=> served[r].at \in Coded /\ served[r].email = e /\ served[r].status = c
    BY <1>2 DEF InCode, In
  <2>3. InCode(e, c) \in SUBSET Requests
    BY DEF InCode, In
  <2>4. InCode(e, c)' \in SUBSET Requests
    BY DEF InCode, In
  <2>5. QED
    BY <1>3, <2>1, <2>2, <2>3, <2>4 DEF OneCode
<1>6. QED
  BY <1>4, <1>5

\* A measure that changes with what it has stays true.
LEMMA StaysMeasured ==
    ASSUME S!ConstantsAssumption, ServerInv, NEW r \in Requests, NEW q \in Served,
           served' = [served EXCEPT ![r] = q], Truthful(q),
           UNCHANGED <<provider, wrapped>>,
           serving' \in [S!Emails -> Int], sized' \in [S!Emails -> Int],
           timed' \in [S!Emails -> Int], status' \in [S!Emails \X S!Codes -> Int],
           \A e \in S!Emails :
               /\ serving'[e] = serving[e] + One(q, Being, e) - One(served[r], Being, e)
               /\ sized'[e] = sized[e] + One(q, Sized, e) - One(served[r], Sized, e)
               /\ timed'[e] = timed[e] + One(q, Timed, e) - One(served[r], Timed, e)
               /\ \A c \in S!Codes :
                     status'[<<e, c>>] = status[<<e, c>>] + OneCode(q, e, c) - OneCode(served[r], e, c)
    PROVE  ServerInv'
<1>1. ServerTypes'
  BY DEF ServerInv, ServerTypes
<1>2. Measured'
  <2>1. \A stages, e, c :
            /\ Cardinality(In(stages, e)') =
                   Cardinality(In(stages, e)) + One(q, stages, e) - One(served[r], stages, e)
            /\ Cardinality(InCode(e, c)') =
                   Cardinality(InCode(e, c)) + OneCode(q, e, c) - OneCode(served[r], e, c)
    BY OneServed DEF ServerInv
  <2>2. ASSUME NEW e \in S!Emails
        PROVE  /\ serving'[e] = Cardinality(In(Being, e)')
               /\ sized'[e] = Cardinality(In(Sized, e)')
               /\ timed'[e] = Cardinality(In(Timed, e)')
               /\ \A c \in S!Codes : status'[<<e, c>>] = Cardinality(InCode(e, c)')
    <3>1. /\ Cardinality(In(Being, e)') = serving'[e]
          /\ Cardinality(In(Sized, e)') = sized'[e]
          /\ Cardinality(In(Timed, e)') = timed'[e]
      BY <2>1 DEF ServerInv, Measured
    <3>2. ASSUME NEW c \in S!Codes
          PROVE  status'[<<e, c>>] = Cardinality(InCode(e, c)')
      BY <2>1 DEF ServerInv, Measured
    <3>3. QED
      BY <3>1, <3>2
  <2>3. QED
    BY <2>2 DEF Measured, In, InCode, Being, Sized, Timed, Coded
<1>3. \A o \in Requests : Truthful(served[o])'
  <2>1. \A o \in Requests : Truthful(served'[o])
    BY DEF ServerInv, ServerTypes
  <2>2. QED
    BY <2>1 DEF Truthful
<1>4. QED
  BY <1>1, <1>2, <1>3 DEF ServerInv

\* Nothing is served, and nothing measured.
LEMMA InitServerInv ==
    ASSUME S!ConstantsAssumption
    PROVE  S!Init => ServerInv
<1> SUFFICES ASSUME S!Init PROVE ServerInv
  OBVIOUS
<1>1. ServerTypes
  <2>1. S!Unserved \in Served
    BY DEF S!Unserved, Served, Stages, S!Tokens, S!Emails, S!Codes
  <2>2. status \in [S!Emails \X S!Codes -> Int]
    BY DEF S!Init
  <2>3. QED
    BY <2>1, <2>2 DEF S!Init, ServerTypes
<1>2. Measured
  <2>1. \A q \in Requests : served[q].at = "new"
    BY DEF S!Init, S!Unserved
  <2>2. /\ \A e \in S!Emails : In(Being, e) = {} /\ In(Sized, e) = {} /\ In(Timed, e) = {}
        /\ \A e \in S!Emails, c \in S!Codes : InCode(e, c) = {}
    BY <2>1 DEF In, InCode, Being, Sized, Timed, Coded
  <2>3. \A e \in S!Emails : \A c \in S!Codes : <<e, c>> \in S!Emails \X S!Codes
    OBVIOUS
  <2>4. \A e \in S!Emails : /\ serving[e] = 0 /\ sized[e] = 0 /\ timed[e] = 0
                            /\ \A c \in S!Codes : status[<<e, c>>] = 0
    BY <2>3 DEF S!Init
  <2>5. QED
    BY <2>2, <2>4, FS_EmptySet DEF Measured
<1>3. \A r \in Requests : Truthful(served[r])
  BY DEF S!Init, S!Unserved, Truthful
<1>4. QED
  BY <1>1, <1>2, <1>3 DEF ServerInv

\* A handler that is wrapped is asked for nothing yet.
LEMMA WrapInv ==
    ASSUME ServerInv, NEW h \in Handlers, NEW reachable \in BOOLEAN, S!Wrap(h, reachable)
    PROVE  ServerInv'
<1>1. ServerTypes'
  BY DEF ServerInv, ServerTypes, S!Wrap
<1>2. QED
  BY <1>1 DEF ServerInv, Measured, In, InCode, Truthful, S!Wrap

\* A request comes in, and whoever sends it says who it is.
LEMMA HandlesInv ==
    ASSUME S!ConstantsAssumption, ServerInv,
           NEW r \in Requests, NEW h \in Handlers, NEW token \in S!Tokens, S!Serve(r, h, token)
    PROVE  ServerInv'
<1> DEFINE m == S!EmailOf(h, token)
           q == [served[r] EXCEPT !.at = "handler", !.token = token, !.email = m]
<1>1. served[r] \in Served /\ served[r].at = "new" /\ Truthful(served[r])
  BY DEF S!Serve, ServerInv, ServerTypes
<1>2. m \in S!Emails /\ (m = "caller" => token = "google")
  BY DEF S!EmailOf, S!Emails
<1>3. q \in Served /\ q.at = "handler" /\ q.email = m
  BY <1>1, <1>2 DEF Served, Stages
<1>4. Truthful(q)
  BY <1>1, <1>2, <1>3 DEF Truthful, Served
<1>5. /\ served' = [served EXCEPT ![r] = q]
      /\ serving' = [serving EXCEPT ![m] = @ + 1]
      /\ UNCHANGED <<provider, wrapped, sized, status, timed>>
  BY DEF S!Serve
<1> HIDE DEF q, m
<1>6. \A e \in S!Emails : /\ One(q, Being, e) = (IF e = m THEN 1 ELSE 0) /\ One(served[r], Being, e) = 0
                          /\ One(q, Sized, e) = 0 /\ One(served[r], Sized, e) = 0
                          /\ One(q, Timed, e) = 0 /\ One(served[r], Timed, e) = 0
                          /\ \A c \in S!Codes : OneCode(q, e, c) = 0 /\ OneCode(served[r], e, c) = 0
  BY <1>1, <1>3 DEF One, OneCode, Being, Sized, Timed, Coded
<1>7. serving' \in [S!Emails -> Int]
      /\ \A e \in S!Emails : serving'[e] = serving[e] + (IF e = m THEN 1 ELSE 0)
  <2>1. serving \in [S!Emails -> Int]
    BY DEF ServerInv, ServerTypes
  <2>2. QED
    BY <1>2, <1>5, <2>1, UpOrDown
<1>8. \A e \in S!Emails : /\ sized[e] \in Int /\ timed[e] \in Int /\ serving[e] \in Int
                          /\ \A c \in S!Codes : status[<<e, c>>] \in Int
  BY DEF ServerInv, ServerTypes
<1>9. QED
  <2>1. \A e \in S!Emails :
            /\ serving'[e] = serving[e] + One(q, Being, e) - One(served[r], Being, e)
            /\ sized'[e] = sized[e] + One(q, Sized, e) - One(served[r], Sized, e)
            /\ timed'[e] = timed[e] + One(q, Timed, e) - One(served[r], Timed, e)
            /\ \A c \in S!Codes :
                  status'[<<e, c>>] = status[<<e, c>>] + OneCode(q, e, c) - OneCode(served[r], e, c)
    BY <1>5, <1>6, <1>7, <1>8
  <2>2. /\ sized' \in [S!Emails -> Int] /\ timed' \in [S!Emails -> Int]
        /\ status' \in [S!Emails \X S!Codes -> Int]
    BY <1>5 DEF ServerInv, ServerTypes
  <2>3. QED
    BY <1>3, <1>4, <1>5, <1>7, <2>1, <2>2, StaysMeasured

\* The handler writes its status, or bytes, which are a status of 200.
LEMMA WritesInv ==
    ASSUME S!ConstantsAssumption, ServerInv, NEW r \in Requests,
           \/ \E code \in S!Codes : S!WriteHeader(r, code)
           \/ S!Write(r)
    PROVE  ServerInv'
<1>1. served[r] \in Served /\ served[r].at = "handler" /\ Truthful(served[r])
  BY DEF S!Write, S!WriteHeader, ServerInv, ServerTypes
<1>2. PICK q \in Served : /\ served' = [served EXCEPT ![r] = q]
                          /\ q.at = "handler" /\ q.email = served[r].email
                          /\ Truthful(q)
  <2>1. ASSUME NEW code \in S!Codes, S!WriteHeader(r, code)
        PROVE  \E q \in Served : /\ served' = [served EXCEPT ![r] = q]
                                 /\ q.at = "handler" /\ q.email = served[r].email
                                 /\ Truthful(q)
    <3> DEFINE q == [served[r] EXCEPT !.status = code, !.again = served[r].seen # "nothing",
                                      !.seen = IF @ = "nothing" THEN code ELSE @]
    <3>1. q \in Served /\ q.at = "handler" /\ q.email = served[r].email
      BY <1>1 DEF Served
    <3>2. /\ q.status = code /\ q.again = (served[r].seen # "nothing") /\ q.token = served[r].token
          /\ q.seen = (IF served[r].seen = "nothing" THEN code ELSE served[r].seen)
      BY <1>1 DEF Served
    <3>3. served' = [served EXCEPT ![r] = q]
      BY <2>1 DEF S!WriteHeader
    <3> HIDE DEF q
    <3>4. Truthful(q)
      BY <1>1, <3>1, <3>2 DEF Truthful, Served, S!Codes
    <3>5. QED
      BY <3>1, <3>3, <3>4
  <2>2. ASSUME S!Write(r)
        PROVE  \E q \in Served : /\ served' = [served EXCEPT ![r] = q]
                                 /\ q.at = "handler" /\ q.email = served[r].email
                                 /\ Truthful(q)
    <3> DEFINE q == [served[r] EXCEPT !.seen = IF @ = "nothing" THEN "200" ELSE @]
    <3>1. q \in Served /\ q.at = "handler" /\ q.email = served[r].email
      BY <1>1 DEF Served, S!Codes
    <3>2. /\ q.status = served[r].status /\ q.again = served[r].again /\ q.token = served[r].token
          /\ q.seen = (IF served[r].seen = "nothing" THEN "200" ELSE served[r].seen)
      BY <1>1 DEF Served
    <3>3. served' = [served EXCEPT ![r] = q]
      BY <2>2 DEF S!Write
    <3> HIDE DEF q
    <3>4. Truthful(q)
      BY <1>1, <3>1, <3>2 DEF Truthful, Served, S!Codes
    <3>5. QED
      BY <3>1, <3>3, <3>4
  <2>3. QED
    BY <2>1, <2>2
<1>3. UNCHANGED <<provider, wrapped, serving, sized, status, timed>>
  BY DEF S!Write, S!WriteHeader
<1>4. /\ \A stages, e : One(q, stages, e) = One(served[r], stages, e)
      /\ \A e, c : OneCode(q, e, c) = 0 /\ OneCode(served[r], e, c) = 0
  BY <1>1, <1>2 DEF One, OneCode, Coded
<1>5. \A e \in S!Emails : /\ sized[e] \in Int /\ timed[e] \in Int /\ serving[e] \in Int
                          /\ \A c \in S!Codes : status[<<e, c>>] \in Int
  BY DEF ServerInv, ServerTypes
<1>6. \A stages, e : One(served[r], stages, e) \in Int
  BY DEF One
<1>7. \A e \in S!Emails :
          /\ serving'[e] = serving[e] + One(q, Being, e) - One(served[r], Being, e)
          /\ sized'[e] = sized[e] + One(q, Sized, e) - One(served[r], Sized, e)
          /\ timed'[e] = timed[e] + One(q, Timed, e) - One(served[r], Timed, e)
          /\ \A c \in S!Codes :
                status'[<<e, c>>] = status[<<e, c>>] + OneCode(q, e, c) - OneCode(served[r], e, c)
  BY <1>3, <1>4, <1>5, <1>6
<1>8. /\ serving' \in [S!Emails -> Int] /\ sized' \in [S!Emails -> Int] /\ timed' \in [S!Emails -> Int]
      /\ status' \in [S!Emails \X S!Codes -> Int]
  BY <1>3 DEF ServerInv, ServerTypes
<1>9. QED
  BY <1>2, <1>3, <1>7, <1>8, StaysMeasured

\* The steps of the wrappers, and a panic: a request goes on and says the same.
LEMMA GoesOnInv ==
    ASSUME S!ConstantsAssumption, ServerInv, NEW r \in Requests,
           \/ S!Return(r) \/ S!CountStatus(r) \/ S!ObserveDuration(r) \/ S!Leave(r) \/ S!Panic(r)
    PROVE  ServerInv'
<1> DEFINE m == served[r].email
           d == served[r].status
<1>1. served[r] \in Served /\ Truthful(served[r]) /\ m \in S!Emails /\ d \in S!Codes
  BY DEF ServerInv, ServerTypes, Served
<1>2. <<m, d>> \in S!Emails \X S!Codes
  BY <1>1
<1>3. \A e \in S!Emails : /\ sized[e] \in Int /\ timed[e] \in Int /\ serving[e] \in Int
                          /\ \A c \in S!Codes : status[<<e, c>>] \in Int
  BY DEF ServerInv, ServerTypes
<1>4. UNCHANGED <<provider, wrapped>>
  BY DEF S!Return, S!CountStatus, S!ObserveDuration, S!Leave, S!Panic
<1> DEFINE Moved(q, from, to) == /\ served' = [served EXCEPT ![r] = q]
                                 /\ served[r].at = from /\ q.at = to
                                 /\ q.email = m /\ q.status = d
                                 /\ Truthful(q)
<1>5. ASSUME S!Return(r)
      PROVE  ServerInv'
  <2> DEFINE q == [served[r] EXCEPT !.at = "sized"]
  <2>1. q \in Served /\ Moved(q, "handler", "sized")
    BY <1>1, <1>5 DEF S!Return, Served, Stages, Truthful
  <2>2. /\ sized' = [sized EXCEPT ![m] = @ + 1]
        /\ UNCHANGED <<serving, status, timed>>
    BY <1>5 DEF S!Return
  <2> HIDE DEF q, m, d
  <2>3. \A e \in S!Emails : /\ One(q, Being, e) = One(served[r], Being, e) /\ One(q, Being, e) \in Int
                            /\ One(q, Sized, e) = (IF e = m THEN 1 ELSE 0) /\ One(served[r], Sized, e) = 0
                            /\ One(q, Timed, e) = 0 /\ One(served[r], Timed, e) = 0
                            /\ \A c \in S!Codes : OneCode(q, e, c) = 0 /\ OneCode(served[r], e, c) = 0
    BY <2>1 DEF One, OneCode, Being, Sized, Timed, Coded, m
  <2>4. sized' \in [S!Emails -> Int]
        /\ \A e \in S!Emails : sized'[e] = sized[e] + (IF e = m THEN 1 ELSE 0)
    <3>1. sized \in [S!Emails -> Int]
      BY DEF ServerInv, ServerTypes
    <3>2. QED
      BY <1>1, <2>2, <3>1, UpOrDown
  <2>5. \A e \in S!Emails :
            /\ serving'[e] = serving[e] + One(q, Being, e) - One(served[r], Being, e)
            /\ sized'[e] = sized[e] + One(q, Sized, e) - One(served[r], Sized, e)
            /\ timed'[e] = timed[e] + One(q, Timed, e) - One(served[r], Timed, e)
            /\ \A c \in S!Codes :
                  status'[<<e, c>>] = status[<<e, c>>] + OneCode(q, e, c) - OneCode(served[r], e, c)
    BY <1>3, <2>2, <2>3, <2>4
  <2>6. /\ serving' \in [S!Emails -> Int] /\ timed' \in [S!Emails -> Int]
        /\ status' \in [S!Emails \X S!Codes -> Int]
    BY <2>2 DEF ServerInv, ServerTypes
  <2>7. QED
    BY <1>4, <2>1, <2>4, <2>5, <2>6, StaysMeasured
<1>6. ASSUME S!CountStatus(r)
      PROVE  ServerInv'
  <2> DEFINE q == [served[r] EXCEPT !.at = "counted"]
  <2>1. q \in Served /\ Moved(q, "sized", "counted")
    BY <1>1, <1>6 DEF S!CountStatus, Served, Stages, Truthful
  <2>2. /\ status' = [status EXCEPT ![<<m, d>>] = @ + 1]
        /\ UNCHANGED <<serving, sized, timed>>
    BY <1>6 DEF S!CountStatus
  <2> HIDE DEF q, m, d
  <2>3. \A e \in S!Emails : /\ One(q, Being, e) = One(served[r], Being, e) /\ One(q, Being, e) \in Int
                            /\ One(q, Sized, e) = One(served[r], Sized, e) /\ One(q, Sized, e) \in Int
                            /\ One(q, Timed, e) = 0 /\ One(served[r], Timed, e) = 0
                            /\ \A c \in S!Codes : /\ OneCode(q, e, c) = (IF e = m /\ c = d THEN 1 ELSE 0)
                                                  /\ OneCode(served[r], e, c) = 0
    BY <2>1 DEF One, OneCode, Being, Sized, Timed, Coded, m, d
  <2>4. /\ status' \in [S!Emails \X S!Codes -> Int]
        /\ \A e \in S!Emails, c \in S!Codes :
              status'[<<e, c>>] = status[<<e, c>>] + (IF e = m /\ c = d THEN 1 ELSE 0)
    <3>1. /\ status' \in [S!Emails \X S!Codes -> Int]
          /\ \A k \in S!Emails \X S!Codes : status'[k] = status[k] + (IF k = <<m, d>> THEN 1 ELSE 0)
      <4>1. status \in [S!Emails \X S!Codes -> Int]
        BY DEF ServerInv, ServerTypes
      <4>2. QED
        BY <1>2, <2>2, <4>1, UpOrDown
    <3>2. \A e \in S!Emails, c \in S!Codes : /\ <<e, c>> \in S!Emails \X S!Codes
                                             /\ <<e, c>> = <<m, d>> <=> e = m /\ c = d
      OBVIOUS
    <3>3. QED
      BY <3>1, <3>2
  <2>5. \A e \in S!Emails :
            /\ serving'[e] = serving[e] + One(q, Being, e) - One(served[r], Being, e)
            /\ sized'[e] = sized[e] + One(q, Sized, e) - One(served[r], Sized, e)
            /\ timed'[e] = timed[e] + One(q, Timed, e) - One(served[r], Timed, e)
            /\ \A c \in S!Codes :
                  status'[<<e, c>>] = status[<<e, c>>] + OneCode(q, e, c) - OneCode(served[r], e, c)
    BY <1>3, <2>2, <2>3, <2>4
  <2>6. serving' \in [S!Emails -> Int] /\ sized' \in [S!Emails -> Int] /\ timed' \in [S!Emails -> Int]
    BY <2>2 DEF ServerInv, ServerTypes
  <2>7. QED
    BY <1>4, <2>1, <2>4, <2>5, <2>6, StaysMeasured
<1>7. ASSUME S!ObserveDuration(r)
      PROVE  ServerInv'
  <2> DEFINE q == [served[r] EXCEPT !.at = "timed"]
  <2>1. q \in Served /\ Moved(q, "counted", "timed")
    BY <1>1, <1>7 DEF S!ObserveDuration, Served, Stages, Truthful
  <2>2. /\ timed' = [timed EXCEPT ![m] = @ + 1]
        /\ UNCHANGED <<serving, sized, status>>
    BY <1>7 DEF S!ObserveDuration
  <2> HIDE DEF q, m, d
  <2>3. \A e \in S!Emails : /\ One(q, Being, e) = One(served[r], Being, e) /\ One(q, Being, e) \in Int
                            /\ One(q, Sized, e) = One(served[r], Sized, e) /\ One(q, Sized, e) \in Int
                            /\ One(q, Timed, e) = (IF e = m THEN 1 ELSE 0) /\ One(served[r], Timed, e) = 0
                            /\ \A c \in S!Codes : /\ OneCode(q, e, c) = OneCode(served[r], e, c)
                                                  /\ OneCode(q, e, c) \in Int
    BY <2>1 DEF One, OneCode, Being, Sized, Timed, Coded, m, d
  <2>4. timed' \in [S!Emails -> Int]
        /\ \A e \in S!Emails : timed'[e] = timed[e] + (IF e = m THEN 1 ELSE 0)
    <3>1. timed \in [S!Emails -> Int]
      BY DEF ServerInv, ServerTypes
    <3>2. QED
      BY <1>1, <2>2, <3>1, UpOrDown
  <2>5. \A e \in S!Emails :
            /\ serving'[e] = serving[e] + One(q, Being, e) - One(served[r], Being, e)
            /\ sized'[e] = sized[e] + One(q, Sized, e) - One(served[r], Sized, e)
            /\ timed'[e] = timed[e] + One(q, Timed, e) - One(served[r], Timed, e)
            /\ \A c \in S!Codes :
                  status'[<<e, c>>] = status[<<e, c>>] + OneCode(q, e, c) - OneCode(served[r], e, c)
    BY <1>3, <2>2, <2>3, <2>4
  <2>6. /\ serving' \in [S!Emails -> Int] /\ sized' \in [S!Emails -> Int]
        /\ status' \in [S!Emails \X S!Codes -> Int]
    BY <2>2 DEF ServerInv, ServerTypes
  <2>7. QED
    BY <1>4, <2>1, <2>4, <2>5, <2>6, StaysMeasured
<1>8. ASSUME S!Leave(r) \/ S!Panic(r)
      PROVE  ServerInv'
  <2>1. PICK q \in Served : \/ Moved(q, "timed", "done")
                            \/ Moved(q, "handler", "panicked")
    <3>1. ASSUME S!Leave(r)
          PROVE  \E q \in Served : Moved(q, "timed", "done")
      <4> DEFINE q == [served[r] EXCEPT !.at = "done", !.seen = IF @ = "nothing" THEN "200" ELSE @]
      <4>1. /\ q \in Served
            /\ q.seen = (IF served[r].seen = "nothing" THEN "200" ELSE served[r].seen)
            /\ q.at = "done" /\ q.email = m /\ q.status = d
            /\ q.again = served[r].again /\ q.token = served[r].token
        BY <1>1 DEF Served, Stages, S!Codes
      <4>2. served' = [served EXCEPT ![r] = q] /\ served[r].at = "timed"
        BY <3>1 DEF S!Leave
      <4> HIDE DEF q
      <4>3. Truthful(q)
        BY <1>1, <4>1 DEF Truthful, S!Codes
      <4>4. QED
        BY <4>1, <4>2, <4>3
    <3>2. ASSUME S!Panic(r)
          PROVE  \E q \in Served : Moved(q, "handler", "panicked")
      <4> DEFINE q == [served[r] EXCEPT !.at = "panicked"]
      <4>1. q \in Served /\ Moved(q, "handler", "panicked")
        BY <1>1, <3>2 DEF S!Panic, Served, Stages, Truthful
      <4>2. QED
        BY <4>1
    <3>3. QED
      BY <1>8, <3>1, <3>2
  <2>2. /\ serving' = [serving EXCEPT ![m] = @ - 1]
        /\ UNCHANGED <<sized, status, timed>>
    BY <1>8 DEF S!Leave, S!Panic
  <2> HIDE DEF m, d
  <2>3. \A e \in S!Emails : /\ One(q, Being, e) = 0 /\ One(served[r], Being, e) = (IF e = m THEN 1 ELSE 0)
                            /\ One(q, Sized, e) = One(served[r], Sized, e) /\ One(q, Sized, e) \in Int
                            /\ One(q, Timed, e) = One(served[r], Timed, e) /\ One(q, Timed, e) \in Int
                            /\ \A c \in S!Codes : /\ OneCode(q, e, c) = OneCode(served[r], e, c)
                                                  /\ OneCode(q, e, c) \in Int
    BY <2>1 DEF One, OneCode, Being, Sized, Timed, Coded, m, d
  <2>4. serving' \in [S!Emails -> Int]
        /\ \A e \in S!Emails : serving'[e] = serving[e] - (IF e = m THEN 1 ELSE 0)
    <3>1. serving \in [S!Emails -> Int]
      BY DEF ServerInv, ServerTypes
    <3>2. serving' = [serving EXCEPT ![m] = @ + (-1)]
      BY <1>1, <2>2, <3>1
    <3>3. QED
      BY <1>1, <3>1, <3>2, UpOrDown
  <2>5. \A e \in S!Emails :
            /\ serving'[e] = serving[e] + One(q, Being, e) - One(served[r], Being, e)
            /\ sized'[e] = sized[e] + One(q, Sized, e) - One(served[r], Sized, e)
            /\ timed'[e] = timed[e] + One(q, Timed, e) - One(served[r], Timed, e)
            /\ \A c \in S!Codes :
                  status'[<<e, c>>] = status[<<e, c>>] + OneCode(q, e, c) - OneCode(served[r], e, c)
    BY <1>3, <2>2, <2>3, <2>4
  <2>6. /\ sized' \in [S!Emails -> Int] /\ timed' \in [S!Emails -> Int]
        /\ status' \in [S!Emails \X S!Codes -> Int]
    BY <2>2 DEF ServerInv, ServerTypes
  <2>7. QED
    BY <1>4, <2>1, <2>4, <2>5, <2>6, StaysMeasured
<1>9. QED
  BY <1>5, <1>6, <1>7, <1>8

\* Every step keeps the invariant of the server.
LEMMA NextServerInv ==
    ASSUME S!ConstantsAssumption, ServerInv, [S!Next]_S!vars
    PROVE  ServerInv'
<1>1. CASE S!Next
  <2>1. ASSUME NEW h \in Handlers, NEW reachable \in BOOLEAN, S!Wrap(h, reachable)
        PROVE  ServerInv'
    BY <2>1, WrapInv
  <2>2. ASSUME NEW r \in Requests, NEW h \in Handlers, NEW token \in S!Tokens, S!Serve(r, h, token)
        PROVE  ServerInv'
    BY <2>2, HandlesInv
  <2>3. ASSUME NEW r \in Requests, S!Write(r) \/ \E code \in S!Codes : S!WriteHeader(r, code)
        PROVE  ServerInv'
    BY <2>3, WritesInv
  <2>4. ASSUME NEW r \in Requests,
               S!Return(r) \/ S!CountStatus(r) \/ S!ObserveDuration(r) \/ S!Leave(r) \/ S!Panic(r)
        PROVE  ServerInv'
    BY <2>4, GoesOnInv
  <2>5. QED
    BY <1>1, <2>1, <2>2, <2>3, <2>4 DEF S!Next
<1>2. CASE UNCHANGED S!vars
  <2>1. UNCHANGED <<provider, wrapped, served, serving, sized, status, timed>>
    BY <1>2 DEF S!vars
  <2>2. ServerTypes'
    BY <2>1 DEF ServerInv, ServerTypes
  <2>3. Measured'
    <3>1. \A stages, e, c : In(stages, e)' = In(stages, e) /\ InCode(e, c)' = InCode(e, c)
      BY <2>1 DEF In, InCode
    <3>2. QED
      BY <2>1, <3>1 DEF ServerInv, Measured, Being, Sized, Timed
  <2>4. QED
    BY <2>1, <2>2, <2>3 DEF ServerInv, Truthful
<1>3. QED
  BY <1>1, <1>2

\* Of two sets of requests, one within the other, the larger has the rest as well.
LEMMA TheRest ==
    ASSUME IsFiniteSet(Requests), NEW A \in SUBSET Requests, NEW B \in SUBSET A
    PROVE  /\ Cardinality(A) \in Int /\ Cardinality(B) \in Int
           /\ Cardinality(A) - Cardinality(B) = Cardinality(A \ B)
<1>1. IsFiniteSet(A) /\ IsFiniteSet(B)
  BY HowMany
<1>2. A \intersect B = B
  OBVIOUS
<1>3. Cardinality(A \ B) = Cardinality(A) - Cardinality(B)
  BY <1>1, <1>2, FS_Difference
<1>4. QED
  BY <1>1, <1>3, FS_CardinalityType

\* Requests whose status is counted have one of two codes.
LEMMA TwoCodes ==
    ASSUME S!ConstantsAssumption, ServerInv, NEW e \in S!Emails
    PROVE  status[<<e, "200">>] + status[<<e, "500">>] = Cardinality(In(Coded, e))
<1>1. IsFiniteSet(Requests)
  BY SameCount DEF S!ConstantsAssumption
<1>2. In(Coded, e) \ InCode(e, "200") = InCode(e, "500")
  BY DEF In, InCode, ServerInv, ServerTypes, Served, S!Codes
<1>3. In(Coded, e) \in SUBSET Requests /\ InCode(e, "200") \in SUBSET In(Coded, e)
  BY DEF In, InCode
<1>4. /\ Cardinality(In(Coded, e)) \in Int /\ Cardinality(InCode(e, "200")) \in Int
      /\ Cardinality(In(Coded, e)) - Cardinality(InCode(e, "200")) = Cardinality(InCode(e, "500"))
  BY <1>1, <1>2, <1>3, TheRest
<1>5. /\ status[<<e, "200">>] = Cardinality(InCode(e, "200"))
      /\ status[<<e, "500">>] = Cardinality(InCode(e, "500"))
  BY DEF ServerInv, Measured, S!Codes
<1>6. QED
  BY <1>4, <1>5

\* What the invariant says of the server.
LEMMA ServedIsSo ==
    ASSUME S!ConstantsAssumption, ServerInv
    PROVE  S!ServedIsTrue /\ S!TypeOK
<1>1. IsFiniteSet(Requests)
  BY SameCount DEF S!ConstantsAssumption
<1>2. \A stages, e : In(stages, e) \in SUBSET Requests /\ S!At(stages, e) = Cardinality(In(stages, e))
  BY SameCount DEF In, S!At
<1>3. S!ServedIsMeasured
  <2>1. SUFFICES ASSUME NEW e \in S!Emails
                 PROVE  /\ serving[e] = S!At({"handler", "sized", "counted", "timed"}, e)
                        /\ sized[e] - (status[<<e, "200">>] + status[<<e, "500">>]) = S!At({"sized"}, e)
                        /\ (status[<<e, "200">>] + status[<<e, "500">>]) - timed[e] = S!At({"counted"}, e)
    BY Zenon DEF S!ServedIsMeasured
  <2>2. serving[e] = S!At({"handler", "sized", "counted", "timed"}, e)
    BY <1>2 DEF ServerInv, Measured, Being
  <2>3. sized[e] - (status[<<e, "200">>] + status[<<e, "500">>]) = S!At({"sized"}, e)
    <3>1. In(Coded, e) \in SUBSET In(Sized, e) /\ In(Sized, e) \ In(Coded, e) = In({"sized"}, e)
      BY DEF In, Coded, Sized
    <3>2. Cardinality(In(Sized, e)) - Cardinality(In(Coded, e)) = Cardinality(In({"sized"}, e))
      BY <1>1, <1>2, <3>1, TheRest
    <3>3. sized[e] = Cardinality(In(Sized, e))
      BY DEF ServerInv, Measured
    <3>4. QED
      BY <1>2, <3>2, <3>3, TwoCodes
  <2>4. (status[<<e, "200">>] + status[<<e, "500">>]) - timed[e] = S!At({"counted"}, e)
    <3>1. In(Timed, e) \in SUBSET In(Coded, e) /\ In(Coded, e) \ In(Timed, e) = In({"counted"}, e)
      BY DEF In, Coded, Timed
    <3>2. Cardinality(In(Coded, e)) - Cardinality(In(Timed, e)) = Cardinality(In({"counted"}, e))
      BY <1>1, <1>2, <3>1, TheRest
    <3>3. timed[e] = Cardinality(In(Timed, e))
      BY DEF ServerInv, Measured
    <3>4. QED
      BY <1>2, <3>2, <3>3, TwoCodes
  <2>5. QED
    BY <2>2, <2>3, <2>4
<1>4. S!CodesAreSeen
  <2>1. ASSUME \A r \in Requests : ~served[r].again /\ served[r].at \in {"new", "done", "panicked"},
               NEW e \in S!Emails, NEW code \in S!Codes
        PROVE  status[<<e, code>>] = S!Saw(e, code)
    <3>1. ASSUME NEW q \in Requests, served[q].at \in Coded
          PROVE  served[q].at = "done" /\ served[q].seen = served[q].status
      BY <2>1, <3>1 DEF ServerInv, Truthful, Coded
    <3>2. InCode(e, code) = {r \in Requests : served[r].at = "done" /\ served[r].email = e
                                               /\ served[r].seen = code}
      BY <3>1 DEF In, InCode, Coded
    <3>3. QED
      BY <3>2, SameCount DEF ServerInv, Measured, S!Saw
  <2>2. \A r \in Requests : served[r].email = "caller" => served[r].token = "google"
    BY DEF ServerInv, Truthful
  <2>3. QED
    BY <2>1, <2>2, Zenon DEF S!CodesAreSeen
<1>5. S!TypeOK
  <2> DEFINE Count == 0 .. Cardinality(Requests)
  <2>1. \A e \in S!Emails : /\ serving[e] \in Count /\ sized[e] \in Count /\ timed[e] \in Count
                            /\ \A c \in S!Codes : status[<<e, c>>] \in Count
    <3>1. \A e, c : InCode(e, c) \in SUBSET Requests
      BY DEF In, InCode
    <3>2. \A A \in SUBSET Requests : Cardinality(A) \in Count
      BY <1>1, HowMany
    <3> HIDE DEF Count
    <3>3. QED
      BY <1>2, <3>1, <3>2 DEF ServerInv, Measured
  <2>2. \A r \in Requests : served[r].email \in S!Emails /\ served[r].status \in S!Codes
    BY DEF ServerInv, ServerTypes, Served
  <2>3. Count = 0 .. S!Cardinality(Requests)
    BY SameCount
  <2> HIDE DEF Count
  <2>4. \A k \in S!Emails \X S!Codes : status[k] \in Count
    BY <2>1
  <2>5. QED
    BY <2>1, <2>2, <2>3, <2>4 DEF S!TypeOK, ServerInv, ServerTypes
<1>6. QED
  BY <1>3, <1>4, <1>5 DEF S!ServedIsTrue

-----------------------------------------------------------------------------
(***************************************************************************)
(* HttpMetrics: gauges and counters agree with the requests there are      *)
(***************************************************************************)

Places  == {"new", "sent", "remaining", "limit", "used", "classify", "count", "leave", "done", "panicked"}
\* Where a request is not in flight: before it is sent, and when it is over.
Gone    == {"new", "done", "panicked"}
\* Where it has been counted.
Over    == {"leave", "done"}
Whys    == {"none", "primary", "secondary", "permission"}
Quotas  == 0 .. Quota
Limits  == {0, Quota}
Answer  == [status : H!Codes \union {"none"}, named : BOOLEAN, remaining : Quotas,
            limit : Limits, why : Whys, whole : BOOLEAN]
Request == [at : Places, host : H!Hosts, label : H!Labels, answer : Answer,
            body : {"none", "whole", "broken", "ends early"}]
Gauge   == [remaining : Quotas, limit : Limits, used : Quotas]
Config  == [H!Setters -> SUBSET H!Hosts]
Setter  == [at : {"new", "loaded", "overlapped", "done", "done over the other"}, copy : Config]

MetricTypes == /\ config \in Config
               /\ setters \in [H!Setters -> Setter]
               /\ reqs \in [Requests -> Request]
               /\ left \in [H!Metered -> Quotas]
               /\ inFlight \in [H!Labels -> Int]
               /\ counted \in [H!Labels \X H!Codes -> Int]
               /\ gauges \in [H!Resources -> Gauge]
               /\ limited \in [H!Types -> Nat]
               /\ overtaken \subseteq H!Resources

\* What a request has of its answer, and of its body, at each place.
Fits(q) ==
    /\ q.at \in {"new", "sent"} => q.body = "none"
    /\ q.at \in {"remaining", "limit", "used", "classify", "count", "leave", "done"} => q.answer.status \in H!Codes
    /\ q.at \in {"remaining", "limit", "used"} => q.host \in H!Metered
    /\ q.at = "classify" => q.host = H!GitHub
    /\ q.answer.limit = (IF q.answer.named THEN Quota ELSE 0)
    /\ q.answer.why = "primary" \/ ~q.answer.named => q.answer.remaining = 0
    /\ q.body # "none" => (q.body = "whole") = q.answer.whole

\* What has the request, as a number.
Flies(q, l)     == IF q.at \notin Gone /\ q.label = l THEN 1 ELSE 0
Counts(q, l, c) == IF q.at \in Over /\ q.label = l /\ q.answer.status = c THEN 1 ELSE 0
Limits403(q)    == /\ q.at \in {"count", "leave", "done"} /\ q.answer.status = "403"
                   /\ q.host = H!GitHub /\ q.answer.named
Because(q, t)   == IF Limits403(q) /\ H!LimitOf(q.answer) = t THEN 1 ELSE 0

Flying(l)       == {r \in Requests : reqs[r].at \notin Gone /\ reqs[r].label = l}
CountedAs(l, c) == {r \in Requests : reqs[r].at \in Over /\ reqs[r].label = l /\ reqs[r].answer.status = c}
Refused(t)      == {r \in Requests : Limits403(reqs[r]) /\ H!LimitOf(reqs[r].answer) = t}

\* Each gauge and counter is the number of the requests it has.
Tallied ==
    /\ \A l \in H!Labels : /\ inFlight[l] = Cardinality(Flying(l))
                           /\ \A c \in H!Codes : counted[<<l, c>>] = Cardinality(CountedAs(l, c))
    /\ \A t \in H!Types : limited[t] = Cardinality(Refused(t))

MetricInv == /\ MetricTypes
             /\ \A r \in Requests : Fits(reqs[r])
             /\ Tallied

\* A step of one request changes what has it, and by one.
LEMMA OneRequest ==
    ASSUME IsFiniteSet(Requests), MetricTypes, NEW r \in Requests, NEW q \in Request,
           reqs' = [reqs EXCEPT ![r] = q],
           NEW l, NEW c, NEW t
    PROVE  /\ Cardinality(Flying(l)') = Cardinality(Flying(l)) + Flies(q, l) - Flies(reqs[r], l)
           /\ Cardinality(CountedAs(l, c)') =
                  Cardinality(CountedAs(l, c)) + Counts(q, l, c) - Counts(reqs[r], l, c)
           /\ Cardinality(Refused(t)') = Cardinality(Refused(t)) + Because(q, t) - Because(reqs[r], t)
<1>1. reqs'[r] = q /\ \A o \in Requests \ {r} : reqs'[o] = reqs[o]
  BY DEF MetricTypes
<1>2. ASSUME NEW A \in SUBSET Requests, NEW B \in SUBSET Requests,
             \A o \in Requests \ {r} : o \in B <=> o \in A
      PROVE  /\ Cardinality(A) \in Int
             /\ Cardinality(B) = Cardinality(A) + (IF r \in B THEN 1 ELSE 0) - (IF r \in A THEN 1 ELSE 0)
  BY <1>2, HowMany, OneOfThem
<1>3. Cardinality(Flying(l)') = Cardinality(Flying(l)) + Flies(q, l) - Flies(reqs[r], l)
  <2>1. \A o \in Requests \ {r} : o \in Flying(l)' <=> o \in Flying(l)
    BY <1>1 DEF Flying
  <2>2. /\ r \in Flying(l)' <=> q.at \notin Gone /\ q.label = l
        /\ r \in Flying(l) <=> reqs[r].at \notin Gone /\ reqs[r].label = l
    BY <1>1 DEF Flying
  <2>3. Flying(l) \in SUBSET Requests
    BY DEF Flying
  <2>4. Flying(l)' \in SUBSET Requests
    BY DEF Flying
  <2>5. QED
    BY <1>2, <2>1, <2>2, <2>3, <2>4 DEF Flies
<1>4. Cardinality(CountedAs(l, c)') =
          Cardinality(CountedAs(l, c)) + Counts(q, l, c) - Counts(reqs[r], l, c)
  <2>1. \A o \in Requests \ {r} : o \in CountedAs(l, c)' <=> o \in CountedAs(l, c)
    BY <1>1 DEF CountedAs
  <2>2. /\ r \in CountedAs(l, c)' <=> q.at \in Over /\ q.label = l /\ q.answer.status = c
        /\ r \in CountedAs(l, c) <=> reqs[r].at \in Over /\ reqs[r].label = l /\ reqs[r].answer.status = c
    BY <1>1 DEF CountedAs
  <2>3. CountedAs(l, c) \in SUBSET Requests
    BY DEF CountedAs
  <2>4. CountedAs(l, c)' \in SUBSET Requests
    BY DEF CountedAs
  <2>5. QED
    BY <1>2, <2>1, <2>2, <2>3, <2>4 DEF Counts
<1>5. Cardinality(Refused(t)') = Cardinality(Refused(t)) + Because(q, t) - Because(reqs[r], t)
  <2>1. \A o \in Requests \ {r} : o \in Refused(t)' <=> o \in Refused(t)
    BY <1>1 DEF Refused, Limits403
  <2>2. /\ r \in Refused(t)' <=> Limits403(q) /\ H!LimitOf(q.answer) = t
        /\ r \in Refused(t) <=> Limits403(reqs[r]) /\ H!LimitOf(reqs[r].answer) = t
    BY <1>1 DEF Refused, Limits403
  <2>3. Refused(t) \in SUBSET Requests
    BY DEF Refused
  <2>4. Refused(t)' \in SUBSET Requests
    BY DEF Refused
  <2>5. QED
    BY <1>2, <2>1, <2>2, <2>3, <2>4 DEF Because
<1>6. QED
  BY <1>3, <1>4, <1>5

\* Numbers that change with what they count stay true.
LEMMA StaysTallied ==
    ASSUME H!ConstantsAssumption, MetricInv, NEW r \in Requests, NEW q \in Request,
           reqs' = [reqs EXCEPT ![r] = q], Fits(q), MetricTypes',
           \A l \in H!Labels :
               /\ inFlight'[l] = inFlight[l] + Flies(q, l) - Flies(reqs[r], l)
               /\ \A c \in H!Codes :
                     counted'[<<l, c>>] = counted[<<l, c>>] + Counts(q, l, c) - Counts(reqs[r], l, c),
           \A t \in H!Types : limited'[t] = limited[t] + Because(q, t) - Because(reqs[r], t)
    PROVE  MetricInv'
<1>1. IsFiniteSet(Requests)
  BY SameCount DEF H!ConstantsAssumption
<1>2. \A o \in Requests : Fits(reqs[o])'
  <2>1. \A o \in Requests : Fits(reqs'[o])
    BY DEF MetricInv, MetricTypes
  <2>2. QED
    BY <2>1 DEF Fits
<1>3. \A l, c, t :
          /\ Cardinality(Flying(l)') = Cardinality(Flying(l)) + Flies(q, l) - Flies(reqs[r], l)
          /\ Cardinality(CountedAs(l, c)') =
                 Cardinality(CountedAs(l, c)) + Counts(q, l, c) - Counts(reqs[r], l, c)
          /\ Cardinality(Refused(t)') = Cardinality(Refused(t)) + Because(q, t) - Because(reqs[r], t)
  BY <1>1, OneRequest DEF MetricInv
<1>4. \A l \in H!Labels : /\ inFlight'[l] = Cardinality(Flying(l)')
                          /\ \A c \in H!Codes : counted'[<<l, c>>] = Cardinality(CountedAs(l, c)')
  <2>1. ASSUME NEW l \in H!Labels
        PROVE  inFlight'[l] = Cardinality(Flying(l)')
    BY <1>3 DEF MetricInv, Tallied
  <2>2. ASSUME NEW l \in H!Labels, NEW c \in H!Codes
        PROVE  counted'[<<l, c>>] = Cardinality(CountedAs(l, c)')
    BY <1>3 DEF MetricInv, Tallied
  <2>3. QED
    BY <2>1, <2>2
<1>5. \A t \in H!Types : limited'[t] = Cardinality(Refused(t)')
  BY <1>3 DEF MetricInv, Tallied
<1>6. Tallied'
  BY <1>4, <1>5 DEF Tallied, Flying, CountedAs, Refused
<1>7. QED
  BY <1>2, <1>6 DEF MetricInv

\* A step that counts nothing and stays in flight, or out of it.
LEMMA StaysQuiet ==
    ASSUME H!ConstantsAssumption, MetricInv, NEW r \in Requests, NEW q \in Request,
           reqs' = [reqs EXCEPT ![r] = q], Fits(q), MetricTypes',
           UNCHANGED <<inFlight, counted, limited>>,
           q.label = reqs[r].label, q.at \notin Gone, reqs[r].at \notin Gone,
           q.at \notin Over, reqs[r].at \notin Over,
           ~Limits403(q), ~Limits403(reqs[r])
    PROVE  MetricInv'
<1>1. /\ \A l : Flies(q, l) = Flies(reqs[r], l) /\ Flies(q, l) \in Int
      /\ \A l, c : Counts(q, l, c) = 0 /\ Counts(reqs[r], l, c) = 0
      /\ \A t : Because(q, t) = 0 /\ Because(reqs[r], t) = 0
  BY DEF Flies, Counts, Because, Gone
<1>2. /\ \A l \in H!Labels : inFlight[l] \in Int
      /\ \A l \in H!Labels, c \in H!Codes : counted[<<l, c>>] \in Int
      /\ \A t \in H!Types : limited[t] \in Int
  BY DEF MetricInv, MetricTypes
<1>3. \A l \in H!Labels :
          /\ inFlight'[l] = inFlight[l] + Flies(q, l) - Flies(reqs[r], l)
          /\ \A c \in H!Codes :
                counted'[<<l, c>>] = counted[<<l, c>>] + Counts(q, l, c) - Counts(reqs[r], l, c)
  BY <1>1, <1>2
<1>4. \A t \in H!Types : limited'[t] = limited[t] + Because(q, t) - Because(reqs[r], t)
  BY <1>1, <1>2
<1>5. QED
  BY <1>3, <1>4, StaysTallied

\* A host gets one of the labels.
LEMMA Bucketized ==
    ASSUME NEW host, NEW skip \in BOOLEAN
    PROVE  H!bucketize(host, skip) \in H!Labels
<1> DEFINE tries == <<[fits |-> skip,                             label |-> "unbucketized"],
                      [fits |-> host \in config.exact,            label |-> "mine"],
                      [fits |-> host \in config.suffixes,         label |-> "ours"],
                      [fits |-> host = H!GitHub,                  label |-> "GH API"],
                      [fits |-> host = "storage.googleapis.com",  label |-> "Google API"],
                      [fits |-> TRUE,                             label |-> "other"]>>
           First(i)  == tries[i].fits /\ \A j \in 1 .. i - 1 : ~tries[j].fits
<1>1. DOMAIN tries = 1 .. 6
  OBVIOUS
<1>2. /\ tries[1].label = "unbucketized" /\ tries[2].label = "mine" /\ tries[3].label = "ours"
      /\ tries[4].label = "GH API" /\ tries[5].label = "Google API" /\ tries[6].label = "other"
      /\ tries[6].fits
  OBVIOUS
<1>3. H!bucketize(host, skip) = tries[CHOOSE i \in DOMAIN tries : First(i)].label
  BY DEF H!bucketize
<1> HIDE DEF tries
<1>4. \A i \in 1 .. 6 : tries[i].label \in H!Labels
  <2>1. \A i \in 1 .. 6 : i = 1 \/ i = 2 \/ i = 3 \/ i = 4 \/ i = 5 \/ i = 6
    OBVIOUS
  <2>2. QED
    BY <1>2, <2>1 DEF H!Labels
<1>5. \E i \in 1 .. 6 : First(i)
  <2>1. \A j : j \in 1 .. 0 => FALSE
    OBVIOUS
  <2>2. \A k \in 1 .. 5 : \A j \in 1 .. k : j = k \/ j \in 1 .. k - 1
    OBVIOUS
  <2>3. \A k \in 1 .. 5 : (\A j \in 1 .. k - 1 : ~tries[j].fits) /\ ~First(k)
                              => \A j \in 1 .. k : ~tries[j].fits
    BY <2>2
  <2>4. CASE \E k \in 1 .. 5 : First(k)
    BY <2>4
  <2>5. CASE \A k \in 1 .. 5 : ~First(k)
    <3>1. \A j \in 1 .. 1 : ~tries[j].fits
      BY <2>1, <2>3, <2>5
    <3>2. \A j \in 1 .. 2 : ~tries[j].fits
      BY <2>3, <2>5, <3>1
    <3>3. \A j \in 1 .. 3 : ~tries[j].fits
      BY <2>3, <2>5, <3>2
    <3>4. \A j \in 1 .. 4 : ~tries[j].fits
      BY <2>3, <2>5, <3>3
    <3>5. \A j \in 1 .. 5 : ~tries[j].fits
      BY <2>3, <2>5, <3>4
    <3>6. First(6)
      <4>1. 1 .. 6 - 1 = 1 .. 5
        OBVIOUS
      <4>2. QED
        BY <1>2, <3>5, <4>1
    <3>7. QED
      BY <3>6
  <2>6. QED
    BY <2>4, <2>5
<1>6. (CHOOSE i \in DOMAIN tries : First(i)) \in 1 .. 6
  BY <1>1, <1>5
<1>7. QED
  BY <1>3, <1>4, <1>6

\* No request has been sent.
LEMMA InitMetricInv ==
    ASSUME H!ConstantsAssumption
    PROVE  H!Init => MetricInv
<1> SUFFICES ASSUME H!Init PROVE MetricInv
  OBVIOUS
<1>1. 0 \in Quotas /\ 0 \in Limits /\ Quota \in Quotas
  BY DEF H!ConstantsAssumption, Quotas, Limits
<1>2. H!NoAnswer \in Answer
  BY <1>1 DEF H!NoAnswer, Answer, Whys
<1>3. H!Unsent \in Request
  BY <1>2 DEF H!Unsent, Request, Places, H!Hosts, H!Labels
<1>4. H!Unset \in Gauge
  BY <1>1 DEF H!Unset, Gauge
<1>5. config \in Config
  BY DEF H!Init, Config
<1>6. setters \in [H!Setters -> Setter]
  BY <1>5 DEF H!Init, Setter
<1>7. MetricTypes
  <2>1. reqs \in [Requests -> Request]
    BY <1>3 DEF H!Init
  <2>2. left \in [H!Metered -> Quotas] /\ gauges \in [H!Resources -> Gauge]
    BY <1>1, <1>4 DEF H!Init
  <2>3. inFlight \in [H!Labels -> Int] /\ limited \in [H!Types -> Nat] /\ overtaken = {}
    BY DEF H!Init
  <2>4. counted \in [H!Labels \X H!Codes -> Int]
    BY DEF H!Init
  <2>5. QED
    BY <1>5, <1>6, <2>1, <2>2, <2>3, <2>4 DEF MetricTypes
<1>8. \A r \in Requests : Fits(reqs[r]) /\ reqs[r].at = "new"
  BY DEF H!Init, H!Unsent, H!NoAnswer, Fits
<1>9. Tallied
  <2>1. /\ \A l : Flying(l) = {}
        /\ \A l, c : CountedAs(l, c) = {}
        /\ \A t : Refused(t) = {}
    BY <1>8 DEF Flying, CountedAs, Refused, Limits403, Gone, Over
  <2>2. \A l \in H!Labels : \A c \in H!Codes : <<l, c>> \in H!Labels \X H!Codes
    OBVIOUS
  <2>3. \A l \in H!Labels : inFlight[l] = 0 /\ \A c \in H!Codes : counted[<<l, c>>] = 0
    BY <2>2 DEF H!Init
  <2>4. \A t \in H!Types : limited[t] = 0
    BY DEF H!Init
  <2>5. QED
    BY <2>1, <2>3, <2>4, FS_EmptySet DEF Tallied
<1>10. QED
  BY <1>7, <1>8, <1>9 DEF MetricInv

\* The setters touch nothing that is counted.
LEMMA SettersMetricInv ==
    ASSUME MetricInv, NEW s \in H!Setters, H!Load(s) \/ H!Store(s)
    PROVE  MetricInv'
<1>1. UNCHANGED <<reqs, left, inFlight, counted, gauges, limited, overtaken>>
  BY DEF H!Load, H!Store
<1>2. config' \in Config /\ setters' \in [H!Setters -> Setter]
  <2>1. config \in Config /\ setters \in [H!Setters -> Setter]
    BY DEF MetricInv, MetricTypes
  <2>2. CASE H!Load(s)
    <3>1. config' = config /\ setters' = [setters EXCEPT ![s] = [at |-> "loaded", copy |-> config]]
      BY <2>2 DEF H!Load
    <3>2. [at |-> "loaded", copy |-> config] \in Setter
      BY <2>1 DEF Setter
    <3>3. QED
      BY <2>1, <3>1, <3>2
  <2>3. CASE H!Store(s)
    <3>1. setters[s].copy \in Config
      BY <2>1 DEF Setter
    <3>2. H!Given[s] \in SUBSET H!Hosts
      BY DEF H!Setters, H!Given, H!Hosts, H!Metered
    <3>3. config' = [setters[s].copy EXCEPT ![s] = H!Given[s]]
      BY <2>3 DEF H!Store
    <3>4. config' \in Config
      BY <3>1, <3>2, <3>3 DEF Config
    <3>5. \A t \in H!Setters :
              /\ setters'[t].copy = setters[t].copy
              /\ setters'[t] \in Setter
      BY <2>1, <2>3 DEF H!Store, Setter
    <3>6. setters' \in [H!Setters -> Setter]
      BY <2>1, <2>3, <3>5 DEF H!Store
    <3>7. QED
      BY <3>4, <3>6
  <2>4. QED
    BY <2>2, <2>3
<1>3. MetricTypes'
  BY <1>1, <1>2 DEF MetricInv, MetricTypes
<1>4. \A l, c, t : /\ Flying(l)' = Flying(l) /\ CountedAs(l, c)' = CountedAs(l, c)
                   /\ Refused(t)' = Refused(t)
  BY <1>1 DEF Flying, CountedAs, Refused, Limits403
<1>5. Tallied'
  BY <1>1, <1>4 DEF MetricInv, Tallied
<1>6. QED
  BY <1>1, <1>3, <1>5 DEF MetricInv, Fits

\* A request is sent, and in flight under its label.
LEMMA SendMetricInv ==
    ASSUME H!ConstantsAssumption, MetricInv,
           NEW r \in Requests, NEW t \in Targets, H!Send(r, t.host, t.skip)
    PROVE  MetricInv'
<1> DEFINE b == H!bucketize(t.host, t.skip)
           q == [reqs[r] EXCEPT !.at = "sent", !.host = t.host, !.label = b]
<1>1. t.host \in H!Hosts /\ b \in H!Labels
  <2>1. t.host \in H!Hosts /\ t.skip \in BOOLEAN
    BY DEF H!ConstantsAssumption
  <2>2. QED
    BY <2>1, Bucketized
<1>2. reqs[r] \in Request /\ reqs[r].at = "new" /\ Fits(reqs[r])
  BY DEF MetricInv, MetricTypes, H!Send
<1>3. /\ reqs' = [reqs EXCEPT ![r] = q]
      /\ inFlight' = [inFlight EXCEPT ![b] = @ + 1]
      /\ UNCHANGED <<config, setters, left, counted, gauges, limited, overtaken>>
  BY DEF H!Send
<1> HIDE DEF b
<1>4. q \in Request /\ q.at = "sent" /\ q.label = b
  BY <1>1, <1>2 DEF Request, Places
<1>5. q.body = reqs[r].body /\ q.answer = reqs[r].answer
  BY <1>2 DEF Request
<1> HIDE DEF q
<1>6. Fits(q)
  BY <1>2, <1>4, <1>5 DEF Fits
<1>7. inFlight \in [H!Labels -> Int]
  BY DEF MetricInv, MetricTypes
<1>8. /\ inFlight' \in [H!Labels -> Int]
      /\ \A l \in H!Labels : inFlight'[l] = inFlight[l] + (IF l = b THEN 1 ELSE 0)
  BY <1>1, <1>3, <1>7, UpOrDown
<1>9. MetricTypes'
  BY <1>3, <1>4, <1>8 DEF MetricInv, MetricTypes
<1>10. /\ \A l : Flies(q, l) = (IF l = b THEN 1 ELSE 0) /\ Flies(reqs[r], l) = 0
       /\ \A l, c : Counts(q, l, c) = 0 /\ Counts(reqs[r], l, c) = 0
       /\ \A k : Because(q, k) = 0 /\ Because(reqs[r], k) = 0
  BY <1>2, <1>4 DEF Flies, Counts, Limits403, Because, Gone, Over
<1>11. /\ \A l \in H!Labels, c \in H!Codes : counted[<<l, c>>] \in Int
       /\ \A k \in H!Types : limited[k] \in Int
  BY DEF MetricInv, MetricTypes
<1>12. \A l \in H!Labels :
           /\ inFlight'[l] = inFlight[l] + Flies(q, l) - Flies(reqs[r], l)
           /\ \A c \in H!Codes :
                 counted'[<<l, c>>] = counted[<<l, c>>] + Counts(q, l, c) - Counts(reqs[r], l, c)
  BY <1>3, <1>7, <1>8, <1>10, <1>11
<1>13. \A k \in H!Types : limited'[k] = limited[k] + Because(q, k) - Because(reqs[r], k)
  BY <1>3, <1>10, <1>11
<1>14. QED
  BY <1>3, <1>4, <1>6, <1>9, <1>12, <1>13, StaysTallied

\* An answer says what remains of a quota, if it names one.
LEMMA AnswerMetricInv ==
    ASSUME H!ConstantsAssumption, MetricInv,
           NEW r \in Requests, NEW why \in Whys, NEW named \in BOOLEAN, NEW whole \in BOOLEAN,
           H!Answer(r, why, named, whole)
    PROVE  MetricInv'
<1> DEFINE h       == reqs[r].host
           remains == IF why = "none" /\ left[h] > 0 THEN left[h] - 1 ELSE left[h]
           a       == [status |-> IF why = "none" THEN "200" ELSE "403", named |-> named,
                       remaining |-> IF named THEN remains ELSE 0,
                       limit |-> IF named THEN Quota ELSE 0, why |-> why, whole |-> whole]
           q       == [reqs[r] EXCEPT !.at = "remaining", !.body = IF whole THEN "whole" ELSE "broken",
                                      !.answer = a]
<1>1. /\ reqs[r].at = "sent" /\ h \in H!Metered
      /\ why = "primary" => left[h] = 0 /\ named
      /\ left' = [left EXCEPT ![h] = remains]
      /\ reqs' = [reqs EXCEPT ![r] = q]
      /\ UNCHANGED <<config, setters, inFlight, counted, gauges, limited, overtaken>>
  BY DEF H!Answer
<1>2. reqs[r] \in Request /\ left \in [H!Metered -> Quotas] /\ left[h] \in Quotas
  BY <1>1 DEF MetricInv, MetricTypes
<1>3. remains \in Quotas /\ 0 \in Quotas /\ (why = "primary" => remains = 0)
  BY <1>1, <1>2 DEF Quotas, H!ConstantsAssumption
<1> HIDE DEF remains
<1>4. a \in Answer
  BY <1>3 DEF Answer, H!Codes, Limits
<1>5. /\ a.status = (IF why = "none" THEN "200" ELSE "403") /\ a.named = named /\ a.why = why
      /\ a.whole = whole /\ a.limit = (IF named THEN Quota ELSE 0)
      /\ a.remaining = (IF named THEN remains ELSE 0)
  OBVIOUS
<1> HIDE DEF a
<1>6. q \in Request
  BY <1>2, <1>4 DEF Request, Places
<1>7. /\ q.at = "remaining" /\ q.body = (IF whole THEN "whole" ELSE "broken") /\ q.answer = a
      /\ q.label = reqs[r].label /\ q.host = h
  BY <1>2 DEF Request
<1> HIDE DEF q
<1>8. Fits(q)
  BY <1>1, <1>3, <1>5, <1>7 DEF Fits, H!Codes
<1>9. MetricTypes'
  BY <1>1, <1>2, <1>3, <1>6 DEF MetricInv, MetricTypes
<1>10. ~Limits403(q) /\ ~Limits403(reqs[r])
  BY <1>1, <1>7 DEF Limits403
<1>11. QED
  BY <1>1, <1>6, <1>7, <1>8, <1>9, <1>10, StaysQuiet DEF Gone, Over

\* An answer without a limit, or none at all.
LEMMA NoLimitMetricInv ==
    ASSUME H!ConstantsAssumption, MetricInv, NEW r \in Requests, H!AnswerOfOthers(r) \/ H!Fail(r)
    PROVE  MetricInv'
<1>1. PICK code \in {"200", "error"} :
          reqs' = [reqs EXCEPT ![r] = [reqs[r] EXCEPT !.at = "count",
                                                      !.answer = [H!NoAnswer EXCEPT !.status = code]]]
  BY DEF H!AnswerOfOthers, H!Fail
<1> DEFINE a == [H!NoAnswer EXCEPT !.status = code]
           q == [reqs[r] EXCEPT !.at = "count", !.answer = a]
<1>2. reqs[r] \in Request /\ Fits(reqs[r]) /\ reqs[r].at = "sent"
  BY DEF MetricInv, MetricTypes, H!AnswerOfOthers, H!Fail
<1>3. UNCHANGED <<config, setters, left, inFlight, counted, gauges, limited, overtaken>>
  BY DEF H!AnswerOfOthers, H!Fail
<1>4. H!NoAnswer \in Answer /\ ~H!NoAnswer.named /\ H!NoAnswer.remaining = 0
      /\ H!NoAnswer.limit = 0 /\ H!NoAnswer.why = "none"
  <2>1. 0 \in Quotas /\ 0 \in Limits
    BY DEF Quotas, Limits, H!ConstantsAssumption
  <2>2. QED
    BY <2>1 DEF H!NoAnswer, Answer, Whys
<1>5. /\ a \in Answer
      /\ a.status = code /\ ~a.named /\ a.remaining = 0 /\ a.limit = 0 /\ a.why = "none"
  BY <1>4 DEF Answer, H!Codes
<1> HIDE DEF a
<1>6. q \in Request
  BY <1>2, <1>5 DEF Request, Places
<1>7. q.at = "count" /\ q.body = reqs[r].body /\ q.answer = a /\ q.label = reqs[r].label
  BY <1>2 DEF Request
<1>8. reqs' = [reqs EXCEPT ![r] = q]
  BY <1>1 DEF a
<1> HIDE DEF q
<1>9. Fits(q)
  BY <1>2, <1>5, <1>7 DEF Fits, H!Codes
<1>10. MetricTypes'
  BY <1>3, <1>6, <1>8 DEF MetricInv, MetricTypes
<1>11. ~Limits403(q) /\ ~Limits403(reqs[r])
  BY <1>2, <1>5, <1>7 DEF Limits403
<1>12. QED
  BY <1>2, <1>3, <1>6, <1>7, <1>8, <1>9, <1>10, <1>11, StaysQuiet DEF Gone, Over

\* What an answer tells fits the gauges.
LEMMA SetsMetricInv ==
    ASSUME H!ConstantsAssumption, MetricInv, NEW r \in Requests,
           H!SetRemaining(r) \/ H!SetLimit(r) \/ H!SetUsed(r)
    PROVE  MetricInv'
<1> DEFINE p == reqs[r]
           s == H!ResourceOf(r)
<1>1. /\ p \in Request /\ Fits(p) /\ p.at \in {"remaining", "limit", "used"} /\ p.answer \in Answer
      /\ p.host \in H!Metered
  BY DEF MetricInv, MetricTypes, H!SetRemaining, H!SetLimit, H!SetUsed, Request, Fits
<1>2. s \in H!Resources
  BY DEF H!ResourceOf, H!Resources
<1>3. /\ UNCHANGED <<config, setters, left, inFlight, counted, limited>>
      /\ overtaken' \subseteq H!Resources
  <2>1. overtaken \subseteq H!Resources
    BY DEF MetricInv, MetricTypes
  <2>2. QED
    BY <1>2, <2>1 DEF H!SetRemaining, H!SetLimit, H!SetUsed
<1>4. gauges' \in [H!Resources -> Gauge]
  <2>1. gauges \in [H!Resources -> Gauge] /\ gauges[s] \in Gauge
    BY <1>2 DEF MetricInv, MetricTypes
  <2>2. p.answer.remaining \in Quotas /\ p.answer.limit \in Limits
    BY <1>1 DEF Answer
  <2>3. p.answer.limit # 0 => p.answer.limit - p.answer.remaining \in Quotas
    BY <1>1, <2>2 DEF Fits, Quotas, Limits, H!ConstantsAssumption
  <2>4. \A d, o, n : H!Shown(d, o, n) \in {o, n}
    BY DEF H!Shown
  <2>5. CASE H!SetRemaining(r)
    <3>1. gauges' = [gauges EXCEPT ![s].remaining = H!Shown(s, gauges[s].remaining, p.answer.remaining)]
      BY <2>5 DEF H!SetRemaining
    <3>2. H!Shown(s, gauges[s].remaining, p.answer.remaining) \in Quotas
      BY <2>1, <2>2, <2>4 DEF Gauge
    <3> HIDE DEF s, p
    <3>3. QED
      BY <1>2, <2>1, <3>1, <3>2 DEF Gauge
  <2>6. CASE H!SetLimit(r)
    <3>1. gauges' = [gauges EXCEPT ![s].limit = H!Shown(s, gauges[s].limit, p.answer.limit)]
      BY <2>6 DEF H!SetLimit
    <3>2. H!Shown(s, gauges[s].limit, p.answer.limit) \in Limits
      BY <2>1, <2>2, <2>4 DEF Gauge
    <3> HIDE DEF s, p
    <3>3. QED
      BY <1>2, <2>1, <3>1, <3>2 DEF Gauge
  <2>7. CASE H!SetUsed(r)
    <3>1. gauges' = IF p.answer.limit = 0 THEN gauges
                    ELSE [gauges EXCEPT ![s].used = p.answer.limit - p.answer.remaining]
      BY <2>7 DEF H!SetUsed
    <3> HIDE DEF s, p
    <3>2. QED
      BY <1>2, <2>1, <2>3, <3>1 DEF Gauge
  <2>8. QED
    BY <2>5, <2>6, <2>7
<1>5. PICK place \in {"limit", "used", "classify", "count"} :
          /\ reqs' = [reqs EXCEPT ![r].at = place]
          /\ place = "classify" => p.host = H!GitHub
          /\ place = "count" => p.host # H!GitHub
  BY DEF H!SetRemaining, H!SetLimit, H!SetUsed
<1> DEFINE q == [p EXCEPT !.at = place]
<1>6. /\ q \in Request
      /\ q.at = place /\ q.body = p.body /\ q.answer = p.answer /\ q.label = p.label /\ q.host = p.host
  BY <1>1 DEF Request, Places
<1>7. reqs' = [reqs EXCEPT ![r] = q]
  BY <1>5
<1> HIDE DEF q
<1>8. Fits(q)
  BY <1>1, <1>5, <1>6 DEF Fits
<1>9. MetricTypes'
  BY <1>3, <1>4, <1>6, <1>7 DEF MetricInv, MetricTypes
<1>10. ~Limits403(q) /\ ~Limits403(p)
  BY <1>1, <1>5, <1>6 DEF Limits403
<1>11. QED
  BY <1>1, <1>3, <1>5, <1>6, <1>7, <1>8, <1>9, <1>10, StaysQuiet DEF Gone, Over

\* A limit is of one kind.
LEMMA KindOfLimit ==
    ASSUME NEW a, a.remaining \in Nat
    PROVE  /\ H!LimitOf(a) \in H!Types
           /\ H!LimitOf(a) = "primary" <=> a.remaining = 0
           /\ H!LimitOf(a) = "secondary" <=> a.remaining # 0 /\ a.why = "secondary" /\ a.whole
<1>1. /\ a.remaining = 0 => H!LimitOf(a) = "primary"
      /\ a.remaining > 0 /\ (a.why = "secondary" /\ a.whole) => H!LimitOf(a) = "secondary"
      /\ a.remaining > 0 /\ ~(a.why = "secondary" /\ a.whole) => H!LimitOf(a) = "unknown"
  BY DEF H!LimitOf
<1>2. a.remaining = 0 \/ a.remaining > 0
  OBVIOUS
<1>3. QED
  BY <1>1, <1>2 DEF H!Types

\* A 403 of GitHub is counted as one kind of limit, and what was read is put back.
LEMMA ClassifyMetricInv ==
    ASSUME H!ConstantsAssumption, MetricInv, NEW r \in Requests, H!Classify(r)
    PROVE  MetricInv'
<1> DEFINE p == reqs[r]
           a == p.answer
<1>1. p \in Request /\ Fits(p) /\ p.at = "classify" /\ a \in Answer /\ p.host = H!GitHub
  BY DEF MetricInv, MetricTypes, H!Classify, Request, Fits
<1>2. UNCHANGED <<config, setters, left, inFlight, counted, gauges, overtaken>>
  BY DEF H!Classify
<1>3. limited \in [H!Types -> Nat]
  BY DEF MetricInv, MetricTypes
<1>4. a.remaining \in Nat
  BY <1>1 DEF Answer, Quotas, H!ConstantsAssumption
<1>5. CASE a.status = "403" /\ a.named
  <2> DEFINE type == H!LimitOf(a)
  <2>1. /\ limited' = [limited EXCEPT ![type] = @ + 1]
        /\ reqs' = [reqs EXCEPT ![r] = [p EXCEPT !.at = "count",
                        !.body = IF type = "primary" \/ a.whole THEN p.body ELSE "ends early"]]
    BY <1>5 DEF H!Classify
  <2>2. type \in H!Types
    BY <1>4, KindOfLimit
  <2> HIDE DEF type
  <2> DEFINE q == [p EXCEPT !.at = "count",
                            !.body = IF type = "primary" \/ a.whole THEN p.body ELSE "ends early"]
  <2>3. /\ q \in Request
        /\ q.at = "count" /\ q.answer = a /\ q.label = p.label /\ q.host = p.host
        /\ q.body = (IF type = "primary" \/ a.whole THEN p.body ELSE "ends early")
    BY <1>1 DEF Request, Places
  <2>4. reqs' = [reqs EXCEPT ![r] = q]
    BY <2>1
  <2> HIDE DEF q
  <2>5. Fits(q)
    <3>1. a.whole \in BOOLEAN
      BY <1>1 DEF Answer
    <3>2. q.body # "none" => (q.body = "whole") = a.whole
      BY <1>1, <2>3, <3>1 DEF Fits
    <3>3. QED
      BY <1>1, <2>3, <3>2 DEF Fits
  <2>6. limited' \in [H!Types -> Nat]
        /\ \A t \in H!Types : limited'[t] = limited[t] + (IF t = type THEN 1 ELSE 0)
    BY <1>3, <2>1, <2>2
  <2>7. MetricTypes'
    BY <1>2, <2>3, <2>4, <2>6 DEF MetricInv, MetricTypes
  <2>8. Limits403(q) /\ ~Limits403(p)
    BY <1>1, <1>5, <2>3 DEF Limits403
  <2>9. /\ \A l : Flies(q, l) = Flies(p, l) /\ Flies(q, l) \in Int
        /\ \A l, c : Counts(q, l, c) = 0 /\ Counts(p, l, c) = 0
        /\ \A t : Because(q, t) = (IF t = type THEN 1 ELSE 0) /\ Because(p, t) = 0
    <3>1. \A l : Flies(q, l) = Flies(p, l) /\ Flies(q, l) \in Int
      <4>1. q.at \notin Gone /\ p.at \notin Gone
        BY <1>1, <2>3 DEF Gone
      <4>2. q.label = p.label
        BY <2>3
      <4> HIDE DEF p
      <4>3. QED
        BY <4>1, <4>2 DEF Flies
    <3>2. \A l, c : Counts(q, l, c) = 0 /\ Counts(p, l, c) = 0
      BY <1>1, <2>3 DEF Counts, Over
    <3>3. \A t : Because(q, t) = (IF t = type THEN 1 ELSE 0) /\ Because(p, t) = 0
      BY <2>3, <2>8 DEF Because, type
    <3>4. QED
      BY <3>1, <3>2, <3>3
  <2>10. /\ \A l \in H!Labels : inFlight[l] \in Int
         /\ \A l \in H!Labels, c \in H!Codes : counted[<<l, c>>] \in Int
         /\ \A t \in H!Types : limited[t] \in Int
    BY DEF MetricInv, MetricTypes
  <2>11. \A l \in H!Labels :
             /\ inFlight'[l] = inFlight[l] + Flies(q, l) - Flies(p, l)
             /\ \A c \in H!Codes :
                   counted'[<<l, c>>] = counted[<<l, c>>] + Counts(q, l, c) - Counts(p, l, c)
    BY <1>2, <2>9, <2>10
  <2>12. \A t \in H!Types : limited'[t] = limited[t] + Because(q, t) - Because(p, t)
    BY <2>6, <2>9, <2>10
  <2>13. QED
    BY <2>3, <2>4, <2>5, <2>7, <2>11, <2>12, StaysTallied
<1>6. CASE ~(a.status = "403" /\ a.named)
  <2> DEFINE q == [p EXCEPT !.at = "count"]
  <2>1. reqs' = [reqs EXCEPT ![r] = q] /\ limited' = limited
    BY <1>6 DEF H!Classify
  <2>2. /\ q \in Request
        /\ q.at = "count" /\ q.answer = a /\ q.label = p.label /\ q.host = p.host /\ q.body = p.body
    BY <1>1 DEF Request, Places
  <2> HIDE DEF q
  <2>3. Fits(q)
    BY <1>1, <2>2 DEF Fits
  <2>4. MetricTypes'
    BY <1>2, <2>1, <2>2 DEF MetricInv, MetricTypes
  <2>5. ~Limits403(q) /\ ~Limits403(p)
    BY <1>1, <1>6, <2>2 DEF Limits403
  <2>6. QED
    BY <1>1, <1>2, <2>1, <2>2, <2>3, <2>4, <2>5, StaysQuiet DEF Gone, Over
<1>7. QED
  BY <1>5, <1>6

\* A request is counted, under its label and its code.
LEMMA CountMetricInv ==
    ASSUME H!ConstantsAssumption, MetricInv, NEW r \in Requests, H!Count(r)
    PROVE  MetricInv'
<1> DEFINE p == reqs[r]
           b == p.label
           c == p.answer.status
           q == [p EXCEPT !.at = "leave"]
<1>1. p \in Request /\ Fits(p) /\ p.at = "count" /\ b \in H!Labels /\ c \in H!Codes
  BY DEF MetricInv, MetricTypes, H!Count, Request, Fits
<1>2. /\ q \in Request
      /\ q.at = "leave" /\ q.body = p.body /\ q.answer = p.answer /\ q.label = b /\ q.host = p.host
  BY <1>1 DEF Request, Places
<1>3. /\ reqs' = [reqs EXCEPT ![r] = q]
      /\ counted' = [counted EXCEPT ![<<b, c>>] = @ + 1]
      /\ UNCHANGED <<config, setters, left, inFlight, gauges, limited, overtaken>>
  BY DEF H!Count
<1> HIDE DEF q
<1>4. Fits(q)
  BY <1>1, <1>2 DEF Fits
<1>5. /\ inFlight \in [H!Labels -> Int] /\ counted \in [H!Labels \X H!Codes -> Int]
      /\ \A t \in H!Types : limited[t] \in Int
  BY DEF MetricInv, MetricTypes
<1>6. /\ counted' \in [H!Labels \X H!Codes -> Int]
      /\ \A l \in H!Labels, d \in H!Codes :
            counted'[<<l, d>>] = counted[<<l, d>>] + (IF l = b /\ d = c THEN 1 ELSE 0)
  <2> DEFINE D == H!Labels \X H!Codes
             k == <<b, c>>
  <2>1. counted \in [D -> Int] /\ k \in D /\ counted' = [counted EXCEPT ![k] = @ + 1]
    BY <1>1, <1>3, <1>5
  <2>2. \A l \in H!Labels, d \in H!Codes : <<l, d>> \in D /\ (<<l, d>> = k <=> l = b /\ d = c)
    OBVIOUS
  <2> HIDE DEF D, k, b, c, p
  <2>3. counted' \in [D -> Int] /\ \A i \in D : counted'[i] = counted[i] + (IF i = k THEN 1 ELSE 0)
    BY <2>1, UpOrDown
  <2>4. \A l \in H!Labels, d \in H!Codes :
            counted'[<<l, d>>] = counted[<<l, d>>] + (IF l = b /\ d = c THEN 1 ELSE 0)
    BY <2>2, <2>3
  <2>5. QED
    BY <2>3, <2>4 DEF D
<1>7. MetricTypes'
  BY <1>2, <1>3, <1>6 DEF MetricInv, MetricTypes
<1>8. /\ \A l : Flies(q, l) = Flies(p, l) /\ Flies(p, l) \in Int
      /\ \A l, d : /\ Counts(q, l, d) = (IF l = b /\ d = c THEN 1 ELSE 0)
                   /\ Counts(p, l, d) = 0
  BY <1>1, <1>2 DEF Flies, Counts, Gone, Over
<1>9. \A t : Because(q, t) = Because(p, t) /\ Because(p, t) \in Int
  BY <1>1, <1>2 DEF Because, Limits403
<1>10. \A l \in H!Labels :
           /\ inFlight'[l] = inFlight[l] + Flies(q, l) - Flies(p, l)
           /\ \A d \in H!Codes :
                 counted'[<<l, d>>] = counted[<<l, d>>] + Counts(q, l, d) - Counts(p, l, d)
  <2>1. \A l \in H!Labels, d \in H!Codes : counted[<<l, d>>] \in Int
    BY <1>5
  <2>2. QED
    BY <1>3, <1>5, <1>6, <1>8, <2>1
<1>11. \A t \in H!Types : limited'[t] = limited[t] + Because(q, t) - Because(p, t)
  BY <1>3, <1>5, <1>9
<1>12. QED
  BY <1>2, <1>3, <1>4, <1>7, <1>10, <1>11, StaysTallied

\* The end of a request, counted or not: the gauge falls that it had raised.
LEMMA LeavesMetricInv ==
    ASSUME H!ConstantsAssumption, MetricInv, NEW r \in Requests, H!Leave(r) \/ H!Panic(r)
    PROVE  MetricInv'
<1> DEFINE p == reqs[r]
           b == p.label
<1>1. p \in Request /\ Fits(p) /\ p.at \in {"leave", "sent"} /\ b \in H!Labels
  BY DEF MetricInv, MetricTypes, H!Leave, H!Panic, Request, Fits
<1>2. PICK place \in {"done", "panicked"} :
          /\ reqs' = [reqs EXCEPT ![r].at = place]
          /\ p.at = IF place = "done" THEN "leave" ELSE "sent"
  BY DEF H!Leave, H!Panic
<1>3. /\ inFlight' = [inFlight EXCEPT ![b] = @ - 1]
      /\ UNCHANGED <<config, setters, left, counted, gauges, limited, overtaken>>
  BY DEF H!Leave, H!Panic, H!GaugeOf
<1> DEFINE q == [p EXCEPT !.at = place]
<1>4. /\ q \in Request
      /\ q.at = place /\ q.body = p.body /\ q.answer = p.answer /\ q.label = b /\ q.host = p.host
  BY <1>1 DEF Request, Places
<1>5. reqs' = [reqs EXCEPT ![r] = q]
  BY <1>2
<1> HIDE DEF q
<1>6. Fits(q)
  BY <1>1, <1>2, <1>4 DEF Fits
<1>7. /\ inFlight \in [H!Labels -> Int] /\ counted \in [H!Labels \X H!Codes -> Int]
      /\ \A t \in H!Types : limited[t] \in Int
  BY DEF MetricInv, MetricTypes
<1>8. /\ inFlight' \in [H!Labels -> Int]
      /\ \A l \in H!Labels : inFlight'[l] = inFlight[l] - (IF l = b THEN 1 ELSE 0)
  <2>1. inFlight' = [inFlight EXCEPT ![b] = @ + (-1)]
    BY <1>1, <1>3, <1>7
  <2>2. /\ inFlight' \in [H!Labels -> Int]
        /\ \A l \in H!Labels : inFlight'[l] = inFlight[l] + (IF l = b THEN -1 ELSE 0)
    BY <1>1, <1>7, <2>1, UpOrDown
  <2>3. QED
    BY <1>7, <2>2
<1>9. MetricTypes'
  BY <1>3, <1>4, <1>5, <1>8 DEF MetricInv, MetricTypes
<1>10. /\ \A l : Flies(q, l) = 0 /\ Flies(p, l) = (IF l = b THEN 1 ELSE 0)
       /\ \A l, d : Counts(q, l, d) = Counts(p, l, d) /\ Counts(p, l, d) \in Int
  BY <1>1, <1>2, <1>4 DEF Flies, Counts, Gone, Over
<1>11. \A t : Because(q, t) = Because(p, t) /\ Because(p, t) \in Int
  BY <1>2, <1>4 DEF Because, Limits403
<1>12. \A l \in H!Labels :
           /\ inFlight'[l] = inFlight[l] + Flies(q, l) - Flies(p, l)
           /\ \A d \in H!Codes :
                 counted'[<<l, d>>] = counted[<<l, d>>] + Counts(q, l, d) - Counts(p, l, d)
  <2>1. \A l \in H!Labels, d \in H!Codes : counted[<<l, d>>] \in Int
    BY <1>7
  <2>2. QED
    BY <1>3, <1>7, <1>8, <1>10, <2>1
<1>13. \A t \in H!Types : limited'[t] = limited[t] + Because(q, t) - Because(p, t)
  BY <1>3, <1>7, <1>11
<1>14. QED
  BY <1>4, <1>5, <1>6, <1>9, <1>12, <1>13, StaysTallied

-----------------------------------------------------------------------------
(***************************************************************************)
(* The labels of the caller                                                *)
(***************************************************************************)

\* What a setter has loaded is there until another one stores its own, and what it
\* has stored until one that had loaded before.
Settled ==
    /\ \A s \in H!Setters :
          /\ config[s] \in {{}, H!Given[s]}
          /\ \A t \in H!Setters : setters[t].copy[s] \in {{}, H!Given[s]}
    /\ \A s \in H!Setters : setters[s].at = "loaded" => setters[s].copy = config
    /\ \A s \in H!Setters :
          /\ setters[s].at = "done"
          /\ \A t \in H!Setters \ {s} : setters[t].at # "done over the other"
          => config[s] = H!Given[s]

\* No setter has stored labels.
LEMMA InitSettled == H!Init => Settled
<1> SUFFICES ASSUME H!Init PROVE Settled
  OBVIOUS
<1>1. \A s \in H!Setters : config[s] = {} /\ setters[s].at = "new" /\ setters[s].copy = config
  BY DEF H!Init
<1>2. QED
  BY <1>1 DEF Settled

\* A setter stores what it has loaded and what it was given.
LEMMA SettersSettled ==
    ASSUME MetricTypes, Settled, NEW s \in H!Setters, H!Load(s) \/ H!Store(s)
    PROVE  Settled'
<1>1. config \in Config /\ setters \in [H!Setters -> Setter]
  BY DEF MetricTypes
<1>2. CASE H!Load(s)
  <2>1. config' = config /\ setters' = [setters EXCEPT ![s] = [at |-> "loaded", copy |-> config]]
    BY <1>2 DEF H!Load
  <2>2. /\ setters'[s].at = "loaded" /\ setters'[s].copy = config
        /\ \A t \in H!Setters \ {s} : setters'[t] = setters[t]
    BY <1>1, <2>1
  <2>3. setters[s].at = "new"
    BY <1>2 DEF H!Load
  <2>4. \A i \in H!Setters :
            /\ config'[i] \in {{}, H!Given[i]}
            /\ \A t \in H!Setters : setters'[t].copy[i] \in {{}, H!Given[i]}
    <3>1. ASSUME NEW i \in H!Setters, NEW t \in H!Setters
          PROVE  setters'[t].copy[i] \in {{}, H!Given[i]}
      <4>1. setters'[t].copy = config \/ setters'[t].copy = setters[t].copy
        BY <2>2
      <4>2. QED
        BY <4>1 DEF Settled
    <3>2. QED
      BY <2>1, <3>1 DEF Settled
  <2>5. \A i \in H!Setters : setters'[i].at = "loaded" => setters'[i].copy = config'
    BY <2>1, <2>2 DEF Settled
  <2>6. ASSUME NEW i \in H!Setters, setters'[i].at = "done",
               \A t \in H!Setters \ {i} : setters'[t].at # "done over the other"
        PROVE  config'[i] = H!Given[i]
    <3>1. \A t \in H!Setters \ {i} : setters[t].at # "done over the other"
      BY <2>2, <2>3, <2>6
    <3>2. setters[i].at = "done"
      BY <2>2, <2>6
    <3>3. QED
      BY <2>1, <3>1, <3>2 DEF Settled
  <2>7. QED
    BY <2>4, <2>5, <2>6 DEF Settled
<1>3. CASE H!Store(s)
  <2> DEFINE c == setters[s].copy
  <2>1. /\ c \in Config
        /\ setters[s].at \in {"loaded", "overlapped"}
        /\ config' = [c EXCEPT ![s] = H!Given[s]]
    BY <1>1, <1>3 DEF H!Store, Setter
  <2>2. \A t \in H!Setters :
            /\ setters'[t].copy = setters[t].copy
            /\ setters'[t].at = (CASE t = s /\ setters[t].at = "loaded"     -> "done"
                                   [] t = s /\ setters[t].at = "overlapped" -> "done over the other"
                                   [] t # s /\ setters[t].at = "loaded"     -> "overlapped"
                                   [] OTHER                                 -> setters[t].at)
    BY <1>1, <1>3 DEF H!Store, Setter
  <2>3. /\ setters'[s].at = (IF setters[s].at = "loaded" THEN "done" ELSE "done over the other")
        /\ \A t \in H!Setters \ {s} :
              setters'[t].at = IF setters[t].at = "loaded" THEN "overlapped" ELSE setters[t].at
    BY <2>1, <2>2
  <2>4. config'[s] = H!Given[s] /\ \A i \in H!Setters \ {s} : config'[i] = c[i]
    BY <2>1 DEF Config
  <2>5. \A i \in H!Setters :
            /\ config'[i] \in {{}, H!Given[i]}
            /\ \A t \in H!Setters : setters'[t].copy[i] \in {{}, H!Given[i]}
    BY <2>2, <2>4 DEF Settled
  <2>6. \A i \in H!Setters : setters'[i].at # "loaded"
    BY <2>3
  <2>7. ASSUME NEW i \in H!Setters, setters'[i].at = "done",
               \A t \in H!Setters \ {i} : setters'[t].at # "done over the other"
        PROVE  config'[i] = H!Given[i]
    <3>1. CASE i = s
      BY <2>4, <3>1
    <3>2. CASE i # s
      <4>1. setters'[s].at # "done over the other"
        BY <2>7, <3>2
      <4>2. setters[s].at = "loaded"
        BY <2>3, <4>1
      <4>3. c = config
        BY <4>2 DEF Settled
      <4>4. setters[i].at = "done"
        BY <2>3, <2>7, <3>2
      <4>5. \A t \in H!Setters \ {i} : setters[t].at # "done over the other"
        BY <2>3, <2>7, <4>2
      <4>6. config[i] = H!Given[i]
        BY <4>4, <4>5 DEF Settled
      <4>7. QED
        BY <2>4, <3>2, <4>3, <4>6
    <3>3. QED
      BY <3>1, <3>2
  <2>8. QED
    BY <2>5, <2>6, <2>7 DEF Settled
<1>4. QED
  BY <1>2, <1>3

\* What is configured stays, and is of the type it has.
LEMMA SettledMeansSet ==
    ASSUME MetricTypes, Settled
    PROVE  H!BothAreSet
<1>1. ASSUME \A s \in H!Setters : setters[s].at = "done"
      PROVE  config = H!Given
  <2>1. \A s \in H!Setters : config[s] = H!Given[s]
    BY <1>1 DEF Settled
  <2>2. DOMAIN config = H!Setters
    BY DEF MetricTypes, Config
  <2>3. H!Given = [s \in H!Setters |-> H!Given[s]]
    BY DEF H!Given, H!Setters
  <2>4. config = [s \in H!Setters |-> config[s]]
    BY <2>2 DEF MetricTypes, Config
  <2>5. QED
    BY <2>1, <2>3, <2>4
<1>2. QED
  BY <1>1 DEF H!BothAreSet

-----------------------------------------------------------------------------
(***************************************************************************)
(* The gauges of the limits                                                *)
(***************************************************************************)

Resource(q) == IF q.host = H!Docker THEN H!Docker
               ELSE IF q.host = H!GitHub /\ q.answer.named THEN "core" ELSE "unknown"
Host(s)     == IF s = H!Docker THEN H!Docker ELSE H!GitHub
Recorders(s) == {r \in Requests : reqs[r].at \in {"limit", "used"} /\ Resource(reqs[r]) = s}

\* The gauges of a resource are of one answer.
Sound(s) == gauges[s].limit > 0 =>
                /\ gauges[s].remaining >= left[Host(s)]
                /\ \/ gauges[s].used = gauges[s].limit - gauges[s].remaining
                   \/ s = H!Docker /\ gauges[s].used = gauges[s].limit

\* They are as they were, or those that are set are of the answer of q.
Ongoing(s, q) ==
    /\ ~q.answer.named => Sound(s)
    /\ q.answer.named /\ (q.answer.remaining > 0 \/ s # H!Docker) =>
           gauges[s].remaining = q.answer.remaining
    /\ q.answer.named /\ q.at = "used" => gauges[s].limit = q.answer.limit

\* No more remains than an answer said.
Since(q) == q.at \in {"remaining", "limit", "used"} /\ q.answer.named =>
                q.answer.remaining >= left[q.host]

\* At most one records, unless two did.
OneAtATime(s) ==
    s \in {"core", H!Docker} \ overtaken =>
        /\ Recorders(s) = {} => Sound(s)
        /\ \A r, o \in Recorders(s) : r = o
        /\ \A r \in Recorders(s) : Ongoing(s, reqs[r])

GaugeInv == /\ \A r \in Requests : Since(reqs[r])
            /\ \A s \in H!Resources : OneAtATime(s)

\* No gauge is set.
LEMMA InitGaugeInv ==
    ASSUME H!Init
    PROVE  GaugeInv
<1>1. \A r \in Requests : reqs[r].at = "new"
  BY DEF H!Init, H!Unsent
<1>2. \A s \in H!Resources : gauges[s].limit = 0
  BY DEF H!Init, H!Unset
<1>3. \A s : Recorders(s) = {}
  BY <1>1 DEF Recorders
<1>4. {"core", H!Docker} \subseteq H!Resources
  BY DEF H!Resources
<1>5. QED
  BY <1>1, <1>2, <1>3, <1>4 DEF GaugeInv, OneAtATime, Since, Sound

\* A step that sets no gauge, by which no more remains of a quota, and which leaves
\* who records as it is.
LEMMA NoneIsSet ==
    ASSUME H!ConstantsAssumption, MetricInv, MetricInv', GaugeInv,
           UNCHANGED <<gauges, overtaken>>,
           \A h \in H!Metered : left'[h] <= left[h],
           NEW r \in Requests, \A o \in Requests \ {r} : reqs'[o] = reqs[o],
           reqs[r].at \notin {"limit", "used"}, reqs'[r].at \notin {"limit", "used"},
           Since(reqs[r])'
    PROVE  GaugeInv'
<1>1. \A h \in H!Metered : left[h] \in Int
  BY DEF MetricInv, MetricTypes, Quotas, H!ConstantsAssumption
<1>2. \A h \in H!Metered : left'[h] \in Int
  BY DEF MetricInv, MetricTypes, Quotas, H!ConstantsAssumption
<1>3. \A s \in H!Resources : gauges[s].remaining \in Int
  BY DEF MetricInv, MetricTypes, Gauge, Quotas, H!ConstantsAssumption
<1>4. \A o \in Requests : /\ reqs[o].answer.remaining \in Int
                          /\ reqs[o].at \in {"remaining", "limit", "used"} => reqs[o].host \in H!Metered
  <2>1. \A o \in Requests : reqs[o] \in Request /\ Fits(reqs[o])
    BY DEF MetricInv, MetricTypes
  <2>2. \A q \in Request : q.answer.remaining \in Int
    <3>1. \A q \in Request : q.answer \in Answer
      BY DEF Request
    <3>2. \A a \in Answer : a.remaining \in Quotas
      BY DEF Answer
    <3>3. Quotas \subseteq Int
      BY DEF Quotas
    <3>4. QED
      BY <3>1, <3>2, <3>3
  <2>3. QED
    BY <2>1, <2>2 DEF Fits
<1>5. \A s : Host(s) \in H!Metered
  BY DEF Host, H!Metered
<1>6. \A s : Recorders(s)' = Recorders(s) /\ \A o \in Recorders(s) : reqs'[o] = reqs[o] /\ o # r
  BY DEF Recorders, Resource
<1>7. ASSUME NEW s \in H!Resources, Sound(s)
      PROVE  Sound(s)'
  <2>1. gauges[s].limit > 0 => gauges[s].remaining >= left'[Host(s)]
    BY <1>1, <1>2, <1>3, <1>5, <1>7 DEF Sound
  <2>2. QED
    BY <1>7, <2>1 DEF Sound, Host
<1>8. ASSUME NEW s \in H!Resources, s \in {"core", H!Docker} \ overtaken'
      PROVE  /\ Recorders(s)' = {} => Sound(s)'
             /\ \A p, o \in Recorders(s)' : p = o
             /\ \A o \in Recorders(s)' : Ongoing(s, reqs[o])'
  <2>1. OneAtATime(s) /\ s \in {"core", H!Docker} \ overtaken
    BY <1>8 DEF GaugeInv
  <2>2. Recorders(s)' = {} => Sound(s)'
    BY <1>6, <1>7, <2>1 DEF OneAtATime
  <2>3. \A p, o \in Recorders(s)' : p = o
    BY <1>6, <2>1 DEF OneAtATime
  <2>4. ASSUME NEW o \in Recorders(s)
        PROVE  Ongoing(s, reqs[o])'
    <3>1. Ongoing(s, reqs[o]) /\ reqs'[o] = reqs[o]
      BY <1>6, <2>1, <2>4 DEF OneAtATime
    <3>2. QED
      BY <1>7, <3>1 DEF Ongoing
  <2>5. QED
    BY <1>6, <2>2, <2>3, <2>4
<1>9. ASSUME NEW o \in Requests \ {r}
      PROVE  Since(reqs[o])'
  <2>1. reqs'[o] = reqs[o] /\ Since(reqs[o])
    BY DEF GaugeInv
  <2> DEFINE q == reqs[o]
  <2>2. q.at \in {"remaining", "limit", "used"} /\ q.answer.named => q.answer.remaining >= left'[q.host]
    <3>1. q.at \in {"remaining", "limit", "used"} => q.host \in H!Metered
      BY <1>4
    <3>2. q.answer.remaining \in Int
      BY <1>4
    <3> HIDE DEF q
    <3>3. QED
      BY <1>1, <1>2, <2>1, <3>1, <3>2 DEF Since, q
  <2>3. QED
    BY <2>1, <2>2 DEF Since
<1>10. QED
  BY <1>8, <1>9 DEF GaugeInv, OneAtATime

\* A step of a request that no gauge knows of.
LEMMA QuietGauges ==
    ASSUME H!ConstantsAssumption, MetricInv, MetricInv', GaugeInv, NEW r \in Requests,
           \/ \E t \in Targets : H!Send(r, t.host, t.skip)
           \/ H!AnswerOfOthers(r) \/ H!Fail(r) \/ H!Classify(r) \/ H!Count(r)
           \/ H!Leave(r) \/ H!Panic(r)
    PROVE  GaugeInv'
<1>1. reqs \in [Requests -> Request] /\ reqs[r] \in Request
  BY DEF MetricInv, MetricTypes
<1>2. UNCHANGED <<gauges, overtaken, left>>
  BY DEF H!Send, H!AnswerOfOthers, H!Fail, H!Classify, H!Count, H!Leave, H!Panic
<1>3. reqs[r].at \in {"new", "sent", "classify", "count", "leave"}
  BY DEF H!Send, H!AnswerOfOthers, H!Fail, H!Classify, H!Count, H!Leave, H!Panic
<1>4. /\ reqs'[r].at \in {"sent", "count", "leave", "done", "panicked"}
      /\ \A o \in Requests \ {r} : reqs'[o] = reqs[o]
  <2> DEFINE OnlyTo(place) == \E q : q.at = place /\ reqs' = [reqs EXCEPT ![r] = q]
  <2>1. ASSUME NEW place, OnlyTo(place)
        PROVE  reqs'[r].at = place /\ \A o \in Requests \ {r} : reqs'[o] = reqs[o]
    BY <1>1, <2>1
  <2>2. CASE \E t \in Targets : H!Send(r, t.host, t.skip)
    <3>1. PICK t \in Targets : H!Send(r, t.host, t.skip)
      BY <2>2
    <3> DEFINE b == H!bucketize(t.host, t.skip)
               q == [reqs[r] EXCEPT !.at = "sent", !.host = t.host, !.label = b]
    <3>2. reqs' = [reqs EXCEPT ![r] = q]
      BY <3>1 DEF H!Send
    <3> HIDE DEF b
    <3>3. q.at = "sent"
      BY <1>1 DEF Request
    <3> HIDE DEF q
    <3>4. OnlyTo("sent")
      BY <3>2, <3>3
    <3> HIDE DEF OnlyTo
    <3>5. QED
      BY <2>1, <3>4
  <2>3. CASE H!AnswerOfOthers(r) \/ H!Fail(r)
    <3>1. PICK a : reqs' = [reqs EXCEPT ![r] = [reqs[r] EXCEPT !.at = "count", !.answer = a]]
      BY <2>3 DEF H!AnswerOfOthers, H!Fail
    <3> DEFINE q == [reqs[r] EXCEPT !.at = "count", !.answer = a]
    <3>2. q.at = "count"
      BY <1>1 DEF Request
    <3>3. reqs' = [reqs EXCEPT ![r] = q]
      BY <3>1
    <3> HIDE DEF q
    <3>4. OnlyTo("count")
      BY <3>2, <3>3
    <3> HIDE DEF OnlyTo
    <3>5. QED
      BY <2>1, <3>4
  <2>4. CASE H!Classify(r)
    <3>1. \/ \E b : reqs' = [reqs EXCEPT ![r] = [reqs[r] EXCEPT !.at = "count", !.body = b]]
          \/ reqs' = [reqs EXCEPT ![r].at = "count"]
      BY <2>4 DEF H!Classify
    <3>2. CASE reqs' = [reqs EXCEPT ![r].at = "count"]
      BY <1>1, <3>2 DEF Request
    <3>3. CASE \E b : reqs' = [reqs EXCEPT ![r] = [reqs[r] EXCEPT !.at = "count", !.body = b]]
      <4>1. PICK b : reqs' = [reqs EXCEPT ![r] = [reqs[r] EXCEPT !.at = "count", !.body = b]]
        BY <3>3
      <4>2. [reqs[r] EXCEPT !.at = "count", !.body = b].at = "count"
        BY <1>1 DEF Request
      <4>3. QED
        BY <1>1, <4>1, <4>2
    <3>4. QED
      BY <3>1, <3>2, <3>3
  <2>5. CASE H!Count(r) \/ H!Leave(r) \/ H!Panic(r)
    <3>1. PICK place \in {"leave", "done", "panicked"} : reqs' = [reqs EXCEPT ![r].at = place]
      BY <2>5 DEF H!Count, H!Leave, H!Panic
    <3>2. QED
      BY <1>1, <3>1 DEF Request
  <2>6. QED
    BY <2>2, <2>3, <2>4, <2>5
<1>5. \A h \in H!Metered : left'[h] <= left[h]
  BY <1>2 DEF MetricInv, MetricTypes, Quotas, H!ConstantsAssumption
<1>6. Since(reqs[r])'
  BY <1>4 DEF Since
<1>7. QED
  BY <1>2, <1>3, <1>4, <1>5, <1>6, NoneIsSet

\* No more remains than before when a request is answered.
LEMMA AnswerGauges ==
    ASSUME H!ConstantsAssumption, MetricInv, MetricInv', GaugeInv,
           NEW r \in Requests, NEW why \in Whys, NEW named \in BOOLEAN, NEW whole \in BOOLEAN,
           H!Answer(r, why, named, whole)
    PROVE  GaugeInv'
<1> DEFINE h       == reqs[r].host
           remains == IF why = "none" /\ left[h] > 0 THEN left[h] - 1 ELSE left[h]
<1>1. /\ reqs[r].at = "sent" /\ h \in H!Metered
      /\ left' = [left EXCEPT ![h] = remains]
      /\ UNCHANGED <<gauges, overtaken>>
  BY DEF H!Answer
<1>2. /\ reqs'[r].at = "remaining" /\ reqs'[r].host = h
      /\ reqs'[r].answer.named = named
      /\ reqs'[r].answer.remaining = (IF named THEN remains ELSE 0)
      /\ \A o \in Requests \ {r} : reqs'[o] = reqs[o]
  <2>1. reqs \in [Requests -> Request] /\ reqs[r] \in Request
    BY DEF MetricInv, MetricTypes
  <2>2. QED
    BY <2>1 DEF H!Answer, Request
<1>3. \A i \in H!Metered : left[i] \in Nat
  BY DEF MetricInv, MetricTypes, Quotas, H!ConstantsAssumption
<1>4. left \in [H!Metered -> Quotas]
  BY DEF MetricInv, MetricTypes
<1>5. remains <= left[h] /\ remains \in Int
  BY <1>1, <1>3
<1> HIDE DEF remains
<1>6. left'[h] = remains /\ \A i \in H!Metered \ {h} : left'[i] = left[i]
  BY <1>1, <1>4
<1>7. \A i \in H!Metered : left'[i] <= left[i]
  BY <1>3, <1>5, <1>6
<1>8. Since(reqs[r])'
  <2>1. reqs'[r].answer.named => reqs'[r].answer.remaining >= left'[reqs'[r].host]
    BY <1>2, <1>5, <1>6
  <2>2. QED
    BY <2>1 DEF Since
<1>9. QED
  BY <1>1, <1>2, <1>7, <1>8, NoneIsSet

\* A step that sets a gauge of a resource leaves the others.
LEMMA OthersStay ==
    ASSUME GaugeInv, NEW r \in Requests, NEW s, s = Resource(reqs[r]),
           \A o \in Requests \ {r} : reqs'[o] = reqs[o],
           reqs'[r].answer = reqs[r].answer, reqs'[r].host = reqs[r].host,
           reqs[r].at \in {"remaining", "limit", "used"},
           UNCHANGED left, overtaken \subseteq overtaken',
           \A d \in H!Resources \ {s} : gauges'[d] = gauges[d],
           OneAtATime(s)'
    PROVE  GaugeInv'
<1>1. \A o \in Requests : Since(reqs[o])'
  <2>1. \A o \in Requests : Since(reqs[o])
    BY DEF GaugeInv
  <2>2. Since(reqs[r])'
    BY <2>1 DEF Since
  <2>3. ASSUME NEW o \in Requests \ {r}
        PROVE  Since(reqs[o])'
    BY <2>1 DEF Since
  <2>4. QED
    BY <2>2, <2>3
<1>2. ASSUME NEW d \in H!Resources, d # s
      PROVE  OneAtATime(d)'
  <2>1. gauges'[d] = gauges[d] /\ (d \notin overtaken' => d \notin overtaken)
    BY <1>2
  <2>2. Recorders(d)' = Recorders(d)
    BY <1>2 DEF Recorders, Resource
  <2>3. \A o \in Recorders(d) : reqs'[o] = reqs[o]
    BY <1>2 DEF Recorders, Resource
  <2>4. Sound(d)' <=> Sound(d)
    BY <2>1 DEF Sound, Host
  <2>5. \A o \in Recorders(d) : Ongoing(d, reqs[o])' <=> Ongoing(d, reqs[o])
    BY <2>1, <2>3, <2>4 DEF Ongoing
  <2>6. OneAtATime(d)
    BY <1>2 DEF GaugeInv
  <2>7. QED
    BY <2>1, <2>2, <2>4, <2>5, <2>6 DEF OneAtATime
<1>3. QED
  BY <1>1, <1>2 DEF GaugeInv

\* A gauge is set to what the answer said, by the only one that records or one of
\* several.
LEMMA SetsGauges ==
    ASSUME H!ConstantsAssumption, MetricInv, MetricInv', GaugeInv, NEW r \in Requests,
           H!SetRemaining(r) \/ H!SetLimit(r) \/ H!SetUsed(r)
    PROVE  GaugeInv'
<1>1. PICK p, s : p = reqs[r] /\ s = Resource(p)
  OBVIOUS
<1> DEFINE a == p.answer
<1>2. /\ reqs \in [Requests -> Request] /\ p \in Request /\ Fits(p) /\ a \in Answer
      /\ p.at \in {"remaining", "limit", "used"} /\ p.host \in H!Metered
  BY <1>1 DEF MetricInv, MetricTypes, H!SetRemaining, H!SetLimit, H!SetUsed, Request, Fits
<1>3. H!ResourceOf(r) = s /\ s \in H!Resources /\ H!Recording(s) = Recorders(s)
  <2>1. \A o \in Requests : H!ResourceOf(o) = Resource(reqs[o])
    BY DEF H!ResourceOf, Resource, H!GitHub, H!Docker
  <2>2. QED
    BY <1>1, <2>1 DEF Resource, H!Resources, H!Recording, Recorders
<1>4. gauges \in [H!Resources -> Gauge] /\ gauges[s] \in Gauge
  BY <1>3 DEF MetricInv, MetricTypes
<1>5. /\ a.limit = (IF a.named THEN Quota ELSE 0) /\ (~a.named => a.remaining = 0)
      /\ Quota \in Nat \ {0} /\ a.remaining \in Nat
  <2>1. a.remaining \in Nat
    BY <1>2 DEF Answer, Quotas, H!ConstantsAssumption
  <2>2. QED
    BY <1>2, <2>1 DEF Fits, H!ConstantsAssumption
<1>6. ~a.named /\ s \in {"core", H!Docker} => s = H!Docker
  BY <1>1, <1>2 DEF Resource, H!Metered
<1>7. /\ reqs'[r].answer = a /\ reqs'[r].host = p.host
      /\ \A o \in Requests \ {r} : reqs'[o] = reqs[o]
  <2>1. PICK place : reqs' = [reqs EXCEPT ![r].at = place]
    BY DEF H!SetRemaining, H!SetLimit, H!SetUsed
  <2>2. QED
    BY <1>1, <1>2, <2>1 DEF Request
<1>8. UNCHANGED left /\ overtaken \subseteq overtaken'
  BY DEF H!SetRemaining, H!SetLimit, H!SetUsed
<1>9. Recorders(s)' = (Recorders(s) \ {r}) \union {o \in {r} : reqs'[r].at \in {"limit", "used"}}
  <2>1. Resource(reqs'[r]) = s
    BY <1>1, <1>7 DEF Resource
  <2>2. Recorders(s)' = {o \in Requests : reqs'[o].at \in {"limit", "used"} /\ Resource(reqs'[o]) = s}
    BY DEF Recorders, Resource
  <2>3. QED
    BY <1>7, <2>1, <2>2 DEF Recorders
<1>10. CASE H!SetRemaining(r)
  <2>1. /\ p.at = "remaining"
        /\ gauges' = [gauges EXCEPT ![s].remaining = H!Shown(s, gauges[s].remaining, a.remaining)]
        /\ reqs' = [reqs EXCEPT ![r].at = "limit"]
        /\ overtaken' = IF Recorders(s) = {} THEN overtaken ELSE overtaken \union {s}
    BY <1>1, <1>3, <1>10 DEF H!SetRemaining
  <2>2. /\ reqs'[r].at = "limit" /\ reqs'[r].answer = a
    BY <1>1, <1>2, <2>1 DEF Request
  <2>3. /\ gauges'[s].remaining = H!Shown(s, gauges[s].remaining, a.remaining)
        /\ gauges'[s].limit = gauges[s].limit /\ gauges'[s].used = gauges[s].used
        /\ \A d \in H!Resources \ {s} : gauges'[d] = gauges[d]
    <3>1. QED
      BY <1>3, <1>4, <2>1 DEF Gauge
  <2>4. ASSUME s \in {"core", H!Docker} \ overtaken'
        PROVE  /\ Recorders(s)' = {} => Sound(s)'
               /\ \A i, o \in Recorders(s)' : i = o
               /\ \A o \in Recorders(s)' : Ongoing(s, reqs[o])'
    <3>1. Recorders(s) = {} /\ s \in {"core", H!Docker} \ overtaken
      BY <2>1, <2>4
    <3>2. Recorders(s)' = {r}
      BY <1>9, <2>2, <3>1
    <3>3. Sound(s)
      BY <1>3, <3>1 DEF GaugeInv, OneAtATime
    <3>4. ~a.named => Sound(s)'
      <4>1. ~a.named => gauges'[s].remaining = gauges[s].remaining
        BY <1>5, <1>6, <2>3, <2>4 DEF H!Shown
      <4>2. QED
        BY <1>8, <2>3, <3>3, <4>1 DEF Sound, Host
    <3>5. a.remaining > 0 \/ s # H!Docker => gauges'[s].remaining = a.remaining
      BY <1>5, <2>3 DEF H!Shown
    <3>6. Ongoing(s, reqs[r])'
      <4>1. QED
        BY <2>2, <3>4, <3>5 DEF Ongoing
    <3>7. QED
      BY <3>2, <3>6
  <2>5. OneAtATime(s)'
    BY <2>4 DEF OneAtATime
  <2>6. QED
    BY <1>1, <1>2, <1>7, <1>8, <2>3, <2>5, OthersStay
<1>11. CASE H!SetLimit(r)
  <2>1. /\ p.at = "limit"
        /\ gauges' = [gauges EXCEPT ![s].limit = H!Shown(s, gauges[s].limit, a.limit)]
        /\ reqs' = [reqs EXCEPT ![r].at = "used"]
        /\ overtaken' = overtaken
    BY <1>1, <1>3, <1>11 DEF H!SetLimit
  <2>2. /\ reqs'[r].at = "used" /\ reqs'[r].answer = a
    BY <1>1, <1>2, <2>1 DEF Request
  <2>3. /\ gauges'[s].limit = H!Shown(s, gauges[s].limit, a.limit)
        /\ gauges'[s].remaining = gauges[s].remaining /\ gauges'[s].used = gauges[s].used
        /\ \A d \in H!Resources \ {s} : gauges'[d] = gauges[d]
    <3>1. QED
      BY <1>3, <1>4, <2>1 DEF Gauge
  <2>4. ASSUME s \in {"core", H!Docker} \ overtaken'
        PROVE  /\ Recorders(s)' = {} => Sound(s)'
               /\ \A i, o \in Recorders(s)' : i = o
               /\ \A o \in Recorders(s)' : Ongoing(s, reqs[o])'
    <3>1. r \in Recorders(s) /\ s \in {"core", H!Docker} \ overtaken
      BY <1>1, <2>1, <2>4 DEF Recorders
    <3>2. Recorders(s) = {r} /\ Ongoing(s, p)
      BY <1>1, <1>3, <3>1 DEF GaugeInv, OneAtATime
    <3>3. Recorders(s)' = {r}
      BY <1>9, <2>2, <3>2
    <3>4. ~a.named => Sound(s)'
      <4>1. ~a.named => gauges'[s].limit = gauges[s].limit
        BY <1>5, <1>6, <2>3, <2>4 DEF H!Shown
      <4>2. ~a.named => Sound(s)
        BY <3>2 DEF Ongoing
      <4>3. QED
        BY <1>8, <2>3, <4>1, <4>2 DEF Sound, Host
    <3>5. a.named => gauges'[s].limit = a.limit
      BY <1>5, <2>3 DEF H!Shown
    <3>6. a.named /\ (a.remaining > 0 \/ s # H!Docker) => gauges'[s].remaining = a.remaining
      BY <2>3, <3>2 DEF Ongoing
    <3>7. Ongoing(s, reqs[r])'
      <4>1. QED
        BY <2>2, <3>4, <3>5, <3>6 DEF Ongoing
    <3>8. QED
      BY <3>3, <3>7
  <2>5. OneAtATime(s)'
    BY <2>4 DEF OneAtATime
  <2>6. QED
    BY <1>1, <1>2, <1>7, <1>8, <2>3, <2>5, OthersStay
<1>12. CASE H!SetUsed(r)
  <2> DEFINE place == IF p.host = H!GitHub THEN "classify" ELSE "count"
  <2>1. /\ p.at = "used"
        /\ gauges' = IF a.limit = 0 THEN gauges
                     ELSE [gauges EXCEPT ![s].used = a.limit - a.remaining]
        /\ reqs' = [reqs EXCEPT ![r].at = place]
        /\ overtaken' = overtaken
    BY <1>1, <1>3, <1>12 DEF H!SetUsed
  <2>2. reqs'[r].at = place /\ place \notin {"limit", "used"}
    BY <1>1, <1>2, <2>1 DEF Request
  <2>3. /\ gauges'[s].used = (IF a.limit = 0 THEN gauges[s].used ELSE a.limit - a.remaining)
        /\ gauges'[s].remaining = gauges[s].remaining /\ gauges'[s].limit = gauges[s].limit
        /\ \A d \in H!Resources \ {s} : gauges'[d] = gauges[d]
    <3>1. QED
      BY <1>3, <1>4, <2>1 DEF Gauge
  <2>4. ASSUME s \in {"core", H!Docker} \ overtaken'
        PROVE  Recorders(s)' = {} /\ Sound(s)'
    <3>1. r \in Recorders(s) /\ s \in {"core", H!Docker} \ overtaken
      BY <1>1, <2>1, <2>4 DEF Recorders
    <3>2. Recorders(s) = {r} /\ Ongoing(s, p)
      BY <1>1, <1>3, <3>1 DEF GaugeInv, OneAtATime
    <3>3. Recorders(s)' = {}
      BY <1>9, <2>2, <3>2
    <3>4. ~a.named => Sound(s)'
      <4>1. ~a.named => Sound(s) /\ gauges'[s].used = gauges[s].used
        BY <1>5, <2>3, <3>2 DEF Ongoing
      <4>2. QED
        BY <1>8, <2>3, <4>1 DEF Sound, Host
    <3>5. a.named => Sound(s)'
      <4>1. a.named => /\ gauges'[s].limit = a.limit /\ gauges'[s].used = a.limit - a.remaining
                       /\ a.remaining > 0 \/ s # H!Docker => gauges'[s].remaining = a.remaining
        BY <1>5, <2>1, <2>3, <3>2 DEF Ongoing
      <4>2. a.named => a.remaining >= left'[Host(s)]
        <5>1. Since(p)
          BY <1>1 DEF GaugeInv
        <5>2. p.host = Host(s)
          BY <1>1, <1>2, <2>4 DEF Resource, Host, H!Metered, H!GitHub, H!Docker
        <5>3. QED
          BY <1>8, <2>1, <5>1, <5>2 DEF Since
      <4>3. Host(s)' = Host(s) /\ gauges'[s].remaining \in Nat
        BY <1>4, <2>3 DEF Host, Gauge, Quotas, H!ConstantsAssumption
      <4>4. left'[Host(s)] \in Nat
        <5>1. Host(s) \in H!Metered
          BY DEF Host, H!Metered
        <5>2. QED
          BY <1>8, <5>1 DEF MetricInv, MetricTypes, Quotas, H!ConstantsAssumption
      <4>5. ASSUME a.named PROVE gauges'[s].remaining >= left'[Host(s)]
        BY <1>5, <4>1, <4>2, <4>3, <4>4, <4>5
      <4>6. ASSUME a.named
            PROVE  \/ gauges'[s].used = gauges'[s].limit - gauges'[s].remaining
                   \/ s = H!Docker /\ gauges'[s].used = gauges'[s].limit
        BY <1>5, <4>1, <4>6
      <4>7. QED
        BY <4>3, <4>5, <4>6 DEF Sound
    <3>6. QED
      BY <1>2, <3>3, <3>4, <3>5 DEF Answer
  <2>5. OneAtATime(s)'
    BY <2>4 DEF OneAtATime
  <2>6. QED
    BY <1>1, <1>2, <1>7, <1>8, <2>3, <2>5, OthersStay
<1>13. QED
  BY <1>10, <1>11, <1>12

-----------------------------------------------------------------------------
(***************************************************************************)
(* The steps of HttpMetrics, and what the invariant says                   *)
(***************************************************************************)

HttpInv == MetricInv /\ Settled /\ GaugeInv

\* All of it holds at first.
LEMMA InitHttpInv ==
    ASSUME H!ConstantsAssumption
    PROVE  H!Init => HttpInv
BY InitMetricInv, InitSettled, InitGaugeInv DEF HttpInv

\* A setter touches no gauge.
LEMMA SettersGauges ==
    ASSUME GaugeInv, NEW s \in H!Setters, H!Load(s) \/ H!Store(s)
    PROVE  GaugeInv'
<1>1. UNCHANGED <<reqs, left, gauges, overtaken>>
  BY DEF H!Load, H!Store
<1>2. QED
  BY <1>1 DEF GaugeInv, Since, OneAtATime, Recorders, Resource, Sound, Host, Ongoing

\* A request sets no label of the caller.
LEMMA RequestsSettled ==
    ASSUME Settled, UNCHANGED <<config, setters>>
    PROVE  Settled'
BY DEF Settled

\* Every step keeps the invariant of the metrics.
LEMMA NextHttpInv ==
    ASSUME H!ConstantsAssumption, HttpInv, [H!Next]_(H!vars)
    PROVE  HttpInv'
<1>1. MetricInv /\ Settled /\ GaugeInv /\ MetricTypes
  BY DEF HttpInv, MetricInv
<1>2. ASSUME NEW s \in H!Setters, H!Load(s) \/ H!Store(s)
      PROVE  HttpInv'
  BY <1>1, <1>2, SettersMetricInv, SettersSettled, SettersGauges DEF HttpInv
<1>3. ASSUME NEW r \in Requests, NEW t \in Targets, H!Send(r, t.host, t.skip)
      PROVE  HttpInv'
  <2>1. MetricInv'
    BY <1>1, <1>3, SendMetricInv
  <2>2. UNCHANGED <<config, setters>>
    BY <1>3 DEF H!Send
  <2>3. QED
    BY <1>1, <1>3, <2>1, <2>2, QuietGauges, RequestsSettled DEF HttpInv
<1>4. ASSUME NEW r \in Requests, NEW why \in Whys, NEW named \in BOOLEAN, NEW whole \in BOOLEAN,
             H!Answer(r, why, named, whole)
      PROVE  HttpInv'
  <2>1. MetricInv'
    BY <1>1, <1>4, AnswerMetricInv
  <2>2. UNCHANGED <<config, setters>>
    BY <1>4 DEF H!Answer
  <2>3. QED
    BY <1>1, <1>4, <2>1, <2>2, AnswerGauges, RequestsSettled DEF HttpInv
<1>5. ASSUME NEW r \in Requests, H!AnswerOfOthers(r) \/ H!Fail(r)
      PROVE  HttpInv'
  <2>1. MetricInv'
    BY <1>1, <1>5, NoLimitMetricInv
  <2>2. UNCHANGED <<config, setters>>
    BY <1>5 DEF H!AnswerOfOthers, H!Fail
  <2>3. QED
    BY <1>1, <1>5, <2>1, <2>2, QuietGauges, RequestsSettled DEF HttpInv
<1>6. ASSUME NEW r \in Requests, H!SetRemaining(r) \/ H!SetLimit(r) \/ H!SetUsed(r)
      PROVE  HttpInv'
  <2>1. MetricInv'
    BY <1>1, <1>6, SetsMetricInv
  <2>2. UNCHANGED <<config, setters>>
    BY <1>6 DEF H!SetRemaining, H!SetLimit, H!SetUsed
  <2>3. QED
    BY <1>1, <1>6, <2>1, <2>2, SetsGauges, RequestsSettled DEF HttpInv
<1>7. ASSUME NEW r \in Requests, H!Classify(r)
      PROVE  HttpInv'
  <2>1. MetricInv'
    BY <1>1, <1>7, ClassifyMetricInv
  <2>2. UNCHANGED <<config, setters>>
    BY <1>7 DEF H!Classify
  <2>3. QED
    BY <1>1, <1>7, <2>1, <2>2, QuietGauges, RequestsSettled DEF HttpInv
<1>8. ASSUME NEW r \in Requests, H!Count(r) \/ H!Leave(r) \/ H!Panic(r)
      PROVE  HttpInv'
  <2>1. MetricInv'
    BY <1>1, <1>8, CountMetricInv, LeavesMetricInv
  <2>2. UNCHANGED <<config, setters>>
    BY <1>8 DEF H!Count, H!Leave, H!Panic
  <2>3. QED
    BY <1>1, <1>8, <2>1, <2>2, QuietGauges, RequestsSettled DEF HttpInv
<1>9. CASE UNCHANGED H!vars
  <2>1. UNCHANGED <<config, setters, reqs, left, inFlight, counted, gauges, limited, overtaken>>
    BY <1>9 DEF H!vars
  <2>2. MetricInv'
    <3>1. MetricTypes' /\ \A r \in Requests : Fits(reqs[r])'
      BY <1>1, <2>1 DEF MetricInv, MetricTypes, Fits
    <3>2. \A l, c, t : /\ Flying(l)' = Flying(l) /\ CountedAs(l, c)' = CountedAs(l, c)
                       /\ Refused(t)' = Refused(t)
      BY <2>1 DEF Flying, CountedAs, Refused, Limits403
    <3>3. Tallied'
      BY <1>1, <2>1, <3>2 DEF MetricInv, Tallied
    <3>4. QED
      BY <3>1, <3>3 DEF MetricInv
  <2>3. GaugeInv'
    BY <1>1, <2>1 DEF GaugeInv, Since, OneAtATime, Recorders, Resource, Sound, Host, Ongoing
  <2>4. QED
    BY <1>1, <2>1, <2>2, <2>3, RequestsSettled DEF HttpInv
<1>10. QED
  BY <1>2, <1>3, <1>4, <1>5, <1>6, <1>7, <1>8, <1>9 DEF H!Next, Whys

\* The gauge in flight, and what is counted.
LEMMA CountsAreTrue ==
    ASSUME H!ConstantsAssumption, MetricInv
    PROVE  H!EachOnce /\ H!KindsOfLimit
<1>1. \A l : Flying(l) = {r \in H!Running : reqs[r].label = l}
  BY DEF Flying, H!Running, Gone
<1>2. \A l, c : CountedAs(l, c) = {r \in {i \in Requests : /\ reqs[i].at \in {"leave", "done"}
                                                       /\ reqs[i].answer.status = c} :
                                      reqs[r].label = l}
  BY DEF CountedAs, Over
<1>3. \A r \in Requests : LET a == reqs[r].answer
                          IN  /\ H!LimitOf(a) \in H!Types
                              /\ H!LimitOf(a) = "primary" <=> a.remaining = 0
                              /\ H!LimitOf(a) = "secondary" <=>
                                     a.remaining # 0 /\ a.why = "secondary" /\ a.whole
  <2>1. \A r \in Requests : reqs[r].answer \in Answer
    BY DEF MetricInv, MetricTypes, Request
  <2>2. \A r \in Requests : reqs[r].answer.remaining \in Nat
    BY <2>1 DEF Answer, Quotas, H!ConstantsAssumption
  <2>3. QED
    BY <2>2, KindOfLimit
<1>4. /\ Refused("primary") = H!Spent
      /\ Refused("secondary") = H!Told
      /\ Refused("unknown") = H!Recorded \ (H!Spent \union H!Told)
  <2>1. H!Recorded = {r \in Requests : Limits403(reqs[r])}
    BY DEF H!Recorded, Limits403
  <2>2. Refused("primary") = H!Spent
    BY <1>3, <2>1 DEF Refused, H!Spent
  <2>3. Refused("secondary") = H!Told
    BY <1>3, <2>1 DEF Refused, H!Spent, H!Told
  <2>4. \A r \in Requests : H!LimitOf(reqs[r].answer) = "unknown" <=>
            H!LimitOf(reqs[r].answer) # "primary" /\ H!LimitOf(reqs[r].answer) # "secondary"
    BY <1>3 DEF H!Types
  <2>5. QED
    BY <2>1, <2>2, <2>3, <2>4 DEF Refused
<1>5. Tallied
  BY DEF MetricInv
<1>6. H!EachOnce
  <2>1. ASSUME NEW l \in H!Labels
        PROVE  inFlight[l] = H!With(H!Running, l)
    BY <1>1, <1>5, SameCount DEF Tallied, H!With
  <2>2. ASSUME NEW l \in H!Labels, NEW c \in H!Codes
        PROVE  counted[<<l, c>>] =
                   H!With({i \in Requests : /\ reqs[i].at \in {"leave", "done"}
                                            /\ reqs[i].answer.status = c}, l)
    BY <1>2, <1>5, SameCount DEF Tallied, H!With
  <2>3. QED
    BY <2>1, <2>2, Zenon DEF H!EachOnce
<1>7. H!KindsOfLimit
  <2>1. \A t \in H!Types : limited[t] = H!Cardinality(Refused(t))
    BY <1>5, SameCount DEF Tallied
  <2>2. QED
    BY <1>4, <2>1 DEF H!Types, H!KindsOfLimit
<1>8. QED
  BY <1>6, <1>7

\* When nobody records, the gauges are of one answer.
LEMMA GaugesAreTrue ==
    ASSUME GaugeInv
    PROVE  H!OfOneAnswer
<1> SUFFICES ASSUME NEW s \in {"core", H!Docker} \ overtaken,
                    gauges[s].limit > 0, H!Recording(s) = {}
             PROVE  /\ gauges[s].remaining >= left[IF s = H!Docker THEN H!Docker ELSE H!GitHub]
                    /\ \/ gauges[s].used = gauges[s].limit - gauges[s].remaining
                       \/ s = H!Docker /\ gauges[s].used = gauges[s].limit
  BY DEF H!OfOneAnswer
<1>1. \A o \in Requests : H!ResourceOf(o) = Resource(reqs[o])
  BY DEF H!ResourceOf, Resource, H!GitHub, H!Docker
<1>2. Recorders(s) = {}
  BY <1>1 DEF H!Recording, Recorders
<1>3. OneAtATime(s)
  BY DEF GaugeInv, H!Resources
<1>4. Sound(s)
  BY <1>2, <1>3 DEF OneAtATime
<1>5. QED
  BY <1>4 DEF Sound, Host

\* What the invariant says of the metrics.
LEMMA MetricsAreSo ==
    ASSUME H!ConstantsAssumption, HttpInv
    PROVE  H!MetricsAreTrue /\ H!TypeOK
<1>1. MetricInv /\ MetricTypes /\ Settled /\ GaugeInv /\ Tallied
  BY DEF HttpInv, MetricInv
<1>2. H!MetricsAreTrue
  <2>1. H!BodyStays
    BY <1>1 DEF MetricInv, Fits, H!BodyStays
  <2>2. QED
    BY <1>1, <2>1, CountsAreTrue, GaugesAreTrue, SettledMeansSet DEF H!MetricsAreTrue
<1>3. H!TypeOK
  <2> DEFINE N == 0 .. H!Cardinality(Requests)
  <2>1. /\ \A A \in SUBSET Requests : Cardinality(A) \in N /\ Cardinality(A) \in Nat
        /\ H!Cardinality(Requests) \in Nat
        /\ \A n \in Nat, A \in SUBSET Requests : n <= Cardinality(A) => n \in N
    <3>1. IsFiniteSet(Requests) /\ H!Cardinality(Requests) = Cardinality(Requests)
      BY SameCount DEF H!ConstantsAssumption
    <3>2. \A A \in SUBSET Requests :
              Cardinality(A) \in Nat /\ Cardinality(A) <= Cardinality(Requests) /\ Cardinality(Requests) \in Nat
      BY <3>1, HowMany
    <3>3. QED
      BY <3>1, <3>2
  <2> HIDE DEF N
  <2>2. /\ \A l : Flying(l) \in SUBSET Requests
        /\ \A l, c : CountedAs(l, c) \in SUBSET Requests
        /\ \A t : Refused(t) \in SUBSET Requests
    BY DEF Flying, CountedAs, Refused
  <2>3. inFlight \in [H!Labels -> N]
    <3>1. inFlight \in [H!Labels -> Int] /\ \A l \in H!Labels : inFlight[l] \in N
      BY <1>1, <2>1, <2>2 DEF MetricTypes, Tallied
    <3>2. QED
      BY <3>1
  <2>4. counted \in [H!Labels \X H!Codes -> N]
    <3>1. counted \in [H!Labels \X H!Codes -> Int]
      BY <1>1 DEF MetricTypes
    <3>2. \A l \in H!Labels, c \in H!Codes : counted[<<l, c>>] \in N
      BY <1>1, <2>1, <2>2 DEF Tallied
    <3>3. \A k \in H!Labels \X H!Codes : counted[k] \in N
      BY <3>2
    <3>4. QED
      BY <3>1, <3>3
  <2>5. limited \in [H!Types -> N]
    <3>1. limited \in [H!Types -> Nat]
      BY <1>1 DEF MetricTypes
    <3>2. \A t \in H!Types : limited[t] \in N
      BY <1>1, <2>1, <2>2 DEF Tallied
    <3>3. QED
      BY <3>1, <3>2
  <2>6. \A s \in H!Setters : config[s] \in {{}, H!Given[s]}
    BY <1>1 DEF Settled
  <2>7. \A r \in Requests : reqs[r].host \in H!Hosts /\ reqs[r].label \in H!Labels
    BY <1>1 DEF MetricTypes, Request
  <2>8. left \in [H!Metered -> 0 .. Quota] /\ overtaken \subseteq H!Resources
    BY <1>1 DEF MetricTypes, Quotas
  <2>9. gauges \in [H!Resources -> [remaining : 0 .. Quota, limit : {0, Quota}, used : 0 .. Quota]]
    BY <1>1 DEF MetricTypes, Gauge, Quotas, Limits
  <2>10. QED
    BY <2>3, <2>4, <2>5, <2>6, <2>7, <2>8, <2>9 DEF H!TypeOK, N
<1>4. QED
  BY <1>2, <1>3

-----------------------------------------------------------------------------
(***************************************************************************)
(* GitExec: what was written, and where each byte is                       *)
(***************************************************************************)

Bytes  == Seq(Nat)
Gits   == {"start", "no start", "runs", "exit 0", "exit 1", "killed", "called"}
Errors == Gits \union {"none", "writer", "already up-to-date", "failed"}
Copier == [at : {"read", "write", "over"}, chunk : Bytes, seen : [G!Writers -> Bytes]]
Result == [err : Errors, outcome : {"none", "success", "failure"}, exit : {-1, 0, 1},
           returned : Bytes, tail : Bytes]

GitTypes == /\ command \in G!Commands \union G!GoGit
            /\ git \in Gits
            /\ helper \in BOOLEAN /\ failure \in BOOLEAN
            /\ written \in Seq(G!Streams) /\ Len(written) <= MaxBytes
            /\ pipe \in [G!Streams -> Bytes]
            /\ copier \in [G!Streams -> Copier]
            /\ content \in [G!Writers -> Bytes] /\ Len(content["tail"]) <= Limit
            /\ result \in Result /\ Len(result.tail) <= Limit

\* The bytes of a pipe: those its writers have been given are the first.
BytesAt(p) == {i \in DOMAIN written : G!Wired(command)[written[i]].pipe = p}
Taken(p)   == BytesAt(p) \ (G!Range(copier[p].chunk) \union G!Range(pipe[p]))

\* A writer of one goroutine.
Sole(w, p) == w \in G!To(p) /\ \A q \in G!Streams \ {p} : w \notin G!To(q)

\* One after the other, in the order they were written: what the writers have, what
\* the goroutine has read, what is in the pipe.
Flows(p) ==
    /\ G!InOrder(copier[p].chunk) /\ G!InOrder(pipe[p])
    /\ G!Range(copier[p].chunk) \subseteq BytesAt(p) /\ G!Range(pipe[p]) \subseteq BytesAt(p)
    /\ \A c \in G!Range(copier[p].chunk), b \in G!Range(pipe[p]) : c < b
    /\ \A a \in Taken(p), b \in G!Range(copier[p].chunk) \union G!Range(pipe[p]) : a < b

\* What a writer of the pipe has is what the goroutine saw when it read.
HasAll(w, p) ==
    /\ IF w = "tail" THEN G!TheEnd(content[w], Taken(p)) ELSE G!All(content[w], Taken(p))
    /\ copier[p].at = "write" => copier[p].seen[w] = content[w]

\* A goroutine that is over has nothing left to read, and nobody writes any more.
Drained(p) == copier[p].at = "over" => git \notin {"start", "runs"} /\ ~helper /\ pipe[p] = <<>>

\* Of a command whose writers have not failed.
PipesInv ==
    command \in G!Commands /\ ~failure =>
        \A p \in G!Streams : G!Copied(p) =>
            Flows(p) /\ Drained(p) /\ \A w \in G!Writers : Sole(w, p) => HasAll(w, p)

\* What is returned is what there was when all was over.
ReturnedInv ==
    command \in G!Commands /\ result # G!NoResult =>
        /\ \A p \in G!Streams : copier[p].at = "over"
        /\ result.returned = content["captured"]
        /\ result.err # "none" => result.tail = content["tail"]

\* Before git runs there is nothing, and a call of go-git starts none.
BeforeInv ==
    /\ command \in G!GoGit => git \in {"start", "called"} /\ ~helper
    /\ git = "start" => /\ ~helper /\ result = G!NoResult
                        /\ \A p \in G!Streams : pipe[p] = <<>> /\ copier[p].at = "read"
    /\ git = "no start" => ~helper
    /\ \A p \in G!Streams : copier[p].at # "write" => copier[p].chunk = <<>>

GitInv == GitTypes /\ PipesInv /\ ReturnedInv /\ BeforeInv /\ G!OutcomeIsTrue

-----------------------------------------------------------------------------
(***************************************************************************)
(* Bytes in order                                                          *)
(***************************************************************************)

\* No bytes are all of none.
LEMMA NothingInOrder ==
    ASSUME Limit \in Nat
    PROVE  /\ G!InOrder(<<>>) /\ G!Range(<<>>) = {}
           /\ G!All(<<>>, {}) /\ G!TheEnd(<<>>, {})
BY DEF G!InOrder, G!Range, G!All, G!TheEnd

\* The bytes of a sequence.
LEMMA RangeOf ==
    ASSUME NEW s \in Bytes
    PROVE  /\ G!Range(s) = {s[i] : i \in 1 .. Len(s)} /\ G!Range(s) \subseteq Nat
           /\ G!Range(s) = {} => s = <<>>
<1>1. DOMAIN s = 1 .. Len(s) /\ Len(s) \in Nat /\ \A i \in 1 .. Len(s) : s[i] \in Nat
  BY DEF Bytes
<1>2. G!Range(s) = {s[i] : i \in 1 .. Len(s)} /\ G!Range(s) \subseteq Nat
  BY <1>1 DEF G!Range
<1>3. ASSUME G!Range(s) = {}
      PROVE  s = <<>>
  <2>1. 1 \notin 1 .. Len(s)
    BY <1>2, <1>3
  <2>2. Len(s) = 0
    BY <1>1, <2>1
  <2>3. QED
    BY <2>2 DEF Bytes
<1>4. QED
  BY <1>2, <1>3

\* What comes after stays after.
LEMMA OneAfterTheOther ==
    ASSUME NEW s \in Bytes, NEW t \in Bytes, G!InOrder(s), G!InOrder(t),
           \A a \in G!Range(s), b \in G!Range(t) : a < b
    PROVE  /\ s \o t \in Bytes /\ G!InOrder(s \o t)
           /\ G!Range(s \o t) = G!Range(s) \union G!Range(t)
<1>1. /\ s \o t \in Bytes /\ Len(s \o t) = Len(s) + Len(t)
      /\ Len(s) \in Nat /\ Len(t) \in Nat
      /\ \A i \in 1 .. Len(s) + Len(t) : (s \o t)[i] = IF i <= Len(s) THEN s[i] ELSE t[i - Len(s)]
  BY DEF Bytes
<1>2. /\ \A i \in 1 .. Len(s) : s[i] \in G!Range(s) /\ s[i] \in Nat
      /\ \A i \in 1 .. Len(t) : t[i] \in G!Range(t) /\ t[i] \in Nat
  BY RangeOf DEF Bytes
<1>3. /\ \A i, j \in 1 .. Len(s) : i < j => s[i] < s[j]
      /\ \A i, j \in 1 .. Len(t) : i < j => t[i] < t[j]
  BY DEF G!InOrder, Bytes
<1>4. G!InOrder(s \o t)
  <2>1. SUFFICES ASSUME NEW i \in 1 .. Len(s) + Len(t), NEW j \in 1 .. Len(s) + Len(t), i < j
                 PROVE  (s \o t)[i] < (s \o t)[j]
    BY <1>1 DEF G!InOrder, Bytes
  <2>2. CASE j <= Len(s)
    BY <1>1, <1>3, <2>1, <2>2
  <2>3. CASE i > Len(s)
    <3>1. i - Len(s) \in 1 .. Len(t) /\ j - Len(s) \in 1 .. Len(t) /\ i - Len(s) < j - Len(s)
      BY <1>1, <2>1, <2>3
    <3>2. t[i - Len(s)] < t[j - Len(s)]
      BY <1>3, <3>1
    <3>3. ~(i <= Len(s)) /\ ~(j <= Len(s))
      BY <1>1, <2>1, <2>3
    <3>4. QED
      BY <1>1, <2>1, <3>2, <3>3
  <2>4. CASE i <= Len(s) /\ j > Len(s)
    <3>1. i \in 1 .. Len(s) /\ j - Len(s) \in 1 .. Len(t)
      BY <1>1, <2>1, <2>4
    <3>2. ~(j <= Len(s)) /\ s[i] < t[j - Len(s)]
      BY <1>1, <1>2, <2>4, <3>1
    <3>3. QED
      BY <1>1, <2>1, <2>4, <3>2
  <2>5. QED
    BY <1>1, <2>1, <2>2, <2>3, <2>4
<1>5. G!Range(s \o t) = G!Range(s) \union G!Range(t)
  <2>1. G!Range(s \o t) = {(s \o t)[i] : i \in 1 .. Len(s) + Len(t)}
    BY <1>1, RangeOf
  <2>2. ASSUME NEW i \in 1 .. Len(s) + Len(t)
        PROVE  (s \o t)[i] \in G!Range(s) \union G!Range(t)
    BY <1>1, <1>2
  <2>3. ASSUME NEW i \in 1 .. Len(s)
        PROVE  s[i] \in G!Range(s \o t)
    <3>1. i \in 1 .. Len(s) + Len(t) /\ (s \o t)[i] = s[i]
      BY <1>1
    <3>2. QED
      BY <2>1, <3>1
  <2>4. ASSUME NEW i \in 1 .. Len(t)
        PROVE  t[i] \in G!Range(s \o t)
    <3>1. i + Len(s) \in 1 .. Len(s) + Len(t) /\ (s \o t)[i + Len(s)] = t[i]
      BY <1>1
    <3>2. QED
      BY <2>1, <3>1
  <2>5. /\ G!Range(s) = {s[i] : i \in 1 .. Len(s)}
        /\ G!Range(t) = {t[i] : i \in 1 .. Len(t)}
    BY RangeOf
  <2>6. QED
    BY <2>1, <2>2, <2>3, <2>4, <2>5
<1>6. QED
  BY <1>1, <1>4, <1>5

\* The end of what is in order is the end of it all.
LEMMA SuffixIsTheEnd ==
    ASSUME Limit \in Nat, NEW t \in Bytes, G!InOrder(t)
    PROVE  /\ G!Suffix(t) \in Bytes /\ Len(G!Suffix(t)) <= Limit
           /\ G!TheEnd(G!Suffix(t), G!Range(t))
           /\ Len(t) >= Limit => Len(G!Suffix(t)) = Limit
           /\ Len(t) <= Limit => G!Range(G!Suffix(t)) = G!Range(t)
<1> DEFINE k == IF Len(t) > Limit THEN Len(t) - Limit + 1 ELSE 1
           u == SubSeq(t, k, Len(t))
<1>1. /\ k \in 1 .. Len(t) + 1 /\ Len(t) \in Nat
      /\ Len(t) - k + 1 = (IF Len(t) > Limit THEN Limit ELSE Len(t))
  BY DEF Bytes
<1>2. \A i \in 1 .. Len(t) : t[i] \in Nat
  BY DEF Bytes
<1> HIDE DEF k
<1>3. /\ u \in Bytes /\ Len(u) = Len(t) - k + 1
      /\ \A i \in 1 .. Len(u) : u[i] = t[k + i - 1] /\ k + i - 1 \in 1 .. Len(t)
  BY <1>1, <1>2 DEF Bytes
<1> HIDE DEF u
<1>4. Len(u) <= Limit /\ (Len(t) >= Limit => Len(u) = Limit) /\ (Len(t) <= Limit => k = 1)
  BY <1>1, <1>3 DEF k
<1>5. G!InOrder(u)
  <2>1. \A i, j \in 1 .. Len(t) : i < j => t[i] < t[j]
    BY DEF G!InOrder, Bytes
  <2>2. \A i, j \in 1 .. Len(u) : i < j => k + i - 1 < k + j - 1
    BY <1>1
  <2>3. \A i, j \in 1 .. Len(u) : i < j => u[i] < u[j]
    BY <1>3, <2>1, <2>2
  <2>4. QED
    BY <1>3, <2>3 DEF G!InOrder, Bytes
<1>6. /\ G!Range(u) = {u[i] : i \in 1 .. Len(u)} /\ DOMAIN u = 1 .. Len(u)
      /\ G!Range(t) = {t[i] : i \in 1 .. Len(t)} /\ DOMAIN t = 1 .. Len(t)
  BY <1>3, RangeOf DEF Bytes
<1>7. G!Range(u) \subseteq G!Range(t)
  BY <1>3, <1>6
<1>8. \A b \in G!Range(t) \ G!Range(u), i \in DOMAIN u : b < u[i]
  <2>1. SUFFICES ASSUME NEW j \in 1 .. Len(t), t[j] \notin G!Range(u), NEW i \in 1 .. Len(u)
                 PROVE  t[j] < u[i]
    BY <1>6
  <2>2. j < k
    <3>1. ASSUME j >= k
          PROVE  FALSE
      <4>1. j - k + 1 \in 1 .. Len(u) /\ k + (j - k + 1) - 1 = j
        BY <1>1, <1>3, <2>1, <3>1
      <4>2. u[j - k + 1] = t[j]
        BY <1>3, <4>1
      <4>3. QED
        BY <1>6, <2>1, <4>1, <4>2
    <3>2. QED
      BY <1>1, <2>1, <3>1
  <2>3. j < k + i - 1 /\ k + i - 1 \in 1 .. Len(t)
    BY <1>1, <1>3, <2>1, <2>2
  <2>4. t[j] < t[k + i - 1]
    BY <1>6, <2>1, <2>3 DEF G!InOrder
  <2>5. QED
    BY <1>3, <2>1, <2>4
<1>9. Len(t) <= Limit => G!Range(u) = G!Range(t)
  <2>1. ASSUME Len(t) <= Limit, NEW j \in 1 .. Len(t)
        PROVE  t[j] \in G!Range(u)
    <3>1. k = 1 /\ Len(u) = Len(t)
      BY <1>1, <1>3, <1>4, <2>1
    <3>2. u[j] = t[j]
      BY <1>3, <2>1, <3>1
    <3>3. QED
      BY <1>6, <2>1, <3>1, <3>2
  <2>2. QED
    BY <1>7, <1>6, <2>1
<1>10. Len(u) < Limit => G!Range(u) = G!Range(t)
  BY <1>1, <1>3, <1>4, <1>9
<1>11. G!Suffix(t) = u
  BY DEF G!Suffix, u, k
<1>12. QED
  BY <1>3, <1>4, <1>5, <1>7, <1>8, <1>9, <1>10, <1>11 DEF G!TheEnd

\* The tail holds the end after each write, if it did before.
LEMMA TailStaysTheEnd ==
    ASSUME Limit \in Nat, NEW s \in Bytes, NEW t \in Bytes, NEW A, G!TheEnd(s, A), G!InOrder(t),
           \A a \in A, b \in G!Range(t) : a < b
    PROVE  G!TheEnd(G!TailWrite(s, t), A \union G!Range(t))
<1>1. /\ G!InOrder(s) /\ G!Range(s) \subseteq A /\ Len(s) \in Nat /\ Len(t) \in Nat
      /\ \A b \in A \ G!Range(s), i \in DOMAIN s : b < s[i]
      /\ Len(s) < Limit => G!Range(s) = A
  BY DEF G!TheEnd, Bytes
<1>2. CASE Len(t) >= Limit
  <2> DEFINE u == G!Suffix(t)
  <2>1. G!TailWrite(s, t) = u
    BY <1>2 DEF G!TailWrite
  <2>2. u \in Bytes /\ G!TheEnd(u, G!Range(t)) /\ Len(u) = Limit
    BY <1>2, SuffixIsTheEnd
  <2> HIDE DEF u
  <2>3. \A i \in DOMAIN u : u[i] \in G!Range(t)
    BY <2>2 DEF G!TheEnd, G!Range
  <2>4. QED
    BY <2>1, <2>2, <2>3 DEF G!TheEnd
<1>3. CASE Len(t) < Limit
  <2> DEFINE st == s \o t
             u  == G!Suffix(st)
  <2>1. G!TailWrite(s, t) = u
    BY <1>1, <1>3 DEF G!TailWrite
  <2>2. st \in Bytes /\ G!InOrder(st) /\ G!Range(st) = G!Range(s) \union G!Range(t)
    BY <1>1, OneAfterTheOther
  <2>3. Len(st) = Len(s) + Len(t)
    BY DEF Bytes
  <2> HIDE DEF st
  <2>4. /\ u \in Bytes /\ G!TheEnd(u, G!Range(st))
        /\ Len(st) >= Limit => Len(u) = Limit
    BY <2>2, SuffixIsTheEnd
  <2> HIDE DEF u
  <2>5. \A i \in DOMAIN u : u[i] \in G!Range(s) \union G!Range(t)
    BY <2>2, <2>4 DEF G!TheEnd, G!Range
  <2>6. ASSUME NEW b \in (A \union G!Range(t)) \ G!Range(u), NEW i \in DOMAIN u
        PROVE  b < u[i]
    <3>1. CASE b \in G!Range(st)
      BY <2>4, <2>6, <3>1 DEF G!TheEnd
    <3>2. CASE b \notin G!Range(st)
      <4>1. b \in A \ G!Range(s)
        BY <2>2, <2>6, <3>2
      <4>2. CASE u[i] \in G!Range(t)
        BY <4>1, <4>2
      <4>3. CASE u[i] \in G!Range(s)
        BY <1>1, <4>1, <4>3 DEF G!Range
      <4>4. QED
        BY <2>5, <4>2, <4>3
    <3>3. QED
      BY <3>1, <3>2
  <2>7. Len(u) < Limit => G!Range(u) = A \union G!Range(t)
    <3>1. ASSUME Len(u) < Limit
          PROVE  G!Range(s) = A
      BY <1>1, <2>3, <2>4, <3>1 DEF Bytes
    <3>2. QED
      BY <2>2, <2>4, <3>1 DEF G!TheEnd
  <2>8. QED
    BY <1>1, <2>1, <2>2, <2>4, <2>6, <2>7 DEF G!TheEnd
<1>4. QED
  BY <1>1, <1>2, <1>3

-----------------------------------------------------------------------------
(***************************************************************************)
(* Which writer gets which bytes                                           *)
(***************************************************************************)

\* What each writer of a command is wired to.
LEMMA WhoGetsWhat ==
    ASSUME command \in G!Commands, written \in Seq(G!Streams)
    PROVE  /\ \A s \in G!Streams : G!Wired(command)[s].pipe \in G!Streams
           /\ IF G!Combined(command)
              THEN BytesAt("stdout") = G!BytesOf(G!Streams) /\ Sole("tail", "stdout")
              ELSE /\ BytesAt("stdout") = G!BytesOf({"stdout"}) /\ BytesAt("stderr") = G!BytesOf({"stderr"})
                   /\ Sole("tail", "stderr")
           /\ command.captureStdout => Sole("captured", "stdout")
           /\ command.stdout = "a" /\ ~G!TwoAtOne => Sole("a", "stdout")
           /\ command.stderr = "b" => ~G!Combined(command) /\ Sole("b", "stderr")
<1> DEFINE W == G!Wired(command)
           captured == IF command.captureStdout THEN {"captured"} ELSE {}
<1>1. /\ command.stdout \in {"none", "a"} /\ command.stderr \in {"none", "a", "b"}
      /\ command.comparable \in BOOLEAN /\ command.captureStdout \in BOOLEAN
  BY DEF G!Commands
<1>2. G!Combined(command) <=>
          command.stdout = "a" /\ command.stderr = "a" /\ command.comparable
  BY <1>1 DEF G!Combined, G!writersEqual
<1>3. /\ W["stdout"].pipe = "stdout"
      /\ W["stderr"].pipe = (IF G!Combined(command) THEN "stdout" ELSE "stderr")
  BY DEF G!Wired
<1>4. /\ G!Combined(command) =>
             /\ W["stdout"].to = {"a", "tail"} \union captured
             /\ W["stderr"].to = {"a", "tail"} \union captured
      /\ ~G!Combined(command) =>
             /\ W["stdout"].to = G!Given(command.stdout) \union captured
             /\ W["stderr"].to = G!Given(command.stderr) \union {"tail"}
  BY <1>2 DEF G!Wired, G!Given
<1> HIDE DEF W
<1>5. \A w, p : w \in G!To(p) <=> \E s \in G!Streams : W[s].pipe = p /\ w \in W[s].to
  BY DEF G!To, W
<1>6. \A w, p : w \in G!To(p) <=> \/ W["stdout"].pipe = p /\ w \in W["stdout"].to
                                  \/ W["stderr"].pipe = p /\ w \in W["stderr"].to
  BY <1>5 DEF G!Streams
<1>7. \A i \in DOMAIN written : written[i] = "stdout" \/ written[i] = "stderr"
  BY DEF G!Streams
<1>8. CASE G!Combined(command)
  <2>1. \A w, p : w \in G!To(p) <=> p = "stdout" /\ w \in {"a", "tail"} \union captured
    BY <1>3, <1>4, <1>6, <1>8
  <2>2. BytesAt("stdout") = G!BytesOf(G!Streams)
    BY <1>3, <1>7, <1>8 DEF BytesAt, G!BytesOf, G!Streams, W
  <2>3. Sole("tail", "stdout") /\ Sole("a", "stdout")
        /\ (command.captureStdout => Sole("captured", "stdout"))
    BY <2>1 DEF Sole
  <2>4. \A s \in G!Streams : W[s].pipe \in G!Streams
    BY <1>3, <1>8 DEF G!Streams
  <2>5. QED
    BY <1>2, <1>8, <2>2, <2>3, <2>4 DEF W
<1>9. CASE ~G!Combined(command)
  <2>1. \A w, p : w \in G!To(p) <=>
                      \/ p = "stdout" /\ w \in G!Given(command.stdout) \union captured
                      \/ p = "stderr" /\ w \in G!Given(command.stderr) \union {"tail"}
    BY <1>3, <1>4, <1>6, <1>9
  <2>2. BytesAt("stdout") = G!BytesOf({"stdout"}) /\ BytesAt("stderr") = G!BytesOf({"stderr"})
    BY <1>3, <1>7, <1>9 DEF BytesAt, G!BytesOf, W
  <2>3. G!Given(command.stdout) \subseteq {"a"} /\ G!Given(command.stderr) \subseteq {"a", "b"}
    BY <1>1 DEF G!Given
  <2>4. Sole("tail", "stderr")
    BY <2>1, <2>3 DEF Sole
  <2>5. command.captureStdout => Sole("captured", "stdout")
    BY <2>1, <2>3 DEF Sole
  <2>6. command.stdout = "a" /\ ~G!TwoAtOne => Sole("a", "stdout")
    <3>1. ASSUME command.stdout = "a", ~G!TwoAtOne
          PROVE  command.stderr # "a"
      BY <1>1, <1>2, <1>9, <3>1 DEF G!TwoAtOne
    <3>2. QED
      BY <1>1, <2>1, <3>1 DEF Sole, G!Given
  <2>7. command.stderr = "b" => Sole("b", "stderr")
    BY <1>1, <2>1, <2>3 DEF Sole, G!Given
  <2>8. \A s \in G!Streams : W[s].pipe \in G!Streams
    BY <1>3, <1>9 DEF G!Streams
  <2>9. QED
    BY <1>9, <2>2, <2>4, <2>5, <2>6, <2>7, <2>8 DEF W
<1>10. QED
  BY <1>8, <1>9

-----------------------------------------------------------------------------
(***************************************************************************)
(* The steps of GitExec                                                    *)
(***************************************************************************)

\* Nothing is written.
LEMMA InitGitInv ==
    ASSUME G!ConstantsAssumption
    PROVE  G!Init => GitInv
<1> SUFFICES ASSUME G!Init PROVE GitInv
  OBVIOUS
<1>1. <<>> \in Bytes /\ Len(<<>>) = 0 /\ Limit \in Nat /\ MaxBytes \in Nat
  BY DEF Bytes, G!ConstantsAssumption
<1>2. G!Idle \in Copier /\ G!NoResult \in Result /\ G!NoResult.tail = <<>>
  BY <1>1 DEF G!Idle, Copier, G!NoResult, Result, Errors
<1>3. GitTypes
  <2>1. content \in [G!Writers -> Bytes] /\ content["tail"] = <<>>
    BY <1>1 DEF G!Init, G!Writers
  <2>2. copier \in [G!Streams -> Copier] /\ pipe \in [G!Streams -> Bytes]
    BY <1>1, <1>2 DEF G!Init
  <2>3. written \in Seq(G!Streams) /\ Len(written) <= MaxBytes
    BY <1>1 DEF G!Init
  <2>4. result \in Result /\ Len(result.tail) <= Limit
    BY <1>1, <1>2 DEF G!Init
  <2>5. Len(content["tail"]) <= Limit
    BY <1>1, <2>1
  <2>6. command \in G!Commands \union G!GoGit /\ git \in Gits /\ helper \in BOOLEAN /\ failure \in BOOLEAN
    BY DEF G!Init, Gits
  <2>7. QED
    BY <2>1, <2>2, <2>3, <2>4, <2>5, <2>6 DEF GitTypes
<1>4. PipesInv
  <2>1. ASSUME NEW p \in G!Streams
        PROVE  /\ copier[p].chunk = <<>> /\ pipe[p] = <<>> /\ copier[p].at = "read"
               /\ BytesAt(p) = {} /\ Taken(p) = {}
    BY DEF G!Init, G!Idle, BytesAt, Taken
  <2>2. ASSUME NEW p \in G!Streams
        PROVE  Flows(p) /\ Drained(p)
    BY <1>1, <2>1, NothingInOrder DEF Flows, Drained
  <2>3. ASSUME NEW p \in G!Streams, NEW w \in G!Writers
        PROVE  HasAll(w, p)
    BY <1>1, <2>1, NothingInOrder DEF HasAll, G!Init
  <2>4. QED
    BY <2>2, <2>3 DEF PipesInv
<1>5. ReturnedInv /\ G!OutcomeIsTrue
  BY DEF G!Init, ReturnedInv, G!OutcomeIsTrue
<1>6. BeforeInv
  BY DEF G!Init, BeforeInv, G!Idle
<1>7. QED
  BY <1>3, <1>4, <1>5, <1>6 DEF GitInv

\* Where the bytes are depends on what is written, read and copied.
LEMMA SameFlows ==
    ASSUME NEW p \in G!Streams, Flows(p), UNCHANGED <<command, written>>,
           pipe'[p] = pipe[p], copier'[p].chunk = copier[p].chunk
    PROVE  /\ Flows(p)' /\ Taken(p)' = Taken(p) /\ BytesAt(p)' = BytesAt(p)
<1>1. BytesAt(p)' = BytesAt(p)
  BY DEF BytesAt
<1>2. Taken(p)' = Taken(p)
  BY <1>1 DEF Taken
<1>3. QED
  BY <1>1, <1>2 DEF Flows

\* A command is wired once.
LEMMA SameWriters ==
    ASSUME UNCHANGED command
    PROVE  /\ \A p : G!To(p)' = G!To(p) /\ (G!Copied(p)' <=> G!Copied(p))
           /\ \A w, p : Sole(w, p)' <=> Sole(w, p)
BY DEF G!To, G!Copied, Sole

\* A step of git, of its helper or of the caller.
LEMMA NothingIsCopied ==
    ASSUME GitInv, UNCHANGED <<command, written, pipe, copier, content, failure>>,
           git' \in Gits, helper' \in BOOLEAN, result' \in Result, Len(result'.tail) <= Limit,
           git \notin {"start", "runs"} /\ ~helper => git' \notin {"start", "runs"} /\ ~helper',
           BeforeInv', ReturnedInv', G!OutcomeIsTrue'
    PROVE  GitInv'
<1>1. GitTypes'
  BY DEF GitInv, GitTypes
<1>2. ASSUME command \in G!Commands, ~failure, NEW p \in G!Streams, G!Copied(p)
      PROVE  /\ Flows(p)' /\ Drained(p)'
             /\ \A w \in G!Writers : Sole(w, p) => HasAll(w, p)'
  <2>1. Flows(p) /\ Drained(p) /\ \A w \in G!Writers : Sole(w, p) => HasAll(w, p)
    BY <1>2 DEF GitInv, PipesInv
  <2>2. Flows(p)' /\ Taken(p)' = Taken(p)
    BY <2>1, SameFlows
  <2>3. Drained(p)'
    BY <2>1 DEF Drained
  <2>4. QED
    BY <2>1, <2>2, <2>3 DEF HasAll
<1>3. PipesInv'
  BY <1>2, SameWriters DEF PipesInv
<1>4. QED
  BY <1>1, <1>3 DEF GitInv

\* A step of git or of its helper by which nothing is written.
LEMMA GitGoesOn ==
    ASSUME GitInv, G!Spawn \/ G!HelperEnds \/ G!GitEnds \/ G!Cancel
    PROVE  GitInv'
<1>1. UNCHANGED <<command, written, pipe, copier, content, failure, result>>
  BY DEF G!Spawn, G!HelperEnds, G!GitEnds, G!Cancel
<1>2. /\ git' \in Gits /\ helper' \in BOOLEAN
      /\ git \notin {"start", "runs"} /\ ~helper => git' \notin {"start", "runs"} /\ ~helper'
  BY DEF G!Spawn, G!HelperEnds, G!GitEnds, G!Cancel, GitInv, GitTypes, Gits
<1>3. BeforeInv'
  BY <1>1 DEF G!Spawn, G!HelperEnds, G!GitEnds, G!Cancel, GitInv, BeforeInv
<1>4. ReturnedInv' /\ G!OutcomeIsTrue' /\ result' \in Result /\ Len(result'.tail) <= Limit
  BY <1>1 DEF GitInv, GitTypes, ReturnedInv, G!OutcomeIsTrue
<1>5. QED
  BY <1>1, <1>2, <1>3, <1>4, NothingIsCopied

\* What is recorded is there when all goroutines are over.
LEMMA RecordGitInv ==
    ASSUME G!ConstantsAssumption, GitInv, G!Record
    PROVE  GitInv'
<1>1. /\ UNCHANGED <<command, git, helper, written, pipe, copier, content, failure>>
      /\ git \notin {"start", "runs"}
      /\ \A s \in G!Streams : copier[s].at = "over"
      /\ result' = [err |-> G!RunError, outcome |-> G!outcomeFor(G!RunError),
                    exit |-> G!exitCodeFor(G!RunError), returned |-> content["captured"],
                    tail |-> IF G!RunError = "none" THEN <<>> ELSE content["tail"]]
  BY DEF G!Record
<1>2. GitTypes
  BY DEF GitInv
<1>3. G!RunError \in Errors /\ G!RunError # "already up-to-date"
  BY <1>2 DEF G!RunError, Errors, Gits, GitTypes
<1> DEFINE e == G!RunError
<1> HIDE DEF e
<1>4. /\ G!outcomeFor(e) = (IF e = "none" THEN "success" ELSE "failure")
      /\ G!exitCodeFor(e) \in {-1, 0, 1}
  BY DEF G!outcomeFor, G!exitCodeFor
<1>5. /\ result'.err = e /\ result'.outcome = (IF e = "none" THEN "success" ELSE "failure")
      /\ result'.returned = content["captured"]
      /\ result'.tail = (IF e = "none" THEN <<>> ELSE content["tail"])
      /\ result'.exit \in {-1, 0, 1}
      /\ result' = [err |-> result'.err, outcome |-> result'.outcome, exit |-> result'.exit,
                    returned |-> result'.returned, tail |-> result'.tail]
  BY <1>1, <1>4 DEF e
<1>6. content["captured"] \in Bytes /\ content["tail"] \in Bytes /\ Len(content["tail"]) <= Limit
  BY <1>2 DEF GitTypes, G!Writers
<1>7. <<>> \in Bytes /\ Len(<<>>) <= Limit
  BY DEF Bytes, G!ConstantsAssumption
<1>8. result' \in Result /\ Len(result'.tail) <= Limit
  BY <1>3, <1>5, <1>6, <1>7 DEF Result, e
<1>9. ReturnedInv'
  BY <1>1, <1>5 DEF ReturnedInv
<1>10. G!OutcomeIsTrue'
  BY <1>3, <1>5 DEF G!OutcomeIsTrue, e
<1>11. BeforeInv'
  BY <1>1 DEF GitInv, BeforeInv
<1>12. git' \in Gits /\ helper' \in BOOLEAN
  BY <1>1, <1>2 DEF GitTypes
<1>13. QED
  BY <1>1, <1>8, <1>9, <1>10, <1>11, <1>12, NothingIsCopied

\* A call of go-git copies nothing.
LEMMA ObserveGitInv ==
    ASSUME GitInv, NEW err \in {"none", "already up-to-date", "failed"}, G!Observe(err)
    PROVE  GitInv'
<1> DEFINE seen == IF err = "already up-to-date" THEN "none" ELSE err
<1>1. /\ UNCHANGED <<command, helper, written, pipe, copier, content, failure>>
      /\ git = "start" /\ git' = "called" /\ command.kind = "go-git"
      /\ result' = [G!NoResult EXCEPT !.err = err, !.outcome = G!outcomeFor(seen),
                                      !.exit = G!exitCodeFor(seen)]
  BY DEF G!Observe
<1>2. GitTypes /\ BeforeInv /\ result = G!NoResult
  BY DEF GitInv, G!Observe
<1>3. /\ G!outcomeFor(seen) = (IF err = "failed" THEN "failure" ELSE "success")
      /\ G!exitCodeFor(seen) \in {-1, 0, 1}
  BY DEF G!outcomeFor, G!exitCodeFor
<1> HIDE DEF seen
<1>4. /\ result'.err = err /\ result'.outcome = (IF err = "failed" THEN "failure" ELSE "success")
      /\ result'.tail = result.tail
  BY <1>1, <1>2, <1>3 DEF G!NoResult
<1>5. result' \in Result
  BY <1>1, <1>2, <1>3 DEF G!NoResult, Result, Errors, GitTypes
<1>6. command \notin G!Commands
  BY <1>1 DEF G!Commands
<1>7. ReturnedInv' /\ G!OutcomeIsTrue'
  <2>1. ReturnedInv'
    BY <1>1, <1>6 DEF ReturnedInv
  <2>2. (result'.outcome = "failure") = (result'.err \notin {"none", "already up-to-date"})
    BY <1>4
  <2>3. G!OutcomeIsTrue'
    BY <2>2 DEF G!OutcomeIsTrue
  <2>4. QED
    BY <2>1, <2>3
<1>8. BeforeInv'
  BY <1>1, <1>2 DEF BeforeInv
<1>9. git' \in Gits /\ helper' \in BOOLEAN /\ Len(result'.tail) <= Limit
  BY <1>1, <1>2, <1>4 DEF GitTypes, Gits
<1>10. QED
  BY <1>1, <1>5, <1>7, <1>8, <1>9, NothingIsCopied

\* A goroutine for each pipe, if git starts.
LEMMA StartGitInv ==
    ASSUME GitInv, NEW ok \in BOOLEAN, G!Start(ok)
    PROVE  GitInv'
<1>1. /\ command \in G!Commands /\ git = "start"
      /\ git' = (IF ok THEN "runs" ELSE "no start")
      /\ copier' = [s \in G!Streams |-> IF ok /\ G!Copied(s) THEN G!Idle ELSE G!Over]
      /\ UNCHANGED <<command, helper, written, pipe, content, failure, result>>
  BY DEF G!Start, GitInv, GitTypes, G!GoGit
<1>2. GitTypes /\ ~helper /\ result = G!NoResult
      /\ \A p \in G!Streams : pipe[p] = <<>> /\ copier[p].at = "read" /\ copier[p].chunk = <<>>
  BY <1>1 DEF GitInv, BeforeInv
<1>3. /\ G!Idle.at = "read" /\ G!Idle.chunk = <<>> /\ G!Idle \in Copier
      /\ G!Over.at = "over" /\ G!Over.chunk = <<>> /\ G!Over \in Copier
  <2>1. <<>> \in Bytes
    BY DEF Bytes
  <2>2. G!Idle.at = "read" /\ G!Idle.chunk = <<>> /\ G!Idle \in Copier
    BY <2>1 DEF G!Idle, Copier
  <2>3. G!Over = [at |-> "over", chunk |-> <<>>, seen |-> [w \in G!Writers |-> <<>>]]
    BY DEF G!Over, G!Idle
  <2>4. G!Over.at = "over" /\ G!Over.chunk = <<>> /\ G!Over \in Copier
    BY <2>1, <2>3 DEF Copier
  <2>5. QED
    BY <2>2, <2>4
<1>4. \A p \in G!Streams : /\ copier'[p] \in Copier /\ copier'[p].chunk = <<>>
                           /\ copier'[p].at = (IF ok /\ G!Copied(p) THEN "read" ELSE "over")
  BY <1>1, <1>3
<1>5. GitTypes'
  <2>1. copier' \in [G!Streams -> Copier] /\ git' \in Gits
    BY <1>1, <1>4 DEF Gits
  <2>2. QED
    BY <1>1, <1>2, <2>1 DEF GitTypes
<1>6. ASSUME ~failure, NEW p \in G!Streams, G!Copied(p)
      PROVE  /\ Flows(p)' /\ Drained(p)'
             /\ \A w \in G!Writers : Sole(w, p) => HasAll(w, p)'
  <2>1. Flows(p) /\ \A w \in G!Writers : Sole(w, p) => HasAll(w, p)
    BY <1>1, <1>6 DEF GitInv, PipesInv
  <2>2. Flows(p)' /\ Taken(p)' = Taken(p)
    BY <1>1, <1>2, <1>4, <2>1, SameFlows
  <2>3. Drained(p)'
    BY <1>1, <1>2, <1>4, <1>6 DEF Drained
  <2>4. copier'[p].at # "write"
    BY <1>4
  <2>5. QED
    BY <1>1, <2>1, <2>2, <2>3, <2>4 DEF HasAll
<1>7. PipesInv'
  BY <1>1, <1>6, SameWriters DEF PipesInv
<1>8. ReturnedInv' /\ G!OutcomeIsTrue'
  BY <1>1, <1>2 DEF ReturnedInv, G!OutcomeIsTrue
<1>9. BeforeInv'
  <2>1. command' \notin G!GoGit
    BY <1>1 DEF G!Commands, G!GoGit
  <2>2. QED
    BY <1>1, <1>2, <1>4, <2>1 DEF BeforeInv
<1>10. QED
  BY <1>5, <1>7, <1>8, <1>9 DEF GitInv

\* The bytes that are written now come after all others.
LEMMA WriteGitInv ==
    ASSUME GitInv, NEW s \in G!Streams, NEW n \in Nat, G!Write(s, n)
    PROVE  GitInv'
<1> DEFINE p0  == G!Wired(command)[s].pipe
           old == Len(written)
           new == [i \in 1 .. n |-> s]
           t   == [i \in 1 .. n |-> old + i]
<1>1. /\ command \in G!Commands /\ git \notin {"start", "no start"}
      /\ UNCHANGED <<command, git, helper, copier, content, failure, result>>
      /\ written' = written \o new /\ old + n <= MaxBytes
      /\ pipe' = IF G!Copied(p0) /\ copier[p0].at # "over" THEN [pipe EXCEPT ![p0] = @ \o t] ELSE pipe
  BY DEF G!Write, GitInv, GitTypes, BeforeInv
<1>2. GitTypes /\ old \in Nat /\ written \in Seq(G!Streams) /\ p0 \in G!Streams
  <2>1. GitTypes /\ written \in Seq(G!Streams)
    BY DEF GitInv, GitTypes
  <2>2. p0 \in G!Streams
    BY <1>1, <2>1, WhoGetsWhat
  <2>3. QED
    BY <2>1, <2>2
<1>3. new \in Seq(G!Streams) /\ Len(new) = n
  OBVIOUS
<1>4. /\ written' \in Seq(G!Streams) /\ Len(written') = old + n
      /\ \A i \in 1 .. old : written'[i] = written[i]
      /\ \A i \in old + 1 .. old + n : written'[i] = s
  <2>1. \A i \in 1 .. n : new[i] = s
    OBVIOUS
  <2>2. written \in Seq(G!Streams) /\ new \in Seq(G!Streams) /\ Len(new) = n /\ written' = written \o new
    BY <1>1, <1>2, <1>3
  <2> HIDE DEF new, old, p0, t
  <2>3. written' \in Seq(G!Streams) /\ Len(written') = old + n
    BY <2>2 DEF old
  <2>4. \A i \in 1 .. old + n : written'[i] = IF i <= old THEN written[i] ELSE new[i - old]
    BY <2>2 DEF old
  <2>5. \A i \in 1 .. old : written'[i] = written[i]
    BY <1>2, <2>4
  <2>6. \A i \in old + 1 .. old + n : i - old \in 1 .. n /\ i \in 1 .. old + n /\ ~(i <= old)
    BY <1>2
  <2>7. QED
    BY <2>1, <2>3, <2>4, <2>5, <2>6
<1>5. t \in Bytes /\ G!InOrder(t) /\ G!Range(t) = old + 1 .. old + n
  <2>1. t \in Bytes /\ DOMAIN t = 1 .. n /\ \A i \in 1 .. n : t[i] = old + i
    BY <1>2 DEF Bytes
  <2> HIDE DEF t
  <2>2. G!InOrder(t)
    BY <1>2, <2>1 DEF G!InOrder
  <2>3. G!Range(t) = {t[i] : i \in 1 .. n}
    BY <2>1 DEF G!Range
  <2>4. \A k \in old + 1 .. old + n : k - old \in 1 .. n /\ t[k - old] = k
    BY <1>2, <2>1
  <2>5. \A i \in 1 .. n : t[i] \in old + 1 .. old + n
    BY <1>2, <2>1
  <2>6. G!Range(t) = old + 1 .. old + n
    BY <2>3, <2>4, <2>5
  <2>7. QED
    BY <2>1, <2>2, <2>6
<1>6. /\ DOMAIN written = 1 .. old /\ DOMAIN written' = 1 .. old + n
      /\ 1 .. old + n = (1 .. old) \union (old + 1 .. old + n)
      /\ \A i \in 1 .. old, j \in old + 1 .. old + n : i < j /\ i # j
  <2> HIDE DEF new, t
  <2>1. DOMAIN written = 1 .. old /\ DOMAIN written' = 1 .. old + n
    BY <1>2, <1>4
  <2> HIDE DEF old
  <2>2. QED
    BY <1>2, <2>1
<1> HIDE DEF new, t, old, p0
<1>7. \A p \in G!Streams : /\ BytesAt(p) \subseteq 1 .. old
                           /\ BytesAt(p)' = BytesAt(p) \union (IF p = p0 THEN old + 1 .. old + n ELSE {})
  BY <1>1, <1>4, <1>6 DEF BytesAt, p0
<1>8. pipe' \in [G!Streams -> Bytes] /\ \A p \in G!Streams \ {p0} : pipe'[p] = pipe[p]
  <2>1. pipe \in [G!Streams -> Bytes]
    BY <1>2 DEF GitTypes
  <2>2. pipe[p0] \o t \in Bytes
    BY <1>2, <1>5, <2>1 DEF Bytes
  <2>3. QED
    BY <1>1, <1>2, <2>1, <2>2
<1>9. GitTypes'
  BY <1>1, <1>2, <1>4, <1>8 DEF GitTypes
<1>10. ASSUME ~failure, NEW p \in G!Streams, G!Copied(p)
       PROVE  Flows(p)' /\ Taken(p)' = Taken(p) /\ Drained(p)'
  <2>1. Flows(p) /\ Drained(p)
    BY <1>1, <1>10 DEF GitInv, PipesInv
  <2>2. git \in {"start", "runs"} \/ helper
    BY DEF G!Write
  <2>3. copier[p].at # "over" /\ Drained(p)'
    BY <1>1, <2>1, <2>2 DEF Drained
  <2>4. CASE p # p0
    <3>1. BytesAt(p)' = BytesAt(p) /\ pipe'[p] = pipe[p]
      BY <1>7, <1>8, <2>4
    <3>2. Taken(p)' = Taken(p)
      BY <1>1, <3>1 DEF Taken
    <3>3. Flows(p)'
      BY <1>1, <2>1, <3>1, <3>2 DEF Flows
    <3>4. QED
      BY <2>3, <3>2, <3>3
  <2>5. CASE p = p0
    <3> DEFINE C == G!Range(copier[p].chunk)
               P == G!Range(pipe[p])
               N == old + 1 .. old + n
               B == BytesAt(p)
    <3>1. pipe[p] \in Bytes /\ pipe'[p] = pipe[p] \o t
      BY <1>1, <1>2, <1>10, <2>3, <2>5 DEF GitTypes
    <3>2. /\ B \subseteq 1 .. old /\ BytesAt(p)' = B \union N
          /\ \A a \in B, b \in N : a < b /\ a # b
      BY <1>6, <1>7, <2>5
    <3>3. /\ C \subseteq B /\ P \subseteq B /\ G!InOrder(copier[p].chunk) /\ G!InOrder(pipe[p])
          /\ \A c \in C, b \in P : c < b
          /\ \A a \in B \ (C \union P), b \in C \union P : a < b
      BY <2>1 DEF Flows, Taken
    <3> HIDE DEF B, C, P, N
    <3>4. G!InOrder(pipe[p] \o t) /\ G!Range(pipe[p] \o t) = P \union N
      <4>1. \A a \in G!Range(pipe[p]), b \in G!Range(t) : a < b
        BY <1>5, <3>2, <3>3 DEF P, N
      <4>2. QED
        BY <1>5, <3>1, <3>3, <4>1, OneAfterTheOther DEF P, N
    <3>5. Taken(p) = B \ (C \union P)
      BY DEF Taken, B, C, P
    <3>6. Taken(p)' = (B \union N) \ (C \union (P \union N))
      BY <1>1, <3>1, <3>2, <3>4 DEF Taken, C
    <3>7. Taken(p)' = Taken(p)
      BY <3>2, <3>5, <3>6
    <3>8. \A c \in C, b \in P \union N : c < b
      BY <3>2, <3>3
    <3>9. \A a \in Taken(p), b \in C \union (P \union N) : a < b
      BY <3>2, <3>3, <3>5
    <3>10. C \subseteq B \union N /\ P \union N \subseteq B \union N
      BY <3>3
    <3>11. Flows(p)'
      BY <1>1, <3>1, <3>2, <3>3, <3>4, <3>7, <3>8, <3>9, <3>10 DEF Flows, C
    <3>12. QED
      BY <2>3, <3>7, <3>11
  <2>6. QED
    BY <2>4, <2>5
<1>11. PipesInv'
  <2>1. ASSUME ~failure, NEW p \in G!Streams, G!Copied(p), NEW w \in G!Writers, Sole(w, p)
        PROVE  HasAll(w, p)'
    <3>1. HasAll(w, p)
      BY <1>1, <2>1 DEF GitInv, PipesInv
    <3>2. QED
      BY <1>1, <1>10, <2>1, <3>1 DEF HasAll
  <2>2. QED
    BY <1>1, <1>10, <2>1, SameWriters DEF PipesInv
<1>12. ReturnedInv' /\ G!OutcomeIsTrue'
  BY <1>1 DEF GitInv, ReturnedInv, G!OutcomeIsTrue
<1>13. BeforeInv'
  <2>1. command' \notin G!GoGit
    BY <1>1 DEF G!Commands, G!GoGit
  <2>2. QED
    BY <1>1, <2>1 DEF GitInv, BeforeInv
<1>14. QED
  BY <1>9, <1>11, <1>12, <1>13 DEF GitInv

\* A goroutine at work: git has started, and nothing is returned yet.
LEMMA AtWork ==
    ASSUME GitInv, NEW p \in G!Streams, copier[p].at # "over"
    PROVE  command \in G!Commands => result = G!NoResult
BY DEF GitInv, ReturnedInv

\* What is read was the pipe's, and is next for its writers.
LEMMA ReadGitInv ==
    ASSUME GitInv, NEW p \in G!Streams, G!Read(p)
    PROVE  GitInv'
<1> DEFINE c == [at |-> "write", chunk |-> pipe[p], seen |-> content]
<1>1. /\ git # "start" /\ copier[p].at = "read"
      /\ copier' = [copier EXCEPT ![p] = c]
      /\ pipe' = [pipe EXCEPT ![p] = <<>>]
      /\ UNCHANGED <<command, git, helper, written, content, failure, result>>
  BY DEF G!Read
<1>2. GitTypes /\ copier[p].chunk = <<>>
  BY <1>1 DEF GitInv, BeforeInv
<1>3. /\ <<>> \in Bytes /\ pipe[p] \in Bytes /\ pipe \in [G!Streams -> Bytes]
      /\ content \in [G!Writers -> Bytes] /\ copier \in [G!Streams -> Copier]
  BY <1>2 DEF GitTypes, Bytes
<1>4. c \in Copier /\ c.at = "write" /\ c.chunk = pipe[p] /\ c.seen = content
  BY <1>3 DEF Copier
<1> HIDE DEF c
<1>5. /\ copier' \in [G!Streams -> Copier] /\ pipe' \in [G!Streams -> Bytes]
      /\ copier'[p] = c /\ pipe'[p] = <<>>
      /\ \A q \in G!Streams \ {p} : copier'[q] = copier[q] /\ pipe'[q] = pipe[q]
  BY <1>1, <1>3, <1>4
<1>6. GitTypes'
  BY <1>1, <1>2, <1>5 DEF GitTypes
<1>7. ASSUME command \in G!Commands, ~failure, NEW q \in G!Streams, G!Copied(q)
      PROVE  /\ Flows(q)' /\ Drained(q)'
             /\ \A w \in G!Writers : Sole(w, q) => HasAll(w, q)'
  <2>1. Flows(q) /\ Drained(q) /\ \A w \in G!Writers : Sole(w, q) => HasAll(w, q)
    BY <1>7 DEF GitInv, PipesInv
  <2>2. CASE q # p
    <3>1. Flows(q)' /\ Taken(q)' = Taken(q) /\ copier'[q] = copier[q] /\ pipe'[q] = pipe[q]
      BY <1>1, <1>5, <2>1, <2>2, SameFlows
    <3>2. QED
      BY <1>1, <2>1, <3>1 DEF Drained, HasAll
  <2>3. CASE q = p
    <3>1. /\ G!Range(<<>>) = {} /\ G!InOrder(<<>>)
      BY DEF G!Range, G!InOrder
    <3>2. BytesAt(p)' = BytesAt(p)
      BY <1>1 DEF BytesAt
    <3>3. Taken(p)' = Taken(p)
      BY <1>2, <1>4, <1>5, <3>1, <3>2 DEF Taken
    <3>4. Flows(p)'
      BY <1>2, <1>4, <1>5, <2>1, <2>3, <3>1, <3>2, <3>3 DEF Flows
    <3>5. Drained(p)'
      BY <1>4, <1>5 DEF Drained
    <3>6. \A w \in G!Writers : Sole(w, p) => HasAll(w, p)'
      BY <1>1, <1>4, <1>5, <2>1, <2>3, <3>3 DEF HasAll
    <3>7. QED
      BY <2>3, <3>4, <3>5, <3>6
  <2>4. QED
    BY <2>2, <2>3
<1>8. PipesInv'
  BY <1>1, <1>7, SameWriters DEF PipesInv
<1>9. ReturnedInv' /\ G!OutcomeIsTrue'
  BY <1>1, AtWork DEF GitInv, ReturnedInv, G!OutcomeIsTrue
<1>10. BeforeInv'
  BY <1>1, <1>4, <1>5 DEF GitInv, BeforeInv
<1>11. QED
  BY <1>6, <1>8, <1>9, <1>10 DEF GitInv

\* A chunk more, for each writer of the pipe.
LEMMA CopyGitInv ==
    ASSUME G!ConstantsAssumption, GitInv, NEW p \in G!Streams, G!CopyTo(p)
    PROVE  GitInv'
<1> DEFINE c == copier[p]
<1>1. /\ c.at = "write" /\ git # "start"
      /\ content' = [w \in G!Writers |->
                        CASE w \notin G!To(p)                -> content[w]
                          [] w \in G!To(p) /\ w = "tail"     -> G!TailWrite(c.seen[w], c.chunk)
                          [] OTHER                           -> c.seen[w] \o c.chunk]
      /\ copier' = [copier EXCEPT ![p] = G!Idle]
      /\ UNCHANGED <<command, git, helper, written, pipe, failure, result>>
  BY DEF G!CopyTo, GitInv, BeforeInv
<1>2. GitTypes /\ c \in Copier /\ c.chunk \in Bytes /\ \A w \in G!Writers : c.seen[w] \in Bytes
  BY DEF GitInv, GitTypes, Copier
<1>3. G!Idle \in Copier /\ G!Idle.at = "read" /\ G!Idle.chunk = <<>>
  <2>1. <<>> \in Bytes
    BY DEF Bytes
  <2>2. QED
    BY <2>1 DEF G!Idle, Copier
<1>4. \A w \in G!Writers :
          /\ w \notin G!To(p) => content'[w] = content[w]
          /\ w \in G!To(p) /\ w # "tail" => content'[w] = c.seen[w] \o c.chunk
  BY <1>1
<1>5. "tail" \in G!To(p) => content'["tail"] = G!TailWrite(c.seen["tail"], c.chunk)
  BY <1>1 DEF G!Writers
<1>6. /\ copier' \in [G!Streams -> Copier] /\ copier'[p] = G!Idle
      /\ \A q \in G!Streams \ {p} : copier'[q] = copier[q]
  BY <1>1, <1>2, <1>3 DEF GitTypes
<1> HIDE DEF c
<1>7. Limit \in Nat
  BY DEF G!ConstantsAssumption
<1>8. \A s, t \in Bytes : G!TailWrite(s, t) \in Bytes /\ Len(G!TailWrite(s, t)) <= Limit
  <2>1. \A u \in Bytes : G!Suffix(u) \in Bytes /\ Len(G!Suffix(u)) <= Limit
    <3>1. SUFFICES ASSUME NEW u \in Bytes PROVE G!Suffix(u) \in Bytes /\ Len(G!Suffix(u)) <= Limit
      OBVIOUS
    <3> DEFINE k == IF Len(u) > Limit THEN Len(u) - Limit + 1 ELSE 1
               v == SubSeq(u, k, Len(u))
    <3>2. /\ k \in 1 .. Len(u) + 1 /\ Len(u) \in Nat
          /\ Len(u) - k + 1 = (IF Len(u) > Limit THEN Limit ELSE Len(u))
      BY <1>7 DEF Bytes
    <3> HIDE DEF k
    <3>3. v \in Bytes /\ Len(v) = Len(u) - k + 1
      BY <3>2 DEF Bytes
    <3> HIDE DEF v
    <3>4. v \in Bytes /\ Len(v) <= Limit
      BY <1>7, <3>2, <3>3
    <3>5. G!Suffix(u) = v
      BY DEF G!Suffix, v, k
    <3>6. QED
      BY <3>4, <3>5
  <2>2. \A s, t \in Bytes : s \o t \in Bytes
    BY DEF Bytes
  <2>3. QED
    BY <2>1, <2>2 DEF G!TailWrite
<1>9. GitTypes'
  <2>1. \A w \in G!Writers : content'[w] \in Bytes
    <3>1. \A w \in G!Writers : content[w] \in Bytes /\ c.seen[w] \o c.chunk \in Bytes
      BY <1>2 DEF GitTypes, Bytes
    <3>2. \A w \in G!Writers : w # "tail" => content'[w] \in Bytes
      BY <1>4, <3>1
    <3>3. content'["tail"] \in Bytes
      BY <1>2, <1>4, <1>5, <1>8, <3>1 DEF G!Writers
    <3>4. QED
      BY <3>2, <3>3
  <2>2. content' \in [G!Writers -> Bytes]
    <3>1. content' = [w \in G!Writers |-> content'[w]]
      BY <1>1
    <3>2. QED
      BY <2>1, <3>1
  <2>3. Len(content'["tail"]) <= Limit
    BY <1>2, <1>4, <1>5, <1>8 DEF G!Writers, GitTypes
  <2>4. QED
    BY <1>1, <1>2, <1>6, <2>2, <2>3 DEF GitTypes
<1>10. ASSUME command \in G!Commands, ~failure, NEW q \in G!Streams, G!Copied(q)
       PROVE  /\ Flows(q)' /\ Drained(q)'
              /\ \A w \in G!Writers : Sole(w, q) => HasAll(w, q)'
  <2>1. Flows(q) /\ Drained(q) /\ \A w \in G!Writers : Sole(w, q) => HasAll(w, q)
    BY <1>10 DEF GitInv, PipesInv
  <2>2. CASE q # p
    <3>1. copier'[q] = copier[q]
      BY <1>6, <2>2
    <3>2. Flows(q)' /\ Taken(q)' = Taken(q)
      BY <1>1, <2>1, <3>1, SameFlows
    <3>3. Drained(q)'
      BY <1>1, <2>1, <3>1 DEF Drained
    <3>4. \A w \in G!Writers : Sole(w, q) => content'[w] = content[w]
      BY <1>4, <2>2 DEF Sole
    <3>5. QED
      BY <2>1, <3>1, <3>2, <3>3, <3>4 DEF HasAll
  <2>3. CASE q = p
    <3> DEFINE C == G!Range(c.chunk)
               P == G!Range(pipe[p])
               B == BytesAt(p)
               T == Taken(p)
    <3>1. G!Range(<<>>) = {} /\ G!InOrder(<<>>)
      BY DEF G!Range, G!InOrder
    <3>2. /\ C \subseteq B /\ P \subseteq B /\ G!InOrder(c.chunk) /\ G!InOrder(pipe[p])
          /\ \A i \in C, b \in P : i < b
          /\ \A a \in T, b \in C \union P : a < b
          /\ T = B \ (C \union P)
      BY <2>1, <2>3 DEF Flows, Taken, c
    <3>3. C \subseteq Nat /\ P \subseteq Nat /\ pipe[p] \in Bytes
      BY <1>2, RangeOf DEF GitTypes
    <3> HIDE DEF C, P, B, T
    <3>4. BytesAt(p)' = B
      BY <1>1 DEF BytesAt, B
    <3>5. Taken(p)' = B \ P
      BY <1>1, <1>3, <1>6, <3>1, <3>4 DEF Taken, P
    <3>6. B \ P = T \union C /\ \A a \in T \union C, b \in P : a < b
      <4>1. ASSUME NEW i \in C, i \in P
            PROVE  FALSE
        <5>1. i < i /\ i \in Nat
          BY <3>2, <3>3, <4>1
        <5>2. QED
          BY <5>1
      <4>2. \A a \in T \union C, b \in P : a < b
        BY <3>2
      <4>3. QED
        BY <3>2, <4>1, <4>2
    <3>7. Flows(p)'
      BY <1>1, <1>3, <1>6, <3>1, <3>2, <3>4, <3>5, <3>6 DEF Flows, P
    <3>8. Drained(p)'
      BY <1>3, <1>6 DEF Drained
    <3>9. ASSUME NEW w \in G!Writers, Sole(w, p)
          PROVE  HasAll(w, p)'
      <4>1. HasAll(w, p) /\ w \in G!To(p) /\ c.seen[w] = content[w] /\ content[w] \in Bytes
        BY <1>1, <1>2, <2>1, <2>3, <3>9 DEF Sole, HasAll, c, GitTypes
      <4>2. CASE w = "tail"
        <5>1. G!TheEnd(content["tail"], T)
          BY <4>1, <4>2 DEF HasAll, T
        <5>2. G!TheEnd(G!TailWrite(content["tail"], c.chunk), T \union C)
          BY <1>2, <1>7, <3>2, <4>1, <4>2, <5>1, TailStaysTheEnd DEF C
        <5>3. content'["tail"] = G!TailWrite(content["tail"], c.chunk)
          BY <1>5, <4>1, <4>2
        <5>4. G!TheEnd(content["tail"], Taken(p))'
          BY <3>5, <3>6, <5>2, <5>3 DEF G!TheEnd, G!InOrder
        <5>5. QED
          BY <1>3, <1>6, <4>2, <5>4 DEF HasAll
      <4>3. CASE w # "tail"
        <5>1. G!InOrder(content[w]) /\ G!Range(content[w]) = T
          BY <4>1, <4>3 DEF HasAll, G!All, T
        <5>2. /\ G!InOrder(content[w] \o c.chunk)
              /\ G!Range(content[w] \o c.chunk) = T \union C
          BY <1>2, <3>2, <4>1, <5>1, OneAfterTheOther DEF C
        <5>3. content'[w] = content[w] \o c.chunk
          BY <1>4, <4>1, <4>3
        <5>4. G!All(content[w], Taken(p))'
          BY <3>5, <3>6, <5>2, <5>3 DEF G!All, G!InOrder
        <5>5. QED
          BY <1>3, <1>6, <4>3, <5>4 DEF HasAll
      <4>4. QED
        BY <4>2, <4>3
    <3>10. QED
      BY <2>3, <3>7, <3>8, <3>9
  <2>4. QED
    BY <2>2, <2>3
<1>11. PipesInv'
  BY <1>1, <1>10, SameWriters DEF PipesInv
<1>12. ReturnedInv' /\ G!OutcomeIsTrue'
  BY <1>1, AtWork DEF GitInv, ReturnedInv, G!OutcomeIsTrue, c
<1>13. BeforeInv'
  BY <1>1, <1>3, <1>6 DEF GitInv, BeforeInv
<1>14. QED
  BY <1>9, <1>11, <1>12, <1>13 DEF GitInv

\* The goroutine is over: its writer has failed, or its pipe is at the end.
LEMMA OverGitInv ==
    ASSUME GitInv, NEW p \in G!Streams, G!CopyFails(p) \/ G!CopyEnds(p)
    PROVE  GitInv'
<1>1. /\ copier[p].at # "over" /\ git # "start"
      /\ copier' = [copier EXCEPT ![p] = G!Over]
      /\ UNCHANGED <<command, git, helper, written, content, result>>
      /\ \/ failure' /\ pipe' = [pipe EXCEPT ![p] = <<>>]
         \/ /\ copier[p].at = "read" /\ pipe[p] = <<>> /\ git \notin {"start", "runs"} /\ ~helper
            /\ UNCHANGED <<pipe, failure>>
  BY DEF G!CopyFails, G!CopyEnds, GitInv, BeforeInv
<1>2. GitTypes /\ pipe \in [G!Streams -> Bytes] /\ copier \in [G!Streams -> Copier] /\ <<>> \in Bytes
  BY DEF GitInv, GitTypes, Bytes
<1>3. G!Over.at = "over" /\ G!Over.chunk = <<>> /\ G!Over \in Copier
  <2>1. G!Over = [at |-> "over", chunk |-> <<>>, seen |-> [w \in G!Writers |-> <<>>]]
    BY DEF G!Over, G!Idle
  <2>2. QED
    BY <1>2, <2>1 DEF Copier
<1>4. /\ copier' \in [G!Streams -> Copier] /\ copier'[p] = G!Over
      /\ \A q \in G!Streams \ {p} : copier'[q] = copier[q]
  BY <1>1, <1>2, <1>3
<1>5. GitTypes'
  <2>1. pipe' \in [G!Streams -> Bytes] /\ failure' \in BOOLEAN
    BY <1>1, <1>2 DEF GitTypes, G!CopyFails, G!CopyEnds
  <2>2. QED
    BY <1>1, <1>2, <1>4, <2>1 DEF GitTypes
<1>6. ASSUME command \in G!Commands, ~failure', NEW q \in G!Streams, G!Copied(q)
      PROVE  /\ Flows(q)' /\ Drained(q)'
             /\ \A w \in G!Writers : Sole(w, q) => HasAll(w, q)'
  <2>1. /\ copier[p].at = "read" /\ pipe[p] = <<>> /\ git \notin {"start", "runs"} /\ ~helper
        /\ UNCHANGED <<pipe, failure>>
    BY <1>1, <1>6
  <2>2. Flows(q) /\ Drained(q) /\ \A w \in G!Writers : Sole(w, q) => HasAll(w, q)
    BY <1>6, <2>1 DEF GitInv, PipesInv
  <2>3. copier'[q].chunk = copier[q].chunk
    <3>1. copier[p].chunk = <<>>
      BY <2>1 DEF GitInv, BeforeInv
    <3>2. QED
      BY <1>3, <1>4, <3>1
  <2>4. Flows(q)' /\ Taken(q)' = Taken(q)
    BY <1>1, <2>1, <2>2, <2>3, SameFlows
  <2>5. Drained(q)'
    BY <1>1, <1>4, <2>1, <2>2 DEF Drained
  <2>6. copier'[q].at = "write" => copier'[q] = copier[q]
    BY <1>3, <1>4
  <2>7. QED
    BY <1>1, <2>2, <2>4, <2>5, <2>6 DEF HasAll
<1>7. PipesInv'
  BY <1>1, <1>6, SameWriters DEF PipesInv
<1>8. ReturnedInv' /\ G!OutcomeIsTrue'
  BY <1>1, AtWork DEF GitInv, ReturnedInv, G!OutcomeIsTrue
<1>9. BeforeInv'
  BY <1>1, <1>3, <1>4 DEF GitInv, BeforeInv
<1>10. QED
  BY <1>5, <1>7, <1>8, <1>9 DEF GitInv

\* Every step keeps the invariant of git.
LEMMA NextGitInv ==
    ASSUME G!ConstantsAssumption, GitInv, [G!Next]_(G!vars)
    PROVE  GitInv'
<1>1. CASE UNCHANGED G!vars
  <2>1. UNCHANGED <<command, git, helper, written, pipe, copier, content, failure, result>>
    BY <1>1 DEF G!vars
  <2>2. BeforeInv' /\ ReturnedInv' /\ G!OutcomeIsTrue'
    BY <2>1 DEF GitInv, BeforeInv, ReturnedInv, G!OutcomeIsTrue
  <2>3. git' \in Gits /\ helper' \in BOOLEAN /\ result' \in Result /\ Len(result'.tail) <= Limit
    BY <2>1 DEF GitInv, GitTypes
  <2>4. QED
    BY <2>1, <2>2, <2>3, NothingIsCopied
<1>2. ASSUME NEW ok \in BOOLEAN, G!Start(ok)
      PROVE  GitInv'
  BY <1>2, StartGitInv
<1>3. ASSUME NEW s \in G!Streams, NEW n \in 1 .. MaxWrite, G!Write(s, n)
      PROVE  GitInv'
  BY <1>3, WriteGitInv DEF G!ConstantsAssumption
<1>4. ASSUME G!Spawn \/ G!HelperEnds \/ G!GitEnds \/ G!Cancel
      PROVE  GitInv'
  BY <1>4, GitGoesOn
<1>5. ASSUME NEW p \in G!Streams, G!Read(p) \/ G!CopyTo(p) \/ G!CopyFails(p) \/ G!CopyEnds(p)
      PROVE  GitInv'
  BY <1>5, ReadGitInv, CopyGitInv, OverGitInv
<1>6. ASSUME G!Record \/ \E err \in {"none", "already up-to-date", "failed"} : G!Observe(err)
      PROVE  GitInv'
  BY <1>6, RecordGitInv, ObserveGitInv
<1>7. QED
  BY <1>1, <1>2, <1>3, <1>4, <1>5, <1>6 DEF G!Next

\* What the invariant says of a call of git.
LEMMA ItWasSo ==
    ASSUME GitInv
    PROVE  G!AsItWas /\ G!TypeOK
<1>1. GitTypes
  BY DEF GitInv
<1>2. ASSUME result # G!NoResult, command.kind = "exec", ~failure
      PROVE  /\ \A w \in G!Writers, p \in G!Streams :
                    Sole(w, p) => IF w = "tail" THEN G!TheEnd(content[w], BytesAt(p))
                                  ELSE G!All(content[w], BytesAt(p))
             /\ command \in G!Commands
             /\ result.returned = content["captured"]
             /\ result.err # "none" => result.tail = content["tail"]
  <2>1. command \in G!Commands
    BY <1>1, <1>2 DEF GitTypes, G!GoGit
  <2>2. /\ \A p \in G!Streams : copier[p].at = "over"
        /\ result.returned = content["captured"]
        /\ result.err # "none" => result.tail = content["tail"]
    BY <1>2, <2>1 DEF GitInv, ReturnedInv
  <2>3. ASSUME NEW w \in G!Writers, NEW p \in G!Streams, Sole(w, p)
        PROVE  IF w = "tail" THEN G!TheEnd(content[w], BytesAt(p)) ELSE G!All(content[w], BytesAt(p))
    <3>1. G!Copied(p)
      BY <2>3 DEF Sole, G!Copied
    <3>2. HasAll(w, p) /\ Drained(p)
      BY <1>2, <2>1, <2>3, <3>1 DEF GitInv, PipesInv
    <3>3. pipe[p] = <<>> /\ copier[p].chunk = <<>>
      BY <2>2, <3>2 DEF Drained, GitInv, BeforeInv
    <3>4. Taken(p) = BytesAt(p)
      BY <3>3 DEF Taken, G!Range
    <3>5. QED
      BY <3>2, <3>4 DEF HasAll
  <2>4. QED
    BY <2>1, <2>2, <2>3
<1>3. G!AllOfIt
  <2> DEFINE err == IF G!Combined(command) THEN G!Streams ELSE {"stderr"}
             out == IF G!Combined(command) THEN G!Streams ELSE {"stdout"}
  <2>1. SUFFICES ASSUME result # G!NoResult, command.kind = "exec", ~failure
                 PROVE  /\ command.captureStdout => G!All(result.returned, G!BytesOf(out))
                        /\ result.err # "none" => G!TheEnd(result.tail, G!BytesOf(err))
                        /\ command.stdout = "a" /\ ~G!TwoAtOne => G!All(content["a"], G!BytesOf(out))
                        /\ command.stderr = "b" => G!All(content["b"], G!BytesOf(err))
    BY DEF G!AllOfIt
  <2>2. command \in G!Commands /\ written \in Seq(G!Streams)
    BY <1>1, <1>2, <2>1 DEF GitTypes
  <2>3. BytesAt("stdout") = G!BytesOf(out)
    BY <2>2, WhoGetsWhat
  <2>4. ~G!Combined(command) => BytesAt("stderr") = G!BytesOf(err)
    BY <2>2, WhoGetsWhat
  <2>5. G!Combined(command) => BytesAt("stdout") = G!BytesOf(err)
    BY <2>2, WhoGetsWhat
  <2> HIDE DEF err, out
  <2>6. {"captured", "tail", "a", "b"} \subseteq G!Writers /\ {"stdout", "stderr"} \subseteq G!Streams
    BY DEF G!Writers, G!Callers, G!Streams
  <2>7. command.captureStdout => G!All(result.returned, G!BytesOf(out))
    BY <1>2, <2>1, <2>2, <2>3, <2>6, WhoGetsWhat
  <2>8. result.err # "none" => G!TheEnd(result.tail, G!BytesOf(err))
    BY <1>2, <2>1, <2>2, <2>4, <2>5, <2>6, WhoGetsWhat
  <2>9. command.stdout = "a" /\ ~G!TwoAtOne => G!All(content["a"], G!BytesOf(out))
    BY <1>2, <2>1, <2>2, <2>3, <2>6, WhoGetsWhat
  <2>10. command.stderr = "b" => G!All(content["b"], G!BytesOf(err))
    BY <1>2, <2>1, <2>2, <2>4, <2>6, WhoGetsWhat
  <2>11. QED
    BY <2>7, <2>8, <2>9, <2>10
<1>4. G!TypeOK
  BY <1>1 DEF GitTypes, G!TypeOK, Gits, Copier, Result
<1>5. QED
  BY <1>3, <1>4 DEF GitInv, G!AsItWas

-----------------------------------------------------------------------------
(***************************************************************************)
(* What the parts promise                                                  *)
(***************************************************************************)

\* Whatever the platform writes and whichever services send or lose their spans,
\* a span hangs on its caller, and a trace is kept whole or not at all by the
\* services of one rate (restoreTraceparentHeader, newSamplingProcessor, otlp.go).
THEOREM TraceIsOneTree == ASSUME ConstantsAssumption
                          PROVE  Spec => []OneTree
<1>1. Init => TraceInv
  BY InitInv
<1>2. TraceInv /\ [Next]_vars => TraceInv'
  BY NextInv
<1>3. TraceInv => OneTree
  BY InvIsOneTree
<1>4. QED
  BY <1>1, <1>2, <1>3, PTL DEF Spec

\* For any finitely many requests, whichever of them overlap, panic, or are answered
\* with a limit: the gauges in flight and the counters are those of the requests
\* there are, the gauges of a limit are of one answer unless two recorded at once,
\* and what is measured of a handler is what its caller saw (WrapTransport,
\* setGithubMetrics, Handler, SetBuckets).
THEOREM MetricsStayTrue == ASSUME H!ConstantsAssumption, S!ConstantsAssumption
                           PROVE  H!Spec /\ S!Spec => []MetricsAreTrue
<1>1. H!Init => HttpInv
  BY InitHttpInv
<1>2. HttpInv /\ [H!Next]_(H!vars) => HttpInv'
  BY NextHttpInv
<1>3. S!Init => ServerInv
  BY InitServerInv
<1>4. ServerInv /\ [S!Next]_(S!vars) => ServerInv'
  BY NextServerInv
<1>5. HttpInv /\ ServerInv => MetricsAreTrue
  BY MetricsAreSo, ServedIsSo DEF MetricsAreTrue
<1>6. QED
  BY <1>1, <1>2, <1>3, <1>4, <1>5, PTL DEF H!Spec, S!Spec

\* However git and its helpers write, and in whatever pieces it is copied: what the
\* caller gets is what was written, whole and in order, or the end of it as the tail
\* of an error, and the outcome that is logged is that of the command (Exec, tailWriter).
THEOREM GitIsAsItWas == ASSUME G!ConstantsAssumption
                        PROVE  G!Spec => []AsItWas
<1>1. G!Init => GitInv
  BY InitGitInv
<1>2. GitInv /\ [G!Next]_(G!vars) => GitInv'
  BY NextGitInv
<1>3. GitInv => AsItWas
  BY ItWasSo DEF AsItWas
<1>4. QED
  BY <1>1, <1>2, <1>3, PTL DEF G!Spec

\* Every part keeps its types: a span comes after its parent, no gauge leaves its
\* bounds, and the tail is never longer than its limit.
THEOREM ObservedTypes == ASSUME ConstantsAssumption, H!ConstantsAssumption, S!ConstantsAssumption,
                                G!ConstantsAssumption
                         PROVE  Spec /\ H!Spec /\ S!Spec /\ G!Spec => []ObservedTypeOK
<1>1. Init => TraceInv /\ BoundedInv
  BY InitInv, InitBounded
<1>2. TraceInv /\ BoundedInv /\ [Next]_vars => TraceInv' /\ BoundedInv'
  BY NextInv, NextBounded
<1>3. H!Init => HttpInv
  BY InitHttpInv
<1>4. HttpInv /\ [H!Next]_(H!vars) => HttpInv'
  BY NextHttpInv
<1>5. S!Init => ServerInv
  BY InitServerInv
<1>6. ServerInv /\ [S!Next]_(S!vars) => ServerInv'
  BY NextServerInv
<1>7. G!Init => GitInv
  BY InitGitInv
<1>8. GitInv /\ [G!Next]_(G!vars) => GitInv'
  BY NextGitInv
<1>9. TraceInv /\ BoundedInv /\ HttpInv /\ ServerInv /\ GitInv => ObservedTypeOK
  BY InvIsTyped, MetricsAreSo, ServedIsSo, ItWasSo DEF ObservedTypeOK
<1>10. QED
  BY <1>1, <1>2, <1>3, <1>4, <1>5, <1>6, <1>7, <1>8, <1>9, PTL DEF Spec, H!Spec, S!Spec, G!Spec
=============================================================================
