----------------------------- MODULE IngressProofs -----------------------------
(***************************************************************************)
(* Proofs about the ingress, for any events, types, keys, tokens,          *)
(* overrides and faults.                                                   *)
(***************************************************************************)
EXTENDS Ingress, TLAPS

States   == {"new", "401", "queued", "ok", "error", "200", "500"}
Verified == {e \in Events : Tokens[e] = "verified"}

\* What can be in the queue of a key.
Waiting(k) == {m \in [ev : Verified, live : BOOLEAN] : KeyOf[m.ev] = k}
Waits      == [ev : Events, live : BOOLEAN]

Queues == /\ queue \in [Publishers -> [Keys -> Seq(Waits)]]
          /\ \A p \in Publishers, k \in Keys : queue[p][k] \in Seq(Waiting(k))
Logs   == topic \in [Topics -> [Keys -> Seq(Verified)]]

\* What a request was told, or will be, of an event.
Told(e) == /\ st[e] \in {"ok", "200"} => e \in ToSet(Log(e))
           /\ st[e] = "401" => e \notin Verified

IngressInv == /\ st \in [Events -> States]
              /\ Queues
              /\ Logs
              /\ \A e \in Events : Told(e)

-----------------------------------------------------------------------------
\* The key, publisher and topic of an event are among those there are.
LEMMA Places ==
    ASSUME NEW e \in Events
    PROVE  KeyOf[e] \in Keys /\ Publisher(e) \in Publishers /\ Topic(e) \in Topics
BY ConstantsAssumption DEF Keys, Publisher, Publishers, Topic, Topics

\* A sequence from which one is removed is one of the same things.
LEMMA RemoveType ==
    ASSUME NEW S, NEW s \in Seq(S), NEW i \in DOMAIN s
    PROVE  RemoveAt(s, i) \in Seq(S)
<1>1. i \in 1 .. Len(s) /\ Len(s) \in Nat
  OBVIOUS
<1>2. SubSeq(s, 1, i - 1) \in Seq(S) /\ SubSeq(s, i + 1, Len(s)) \in Seq(S)
  BY <1>1
<1>3. QED
  BY <1>2 DEF RemoveAt

\* A sequence to which one is appended has that and what it had.
LEMMA AppendSet ==
    ASSUME NEW S, NEW s \in Seq(S), NEW e \in S, NEW f
    PROVE  f \in ToSet(Append(s, e)) <=> f = e \/ f \in ToSet(s)
<1> DEFINE t == Append(s, e)
           n == Len(s)
<1>1. /\ n \in Nat /\ DOMAIN s = 1 .. n /\ DOMAIN t = 1 .. n + 1
      /\ t[n + 1] = e /\ \A i \in 1 .. n : t[i] = s[i]
  OBVIOUS
<1> HIDE DEF t, n
<1>2. ASSUME f \in ToSet(t)
      PROVE  f = e \/ f \in ToSet(s)
  <2>1. PICK i \in 1 .. n + 1 : f = t[i]
    BY <1>1, <1>2 DEF ToSet
  <2>2. i \in 1 .. n \/ i = n + 1
    BY <1>1
  <2>3. QED
    BY <1>1, <2>1, <2>2 DEF ToSet
<1>3. ASSUME f = e \/ f \in ToSet(s)
      PROVE  f \in ToSet(t)
  <2>1. CASE f = e
    BY <1>1, <2>1 DEF ToSet
  <2>2. CASE f \in ToSet(s)
    <3>1. PICK i \in 1 .. n : f = s[i]
      BY <1>1, <2>2 DEF ToSet
    <3>2. i \in 1 .. n + 1 /\ t[i] = f
      BY <1>1, <3>1
    <3>3. QED
      BY <1>1, <3>2 DEF ToSet
  <2>3. QED
    BY <1>3, <2>1, <2>2
<1>4. QED
  BY <1>2, <1>3 DEF t

\* What is waiting in the queue of a key is an event that waits.
LEMMA WaitingWaits ==
    ASSUME NEW k
    PROVE  Waiting(k) \subseteq Waits
BY DEF Waiting, Waits, Verified

\* One queue is replaced by another of the same key.
LEMMA QueueStep ==
    ASSUME Queues, NEW p \in Publishers, NEW k \in Keys, NEW s \in Seq(Waiting(k)),
           queue' = [queue EXCEPT ![p][k] = s]
    PROVE  Queues'
<1>1. s \in Seq(Waits)
  BY WaitingWaits
<1>2. queue' \in [Publishers -> [Keys -> Seq(Waits)]]
  BY <1>1 DEF Queues
<1>3. ASSUME NEW q \in Publishers, NEW l \in Keys
      PROVE  queue'[q][l] = IF q = p /\ l = k THEN s ELSE queue[q][l]
  BY DEF Queues
<1>4. \A q \in Publishers, l \in Keys : queue'[q][l] \in Seq(Waiting(l))
  BY <1>3 DEF Queues
<1>5. QED
  BY <1>2, <1>4 DEF Queues

\* A message that is stored is in its topic, and all others stay.
LEMMA StoredStep ==
    ASSUME Logs, Queues, NEW p \in Publishers, NEW k \in Keys, NEW i \in DOMAIN queue[p][k],
           Stored(p, k, i)
    PROVE  /\ Logs'
           /\ \A e \in Events : e \in ToSet(Log(e)) \/ e = queue[p][k][i].ev
                                   => e \in ToSet(Log(e))'
<1>1. queue[p][k] \in Seq(Waiting(k))
  BY DEF Queues
<1>2. queue[p][k][i] \in Waiting(k)
  BY <1>1
<1>3. PICK e \in Verified : e = queue[p][k][i].ev /\ KeyOf[e] = k
  BY <1>2 DEF Waiting
<1>4. PICK t \in Topics : t = Topic(e)
  BY <1>3, Places DEF Verified
<1>5. topic' = [topic EXCEPT ![t][k] = Append(topic[t][k], e)] /\ topic[t][k] \in Seq(Verified)
  BY <1>3, <1>4 DEF Stored, Logs
<1>6. Append(topic[t][k], e) \in Seq(Verified)
  BY <1>5
<1>7. Logs'
  BY <1>5, <1>6 DEF Logs
<1>8. \A u \in Topics, l \in Keys :
          topic'[u][l] = IF u = t /\ l = k THEN Append(topic[t][k], e) ELSE topic[u][l]
  BY <1>5 DEF Logs
<1>9. ASSUME NEW f \in Events, f \in ToSet(Log(f)) \/ f = e
      PROVE  f \in ToSet(Log(f))'
  <2>1. Log(f)' = topic'[Topic(f)][KeyOf[f]] /\ Log(f) = topic[Topic(f)][KeyOf[f]]
    BY DEF Log, Topic, TopicFor
  <2>2. Topic(f) \in Topics /\ KeyOf[f] \in Keys
    BY Places
  <2>3. CASE Topic(f) = t /\ KeyOf[f] = k
    <3>1. Log(f)' = Append(topic[t][k], e) /\ Log(f) = topic[t][k]
      BY <1>8, <2>1, <2>2, <2>3
    <3>2. f \in ToSet(Append(topic[t][k], e))
      BY <1>5, <1>9, <3>1, AppendSet
    <3>3. QED
      BY <3>1, <3>2 DEF ToSet
  <2>4. CASE ~(Topic(f) = t /\ KeyOf[f] = k)
    <3>1. f # e
      BY <1>3, <1>4, <2>4
    <3>2. Log(f)' = Log(f)
      BY <1>8, <2>1, <2>2, <2>4
    <3>3. QED
      BY <1>9, <3>1, <3>2 DEF ToSet
  <2>5. QED
    BY <2>3, <2>4
<1>10. QED
  BY <1>3, <1>7, <1>9

\* What the requests are told changes for one event at most.
LEMMA TellOne ==
    ASSUME IngressInv, NEW e \in Events, NEW s \in States, st' = [st EXCEPT ![e] = s],
           Queues', UNCHANGED topic,
           s = "200" => st[e] = "ok", s # "ok", s = "401" => e \notin Verified
    PROVE  IngressInv'
<1>1. st' \in [Events -> States] /\ \A f \in Events : st'[f] = IF f = e THEN s ELSE st[f]
  BY DEF IngressInv
<1>2. \A f \in Events : ToSet(Log(f))' = ToSet(Log(f))
  BY DEF ToSet, Log
<1>3. \A f \in Events : Told(f)'
  BY <1>1, <1>2 DEF IngressInv, Told
<1>4. QED
  BY <1>1, <1>3 DEF IngressInv, Logs

\* The result of a message is true of it: what is "ok" was stored.
LEMMA ResultStep ==
    ASSUME IngressInv, NEW p \in Publishers, NEW k \in Keys, NEW i \in DOMAIN queue[p][k],
           NEW out \in {"ok", "error"}, Result(p, k, i, out),
           Stored(p, k, i) \/ (out = "error" /\ UNCHANGED topic)
    PROVE  IngressInv'
<1>1. Queues /\ Logs /\ st \in [Events -> States] /\ \A e \in Events : Told(e)
  BY DEF IngressInv
<1>2. queue[p][k] \in Seq(Waiting(k))
  BY <1>1 DEF Queues
<1>3. PICK m \in Waiting(k) : m = queue[p][k][i]
  BY <1>2
<1>4. m.ev \in Verified /\ m.ev \in Events /\ m.live \in BOOLEAN
  BY <1>3 DEF Waiting, Verified
<1>5. /\ queue' = [queue EXCEPT ![p][k] = RemoveAt(@, i)]
      /\ st' = IF m.live THEN [st EXCEPT ![m.ev] = out] ELSE st
  BY <1>3 DEF Result
<1>6. Queues'
  <2>1. queue' = [queue EXCEPT ![p][k] = RemoveAt(queue[p][k], i)]
    BY <1>1, <1>5 DEF Queues
  <2>2. RemoveAt(queue[p][k], i) \in Seq(Waiting(k))
    BY <1>2, RemoveType
  <2>3. QED
    BY <1>1, <2>1, <2>2, QueueStep
<1>7. /\ Logs'
      /\ \A e \in Events : e \in ToSet(Log(e)) => e \in ToSet(Log(e))'
      /\ \A e \in Events : out = "ok" /\ e = m.ev => e \in ToSet(Log(e))'
  <2>1. CASE Stored(p, k, i)
    BY <1>1, <1>3, <2>1, StoredStep
  <2>2. CASE out = "error" /\ UNCHANGED topic
    BY <1>1, <2>2 DEF Logs, Log, ToSet
  <2>3. QED
    BY <2>1, <2>2
<1>8. st' \in [Events -> States]
  BY <1>1, <1>4, <1>5 DEF States
<1>9. ASSUME NEW e \in Events
      PROVE  Told(e)'
  <2>1. st'[e] = st[e] \/ (e = m.ev /\ st'[e] = out)
    BY <1>1, <1>4, <1>5
  <2>2. CASE st'[e] = st[e]
    BY <1>1, <1>7, <2>2 DEF Told
  <2>3. CASE e = m.ev /\ st'[e] = out
    BY <1>4, <1>7, <2>3 DEF Told
  <2>4. QED
    BY <2>1, <2>2, <2>3
<1>10. QED
  BY <1>6, <1>7, <1>8, <1>9 DEF IngressInv

\* Publish tells the event nothing yet, and queues it with its key.
LEMMA PublishStep ==
    ASSUME IngressInv, NEW e \in Events, Publish(e)
    PROVE  IngressInv'
<1> DEFINE p == Publisher(e)
           k == KeyOf[e]
<1>1. p \in Publishers /\ k \in Keys /\ e \in Verified /\ Queues
  BY Places DEF Publish, Verified, IngressInv
<1>2. UNCHANGED topic
  BY DEF Publish
<1>3. CASE k \in paused[p]
  <2>1. st' = [st EXCEPT ![e] = "error"] /\ UNCHANGED queue
    BY <1>3 DEF Publish
  <2>2. Queues'
    BY <1>1, <2>1 DEF Queues
  <2>3. QED
    BY <1>2, <2>1, <2>2, TellOne DEF States
<1>4. CASE k \notin paused[p]
  <2> DEFINE s == Append(queue[p][k], [ev |-> e, live |-> TRUE])
  <2>1. st' = [st EXCEPT ![e] = "queued"] /\ queue' = [queue EXCEPT ![p][k] = s]
    BY <1>1, <1>4 DEF Publish, Queues
  <2>2. [ev |-> e, live |-> TRUE] \in Waiting(k) /\ queue[p][k] \in Seq(Waiting(k))
    BY <1>1 DEF Waiting, Queues
  <2>3. s \in Seq(Waiting(k))
    BY <2>2
  <2>4. Queues'
    BY <1>1, <2>1, <2>3, QueueStep
  <2>5. QED
    BY <1>2, <2>1, <2>4, TellOne DEF States
<1>5. QED
  BY <1>3, <1>4

\* A client that goes away leaves its message where it is, for nobody.
LEMMA AbandonStep ==
    ASSUME IngressInv, NEW e \in Events, Abandon(e)
    PROVE  IngressInv'
<1> DEFINE p == Publisher(e)
           k == KeyOf[e]
           q == queue[p][k]
           s == [i \in DOMAIN q |-> IF q[i].ev = e THEN [ev |-> e, live |-> FALSE] ELSE q[i]]
<1>1. p \in Publishers /\ k \in Keys /\ Queues
  BY Places DEF IngressInv
<1>2. UNCHANGED topic /\ st' = [st EXCEPT ![e] = "500"]
  BY DEF Abandon, FailRequest
<1>3. queue' = [queue EXCEPT ![p][k] = s]
  BY <1>1 DEF Abandon, Queues
<1>4. q \in Seq(Waiting(k))
  BY <1>1 DEF Queues
<1>5. \A i \in DOMAIN q : s[i] \in Waiting(k)
  <2>1. TAKE i \in DOMAIN q
  <2>2. q[i] \in Waiting(k)
    BY <1>4
  <2>3. QED
    BY <2>2 DEF Waiting
<1>6. s \in Seq(Waiting(k))
  <2>1. PICK n \in Nat : DOMAIN q = 1 .. n
    BY <1>4
  <2>2. DOMAIN s = 1 .. n /\ \A i \in 1 .. n : s[i] \in Waiting(k)
    BY <1>5, <2>1
  <2>3. s \in [1 .. n -> Waiting(k)]
    BY <2>2
  <2> HIDE DEF s
  <2>4. QED
    BY <2>3
<1> HIDE DEF s
<1>7. Queues'
  BY <1>1, <1>3, <1>6, QueueStep
<1>8. QED
  BY <1>2, <1>7, TellOne DEF States

\* At the start nothing was published, stored or answered.
LEMMA InitIngress == Init => IngressInv
<1> SUFFICES ASSUME Init
             PROVE  IngressInv
  OBVIOUS
<1>1. st \in [Events -> States] /\ \A e \in Events : st[e] = "new"
  BY DEF Init, States
<1>2. Queues
  <2>1. \A k : <<>> \in Seq(Waiting(k)) /\ <<>> \in Seq(Waits)
    OBVIOUS
  <2>2. QED
    BY <2>1 DEF Init, Queues
<1>3. Logs
  BY DEF Init, Logs
<1>4. QED
  BY <1>1, <1>2, <1>3 DEF IngressInv, Told

\* Every step keeps what the requests were told true of the topics.
LEMMA NextIngress == IngressInv /\ [Next]_vars => IngressInv'
<1> SUFFICES ASSUME IngressInv, [Next]_vars
             PROVE  IngressInv'
  OBVIOUS
<1>1. CASE UNCHANGED <<st, queue, topic>>
  BY <1>1 DEF IngressInv, Queues, Logs, Told, Log, ToSet
<1>2. ASSUME NEW e \in Events, Reject(e) \/ Accept(e) \/ Fail(e)
      PROVE  IngressInv'
  <2>1. Queues' /\ UNCHANGED topic
    BY <1>2 DEF Reject, Accept, Fail, IngressInv, Queues
  <2>2. CASE Reject(e)
    BY <2>1, <2>2, TellOne DEF Reject, States, Verified
  <2>3. CASE Accept(e)
    BY <2>1, <2>3, TellOne DEF Accept, States
  <2>4. CASE Fail(e)
    BY <2>1, <2>4, TellOne DEF Fail, FailRequest, States
  <2>5. QED
    BY <1>2, <2>2, <2>3, <2>4
<1>3. ASSUME NEW p \in Publishers, NEW k \in Keys, NEW i \in DOMAIN queue[p][k],
             SendOk(p, k, i) \/ SendRefused(p, k, i) \/ SendFails(p, k, i)
      PROVE  IngressInv'
  BY <1>3, ResultStep DEF SendOk, SendRefused, SendFails
<1>4. CASE Main \/ OidcFails \/ OidcInterrupted \/ Sigterm \/ UNCHANGED vars
  BY <1>1, <1>4 DEF Main, OidcReady, OidcRetry, Exit, OidcFails, OidcInterrupted, Sigterm, requestVars, vars
<1>5. QED
  BY <1>2, <1>3, <1>4, PublishStep, AbandonStep DEF Next, Handler, Sender

\* Whatever fails and whoever goes away: what is answered 2xx is in the topic of
\* its type, and what is refused for its token never is (forward, and the
\* authentication in front of it).
THEOREM AnswersAreTrue == Spec => []AnswerIsTrue
<1>1. IngressInv => AnswerIsTrue
  <2> SUFFICES ASSUME IngressInv, NEW e \in Events
               PROVE  /\ st[e] = "200" => e \in ToSet(Log(e))
                      /\ st[e] = "401" => e \notin ToSet(Log(e))
    BY DEF AnswerIsTrue
  <2>1. Told(e)
    BY DEF IngressInv
  <2>2. Log(e) \in Seq(Verified)
    BY Places DEF IngressInv, Logs, Log
  <2>3. ToSet(Log(e)) \subseteq Verified
    BY <2>2 DEF ToSet
  <2>4. QED
    BY <2>1, <2>3 DEF Told
<1>2. QED
  BY InitIngress, NextIngress, <1>1, PTL DEF Spec

-----------------------------------------------------------------------------
(***************************************************************************)
(* The order of the messages of a key.  One key of one publisher is looked *)
(* at, with its queue q and its log l, the arrivals h and the failures F.  *)
(***************************************************************************)

Placed(e, p, k) == Publisher(e) = p /\ KeyOf[e] = k

\* What waits or is stored came in, and belongs there.
Known(q, l, h, p, k) ==
    /\ \A n \in DOMAIN q : q[n].ev \in ToSet(h) /\ Placed(q[n].ev, p, k)
    /\ \A n \in DOMAIN l : l[n] \in ToSet(h)

\* Position n of the queue has e before it, there or in the log already.
Ahead(e, q, l, n) == e \in ToSet(l) \/ \E m \in 1 .. n - 1 : q[m].ev = e

\* What came in and did not fail is stored or waits.
NoneLost(q, l, h, F, p, k) ==
    \A i \in DOMAIN h : Placed(h[i], p, k) /\ h[i] \notin F
        => Ahead(h[i], q, l, Len(q) + 1)

\* What came in earlier, and did not fail, is ahead.
InOrder(q, l, h, F, p, k) ==
    \A i, j \in DOMAIN h :
        i < j /\ Placed(h[i], p, k) /\ Placed(h[j], p, k) /\ h[i] \notin F
            => /\ \A n \in DOMAIN q : q[n].ev = h[j] => Ahead(h[i], q, l, n)
               /\ \A n \in DOMAIN l : l[n] = h[j] => \E m \in 1 .. n - 1 : l[m] = h[i]

Ordered(q, l, h, F, p, k) == /\ Known(q, l, h, p, k)
                             /\ NoneLost(q, l, h, F, p, k)
                             /\ InOrder(q, l, h, F, p, k)

\* The first of a sequence is removed.
LEMMA FirstRemoved ==
    ASSUME NEW S, NEW s \in Seq(S), 1 \in DOMAIN s
    PROVE  /\ RemoveAt(s, 1) \in Seq(S)
           /\ Len(RemoveAt(s, 1)) = Len(s) - 1
           /\ \A n \in 1 .. Len(s) - 1 : RemoveAt(s, 1)[n] = s[n + 1]
<1> DEFINE t == SubSeq(s, 2, Len(s))
<1>1. Len(s) \in Nat /\ Len(s) >= 1
  OBVIOUS
<1>2. /\ t \in Seq(S) /\ Len(t) = Len(s) - 1
      /\ \A n \in 1 .. Len(s) - 1 : t[n] = s[n + 1]
  <2>1. /\ Len(t) = Len(s) - 1
        /\ \A n \in 1 .. Len(s) - 1 : t[n] = s[n + 1]
    BY <1>1
  <2>2. t \in Seq(S)
    BY <1>1
  <2>3. QED
    BY <2>1, <2>2
<1>3. SubSeq(s, 1, 0) = << >>
  BY <1>1
<1> HIDE DEF t
<1>4. << >> \o t = t
  BY <1>2
<1>5. RemoveAt(s, 1) = t
  BY <1>3, <1>4 DEF RemoveAt, t
<1>6. QED
  BY <1>2, <1>5

\* The first message waiting leaves the queue: it is stored, or it has failed.
LEMMA OrderSent ==
    ASSUME NEW p, NEW k, NEW q \in Seq(Waits), NEW l \in Seq(Events), NEW h \in Seq(Events),
           NEW F, NEW G, F \subseteq G, 1 \in DOMAIN q, Ordered(q, l, h, F, p, k),
           NEW m, m = Append(l, q[1].ev) \/ (m = l /\ q[1].ev \in G)
    PROVE  Ordered(RemoveAt(q, 1), m, h, G, p, k)
<1> DEFINE r == RemoveAt(q, 1)
           e == q[1].ev
<1>1. /\ r \in Seq(Waits) /\ Len(r) = Len(q) - 1 /\ DOMAIN r = 1 .. Len(q) - 1
      /\ \A n \in 1 .. Len(q) - 1 : r[n] = q[n + 1]
  BY FirstRemoved
<1>2. e \in Events /\ Len(q) \in Nat /\ DOMAIN q = 1 .. Len(q) /\ Len(q) >= 1
  <2>1. q[1] \in Waits
    OBVIOUS
  <2>2. QED
    BY <2>1 DEF Waits
<1>3. /\ \A n \in DOMAIN l : n \in DOMAIN m /\ m[n] = l[n]
      /\ \A n \in DOMAIN m : n \in Nat /\ (n \in DOMAIN l \/ (n = Len(l) + 1 /\ m[n] = e))
      /\ DOMAIN l = 1 .. Len(l) /\ Len(l) \in Nat
  BY <1>2
<1>4. e \in ToSet(m) \/ e \in G
  <2>1. m = Append(l, e) \/ e \in G
    OBVIOUS
  <2> HIDE DEF e
  <2>2. e \in ToSet(Append(l, e))
    BY <1>2, AppendSet
  <2>3. QED
    BY <2>1, <2>2
<1>5. \A f : f \in ToSet(l) => f \in ToSet(m)
  BY <1>3 DEF ToSet
<1> HIDE DEF r, e
<1>6. ASSUME NEW f, f \notin G, NEW n \in 1 .. Len(q) + 1, Ahead(f, q, l, n)
      PROVE  Ahead(f, r, m, n - 1)
  <2>1. CASE f \in ToSet(l)
    BY <1>5, <2>1 DEF Ahead
  <2>2. ASSUME NEW i \in 1 .. n - 1, q[i].ev = f
        PROVE  Ahead(f, r, m, n - 1)
    <3>1. CASE i = 1
      BY <1>4, <1>6, <2>2, <3>1 DEF Ahead, e
    <3>2. CASE i # 1
      <4>1. i - 1 \in 1 .. (n - 1) - 1 /\ i - 1 \in 1 .. Len(q) - 1
        BY <1>2, <2>2, <3>2
      <4>2. r[i - 1] = q[i]
        BY <1>1, <1>2, <4>1
      <4>3. QED
        BY <2>2, <4>1, <4>2 DEF Ahead
    <3>3. QED
      BY <3>1, <3>2
  <2>3. QED
    BY <1>6, <2>1, <2>2 DEF Ahead
<1>7. Known(r, m, h, p, k)
  <2>1. \A n \in DOMAIN r : r[n].ev \in ToSet(h) /\ Placed(r[n].ev, p, k)
    <3>1. TAKE n \in DOMAIN r
    <3>2. n + 1 \in DOMAIN q /\ r[n] = q[n + 1]
      BY <1>1, <1>2
    <3>3. QED
      BY <3>2 DEF Ordered, Known
  <2>2. \A n \in DOMAIN m : m[n] \in ToSet(h)
    BY <1>2, <1>3 DEF Ordered, Known, e
  <2>3. QED
    BY <2>1, <2>2 DEF Known
<1>8. NoneLost(r, m, h, G, p, k)
  <2> SUFFICES ASSUME NEW i \in DOMAIN h, Placed(h[i], p, k), h[i] \notin G
               PROVE  Ahead(h[i], r, m, Len(r) + 1)
    BY DEF NoneLost
  <2>1. Ahead(h[i], q, l, Len(q) + 1)
    BY DEF Ordered, NoneLost
  <2>2. Ahead(h[i], r, m, (Len(q) + 1) - 1)
    BY <1>2, <1>6, <2>1
  <2>3. (Len(q) + 1) - 1 = Len(r) + 1
    BY <1>1, <1>2
  <2>4. QED
    BY <2>2, <2>3
<1>9. InOrder(r, m, h, G, p, k)
  <2> SUFFICES ASSUME NEW i \in DOMAIN h, NEW j \in DOMAIN h, i < j,
                      Placed(h[i], p, k), Placed(h[j], p, k), h[i] \notin G
               PROVE  /\ \A n \in DOMAIN r : r[n].ev = h[j] => Ahead(h[i], r, m, n)
                      /\ \A n \in DOMAIN m : m[n] = h[j] => \E o \in 1 .. n - 1 : m[o] = h[i]
    BY DEF InOrder
  <2>1. /\ \A n \in DOMAIN q : q[n].ev = h[j] => Ahead(h[i], q, l, n)
        /\ \A n \in DOMAIN l : l[n] = h[j] => \E o \in 1 .. n - 1 : l[o] = h[i]
    BY DEF Ordered, InOrder
  <2>2. ASSUME NEW n \in DOMAIN r, r[n].ev = h[j]
        PROVE  Ahead(h[i], r, m, n)
    <3>1. n + 1 \in 1 .. Len(q) /\ q[n + 1].ev = h[j] /\ (n + 1) - 1 = n
      BY <1>1, <1>2, <2>2
    <3>2. Ahead(h[i], q, l, n + 1) /\ n + 1 \in 1 .. Len(q) + 1
      BY <1>2, <2>1, <3>1
    <3>3. QED
      BY <1>6, <3>1, <3>2
  <2>3. ASSUME NEW n \in DOMAIN m, m[n] = h[j]
        PROVE  \E o \in 1 .. n - 1 : m[o] = h[i]
    <3>1. CASE n \in DOMAIN l
      <4>1. PICK o \in 1 .. n - 1 : l[o] = h[i]
        BY <1>3, <2>1, <2>3, <3>1
      <4>2. o \in DOMAIN l
        BY <1>3, <3>1
      <4>3. QED
        BY <1>3, <4>1, <4>2
    <3>2. CASE n = Len(l) + 1 /\ m[n] = e
      <4>1. Ahead(h[i], q, l, 1)
        BY <1>2, <2>1, <2>3, <3>2 DEF e
      <4>2. h[i] \in ToSet(l)
        BY <4>1 DEF Ahead
      <4>3. PICK o \in DOMAIN l : l[o] = h[i]
        BY <4>2 DEF ToSet
      <4>4. o \in 1 .. n - 1 /\ m[o] = h[i]
        BY <1>3, <3>2, <4>3
      <4>5. QED
        BY <4>4
    <3>3. QED
      BY <1>3, <3>1, <3>2
  <2>4. QED
    BY <2>2, <2>3
<1>10. QED
  BY <1>7, <1>8, <1>9 DEF Ordered, r

\* An event is published, for the first time or again, and waits at the end.
LEMMA OrderPublished ==
    ASSUME NEW p, NEW k, NEW q \in Seq(Waits), NEW l \in Seq(Events), NEW h \in Seq(Events),
           NEW F, Ordered(q, l, h, F, p, k), NEW e \in Events, Placed(e, p, k), NEW b \in BOOLEAN,
           NEW g, \/ g = Append(h, e) /\ e \notin ToSet(h)
                  \/ g = h /\ e \in ToSet(h) /\ e \in F
    PROVE  Ordered(Append(q, [ev |-> e, live |-> b]), l, g, F, p, k)
<1> DEFINE x == [ev |-> e, live |-> b]
           r == Append(q, x)
<1>1. x \in Waits /\ x.ev = e
  BY DEF Waits
<1>2. /\ Len(q) \in Nat /\ DOMAIN q = 1 .. Len(q) /\ DOMAIN r = 1 .. Len(q) + 1
      /\ Len(r) = Len(q) + 1 /\ r[Len(q) + 1] = x /\ \A n \in 1 .. Len(q) : r[n] = q[n]
  BY <1>1
<1>3. /\ Len(h) \in Nat /\ DOMAIN h = 1 .. Len(h)
      /\ \A i \in DOMAIN h : i \in DOMAIN g /\ g[i] = h[i]
      /\ \A i \in DOMAIN g : \/ i \in DOMAIN h
                             \/ i = Len(h) + 1 /\ g[i] = e /\ e \notin ToSet(h)
  OBVIOUS
<1>4. e \in ToSet(g) /\ \A f : f \in ToSet(h) => f \in ToSet(g)
  BY AppendSet, <1>3 DEF ToSet
<1> HIDE DEF x, r
<1>5. ASSUME NEW f, NEW n \in 1 .. Len(q) + 1, Ahead(f, q, l, n)
      PROVE  Ahead(f, r, l, n) /\ Ahead(f, r, l, n + 1)
  BY <1>2, <1>5 DEF Ahead
<1>6. Known(r, l, g, p, k)
  BY <1>1, <1>2, <1>4 DEF Ordered, Known
<1>7. \A i \in DOMAIN g : Placed(g[i], p, k) /\ g[i] \notin F /\ i \in DOMAIN h
                              => Ahead(g[i], q, l, Len(q) + 1)
  BY <1>3 DEF Ordered, NoneLost
<1>8. NoneLost(r, l, g, F, p, k)
  <2> SUFFICES ASSUME NEW i \in DOMAIN g, Placed(g[i], p, k), g[i] \notin F
               PROVE  Ahead(g[i], r, l, Len(r) + 1)
    BY DEF NoneLost
  <2>1. CASE i \in DOMAIN h
    <3>1. Len(q) + 1 \in 1 .. Len(q) + 1
      BY <1>2
    <3>2. QED
      BY <1>2, <1>5, <1>7, <2>1, <3>1
  <2>2. CASE g[i] = e
    <3>1. Len(q) + 1 \in 1 .. (Len(r) + 1) - 1 /\ r[Len(q) + 1].ev = g[i]
      BY <1>1, <1>2, <2>2
    <3>2. QED
      BY <3>1 DEF Ahead
  <2>3. QED
    BY <1>3, <2>1, <2>2
<1>9. InOrder(r, l, g, F, p, k)
  <2> SUFFICES ASSUME NEW i \in DOMAIN g, NEW j \in DOMAIN g, i < j,
                      Placed(g[i], p, k), Placed(g[j], p, k), g[i] \notin F
               PROVE  /\ \A n \in DOMAIN r : r[n].ev = g[j] => Ahead(g[i], r, l, n)
                      /\ \A n \in DOMAIN l : l[n] = g[j] => \E o \in 1 .. n - 1 : l[o] = g[i]
    BY DEF InOrder
  <2>1. i \in DOMAIN h
    BY <1>3
  <2>2. CASE j \in DOMAIN h
    <3>1. /\ \A n \in DOMAIN q : q[n].ev = g[j] => Ahead(g[i], q, l, n)
          /\ \A n \in DOMAIN l : l[n] = g[j] => \E o \in 1 .. n - 1 : l[o] = g[i]
      BY <1>3, <2>1, <2>2 DEF Ordered, InOrder
    <3>2. ASSUME NEW n \in DOMAIN r, r[n].ev = g[j]
          PROVE  Ahead(g[i], r, l, n)
      <4>1. CASE n \in DOMAIN q
        BY <1>2, <1>5, <3>1, <3>2, <4>1
      <4>2. CASE n = Len(q) + 1
        BY <1>2, <1>5, <1>7, <2>1, <4>2
      <4>3. QED
        BY <1>2, <4>1, <4>2
    <3>3. QED
      BY <3>1, <3>2
  <2>3. CASE j \notin DOMAIN h
    <3>1. g[j] = e /\ e \notin ToSet(h)
      BY <1>3, <2>3
    <3>2. \A n \in DOMAIN l : l[n] # g[j]
      BY <3>1 DEF Ordered, Known
    <3>3. ASSUME NEW n \in DOMAIN r, r[n].ev = g[j]
          PROVE  Ahead(g[i], r, l, n)
      <4>1. n \notin DOMAIN q
        BY <1>2, <3>1, <3>3 DEF Ordered, Known
      <4>2. n = Len(q) + 1 /\ n \in 1 .. Len(q) + 1
        BY <1>2, <4>1
      <4>3. QED
        BY <1>2, <1>5, <1>7, <2>1, <4>2
    <3>4. QED
      BY <3>2, <3>3
  <2>4. QED
    BY <2>2, <2>3
<1>10. QED
  BY <1>6, <1>8, <1>9 DEF Ordered, r, x

\* One is appended at the end, and what was there stays where it was.
LEMMA Appended ==
    ASSUME NEW S, NEW s \in Seq(S), NEW e \in S
    PROVE  /\ Len(s) \in Nat /\ DOMAIN s = 1 .. Len(s)
           /\ DOMAIN Append(s, e) = 1 .. Len(s) + 1
           /\ Append(s, e)[Len(s) + 1] = e
           /\ \A i \in 1 .. Len(s) : Append(s, e)[i] = s[i]
OBVIOUS

\* An event comes in, fails or loses its handler, and nothing is queued or sent:
\* the new arrival, if there is one, has failed or belongs elsewhere.
LEMMA OrderStays ==
    ASSUME NEW p, NEW k, NEW q \in Seq(Waits), NEW l \in Seq(Events), NEW h \in Seq(Events),
           NEW F, NEW G, F \subseteq G, Ordered(q, l, h, F, p, k),
           NEW r \in Seq(Waits), Len(r) = Len(q), \A n \in DOMAIN q : r[n].ev = q[n].ev,
           NEW g, \/ g = h
                  \/ \E e \in Events : /\ g = Append(h, e) /\ e \notin ToSet(h)
                                       /\ e \in G \/ ~Placed(e, p, k)
    PROVE  Ordered(r, l, g, G, p, k)
<1>1. /\ Len(h) \in Nat /\ DOMAIN h = 1 .. Len(h)
      /\ \A i \in DOMAIN h : i \in DOMAIN g /\ g[i] = h[i]
      /\ \A i \in DOMAIN g : i \in DOMAIN h \/ (i = Len(h) + 1 /\ g[i] \notin ToSet(h)
                                                 /\ (g[i] \in G \/ ~Placed(g[i], p, k)))
  <2>1. CASE g = h
    BY <2>1
  <2>2. CASE g # h
    <3>1. PICK e \in Events : /\ g = Append(h, e) /\ e \notin ToSet(h)
                              /\ e \in G \/ ~Placed(e, p, k)
      BY <2>2
    <3>2. /\ Len(h) \in Nat /\ DOMAIN h = 1 .. Len(h) /\ DOMAIN g = 1 .. Len(h) + 1
          /\ g[Len(h) + 1] = e /\ \A i \in 1 .. Len(h) : g[i] = h[i]
      BY <3>1, Appended
    <3>3. \A i \in DOMAIN g : i \in DOMAIN h \/ (i = Len(h) + 1 /\ g[i] = e)
      BY <3>2
    <3>4. \A i \in DOMAIN h : i \in DOMAIN g /\ g[i] = h[i]
      BY <3>2
    <3>5. QED
      BY <3>1, <3>2, <3>3, <3>4
  <2>3. QED
    BY <2>1, <2>2
<1>2. \A f : f \in ToSet(h) => f \in ToSet(g)
  BY <1>1 DEF ToSet
<1>3. DOMAIN q = 1 .. Len(q) /\ DOMAIN r = 1 .. Len(q) /\ Len(q) \in Nat
  OBVIOUS
<1>4. ASSUME NEW f, NEW n \in 1 .. Len(q) + 1, Ahead(f, q, l, n)
      PROVE  Ahead(f, r, l, n)
  <2>1. \A m \in 1 .. n - 1 : m \in DOMAIN q /\ r[m].ev = q[m].ev
    BY <1>3
  <2>2. QED
    BY <1>4, <2>1 DEF Ahead
<1>5. Known(r, l, g, p, k)
  BY <1>2, <1>3 DEF Ordered, Known
<1>6. NoneLost(r, l, g, G, p, k)
  <2>1. Len(q) + 1 \in 1 .. Len(q) + 1
    BY <1>3
  <2>2. QED
    BY <1>1, <1>4, <2>1 DEF Ordered, NoneLost
<1>7. InOrder(r, l, g, G, p, k)
  <2> SUFFICES ASSUME NEW i \in DOMAIN g, NEW j \in DOMAIN g, i < j,
                      Placed(g[i], p, k), Placed(g[j], p, k), g[i] \notin G
               PROVE  /\ \A n \in DOMAIN r : r[n].ev = g[j] => Ahead(g[i], r, l, n)
                      /\ \A n \in DOMAIN l : l[n] = g[j] => \E o \in 1 .. n - 1 : l[o] = g[i]
    BY DEF InOrder
  <2>1. i \in DOMAIN h /\ h[i] = g[i] /\ h[i] \notin F
    BY <1>1
  <2>2. CASE j \in DOMAIN h
    <3>1. /\ \A n \in DOMAIN q : q[n].ev = g[j] => Ahead(g[i], q, l, n)
          /\ \A n \in DOMAIN l : l[n] = g[j] => \E o \in 1 .. n - 1 : l[o] = g[i]
      <4>1. h[j] = g[j] /\ Placed(h[i], p, k) /\ Placed(h[j], p, k)
        BY <1>1, <2>1, <2>2
      <4>2. QED
        BY <2>1, <2>2, <4>1 DEF Ordered, InOrder
    <3>2. QED
      BY <1>3, <1>4, <3>1
  <2>3. CASE j \notin DOMAIN h
    <3>1. g[j] \notin ToSet(h)
      BY <1>1, <2>3
    <3>2. \A n \in DOMAIN l : l[n] # g[j]
      BY <3>1 DEF Ordered, Known
    <3>3. \A n \in DOMAIN r : r[n].ev # g[j]
      BY <1>3, <3>1 DEF Ordered, Known
    <3>4. QED
      BY <3>2, <3>3
  <2>4. QED
    BY <2>2, <2>3
<1>8. QED
  BY <1>5, <1>6, <1>7 DEF Ordered

-----------------------------------------------------------------------------
\* What the requests of e show of its history.
History(e) ==
    /\ st[e] = "new" => e \notin ToSet(arrived)
    /\ st[e] \in {"error", "500"} => e \in failed
    /\ st[e] \in {"queued", "error", "500"} /\ KeyOf[e] # NoKey => e \in ToSet(arrived)

OrderInv ==
    /\ arrived \in Seq(Events) /\ failed \subseteq Events
    /\ \A e \in Events : History(e)
    /\ \A p \in Publishers, k \in Keys \ {NoKey} :
           Ordered(queue[p][k], topic[p][k], arrived, failed, p, k)

\* A topic has one publisher, of the same name, and what it holds are events.
LEMMA PlaceTypes ==
    ASSUME IngressInv, NEW p \in Publishers, NEW k \in Keys
    PROVE  p \in Topics /\ queue[p][k] \in Seq(Waits) /\ topic[p][k] \in Seq(Events)
<1>1. p \in Topics
  BY DEF Publishers, Topics, PublisherFor
<1>2. queue[p][k] \in Seq(Waits)
  BY DEF IngressInv, Queues
<1>3. topic[p][k] \in Seq(Verified)
  BY <1>1 DEF IngressInv, Logs
<1>4. Verified \subseteq Events
  BY DEF Verified
<1>5. QED
  BY <1>1, <1>2, <1>3, <1>4

\* A step that neither queues nor sends: some requests fail, one may come in.
LEMMA QuietOrder ==
    ASSUME IngressInv, OrderInv, IngressInv', UNCHANGED topic,
           arrived' \in Seq(Events), failed' \subseteq Events, failed \subseteq failed',
           \A e \in Events : History(e)',
           \A p \in Publishers, k \in Keys :
               /\ Len(queue'[p][k]) = Len(queue[p][k])
               /\ \A n \in DOMAIN queue[p][k] : queue'[p][k][n].ev = queue[p][k][n].ev,
           \/ arrived' = arrived
           \/ \E e \in failed' : arrived' = Append(arrived, e) /\ e \notin ToSet(arrived)
    PROVE  OrderInv'
<1> SUFFICES ASSUME NEW p \in Publishers, NEW k \in Keys \ {NoKey}
             PROVE  Ordered(queue[p][k], topic[p][k], arrived, failed, p, k)'
  BY DEF OrderInv, Publishers, PublisherFor, TopicFor, Keys
<1>1. Ordered(queue[p][k], topic[p][k], arrived, failed, p, k) /\ arrived \in Seq(Events)
  BY DEF OrderInv
<1>2. queue[p][k] \in Seq(Waits) /\ topic[p][k] \in Seq(Events)
  BY PlaceTypes
<1>3. queue'[p][k] \in Seq(Waits)
  BY DEF IngressInv, Queues
<1>4. Ordered(queue'[p][k], topic[p][k], arrived', failed', p, k)
  BY <1>1, <1>2, <1>3, OrderStays
<1>5. QED
  BY <1>4

\* A message leaves its queue: stored, or refused to the handler that waits.
LEMMA ResultOrder ==
    ASSUME IngressInv, OrderInv, IngressInv', NEW p \in Publishers, NEW k \in Keys,
           NEW i \in DOMAIN queue[p][k], Next1(p, k, i),
           NEW out \in {"ok", "error"}, Result(p, k, i, out),
           \/ Stored(p, k, i)
           \/ UNCHANGED topic /\ queue[p][k][i].ev \in failed',
           out = "error" => queue[p][k][i].ev \in failed',
           UNCHANGED arrived, failed \subseteq failed', failed' \subseteq Events
    PROVE  OrderInv'
<1> DEFINE e == queue[p][k][i].ev
<1>1. /\ arrived \in Seq(Events)
      /\ \A f \in Events : History(f)
      /\ \A q \in Publishers, l \in Keys \ {NoKey} :
             Ordered(queue[q][l], topic[q][l], arrived, failed, q, l)
  BY DEF OrderInv
<1>2. queue[p][k][i] \in Waiting(k) /\ e \in Events /\ KeyOf[e] = k
  <2>1. queue[p][k] \in Seq(Waiting(k))
    BY DEF IngressInv, Queues
  <2>2. queue[p][k][i] \in Waiting(k)
    BY <2>1
  <2>3. QED
    BY <2>2 DEF Waiting, Verified
<1>3. k # NoKey => i = 1 /\ Topic(e) = p /\ e \in ToSet(arrived)
  BY <1>1 DEF Next1, Ordered, Known, Placed, Publisher, Topic, PublisherFor
<1>4. \A q \in Publishers, l \in Keys :
          queue'[q][l] = IF q = p /\ l = k THEN RemoveAt(queue[p][k], i) ELSE queue[q][l]
  BY DEF Result, IngressInv, Queues
<1>5. \A q \in Publishers, l \in Keys \ {NoKey} :
          IF q = p /\ l = k
            THEN \/ topic'[q][l] = Append(topic[q][l], e)
                 \/ topic'[q][l] = topic[q][l] /\ e \in failed'
            ELSE topic'[q][l] = topic[q][l]
  <2>1. CASE Stored(p, k, i)
    <3>1. \A q \in Topics, l \in Keys :
              topic'[q][l] = IF q = Topic(e) /\ l = k THEN Append(topic[q][l], e) ELSE topic[q][l]
      BY <2>1 DEF Stored, IngressInv, Logs
    <3>2. ASSUME NEW q \in Publishers, NEW l \in Keys \ {NoKey}
          PROVE  IF q = p /\ l = k THEN topic'[q][l] = Append(topic[q][l], e)
                                   ELSE topic'[q][l] = topic[q][l]
      <4>1. topic'[q][l] = IF q = Topic(e) /\ l = k THEN Append(topic[q][l], e) ELSE topic[q][l]
        BY <3>1, PlaceTypes
      <4>2. l = k => Topic(e) = p
        BY <1>3
      <4>3. QED
        BY <4>1, <4>2
    <3>3. QED
      BY <3>2
  <2>2. CASE UNCHANGED topic /\ e \in failed'
    BY <2>2
  <2>3. QED
    BY <2>1, <2>2
<1>6. \A q \in Publishers, l \in Keys \ {NoKey} :
          Ordered(queue'[q][l], topic'[q][l], arrived', failed', q, l)
  <2>1. TAKE q \in Publishers, l \in Keys \ {NoKey}
  <2>2. queue[q][l] \in Seq(Waits) /\ topic[q][l] \in Seq(Events)
    BY PlaceTypes
  <2>3. CASE q = p /\ l = k
    <3>1. queue'[p][k] = RemoveAt(queue[p][k], 1) /\ 1 \in DOMAIN queue[p][k] /\ e = queue[p][k][1].ev
      BY <1>3, <1>4, <2>3
    <3>2. \/ topic'[p][k] = Append(topic[p][k], queue[p][k][1].ev)
          \/ topic'[p][k] = topic[p][k] /\ queue[p][k][1].ev \in failed'
      BY <1>5, <2>3, <3>1
    <3>3. Ordered(queue[p][k], topic[p][k], arrived, failed, p, k)
      BY <1>1, <2>3
    <3>4. Ordered(RemoveAt(queue[p][k], 1), topic'[p][k], arrived, failed', p, k)
      BY <1>1, <2>2, <2>3, <3>1, <3>2, <3>3, OrderSent
    <3>5. QED
      BY <2>3, <3>1, <3>4
  <2>4. CASE ~(q = p /\ l = k)
    <3>1. queue'[q][l] = queue[q][l] /\ topic'[q][l] = topic[q][l]
      BY <1>4, <1>5, <2>4
    <3>2. Ordered(queue[q][l], topic[q][l], arrived, failed', q, l)
      BY <1>1, <2>2, OrderStays
    <3>3. QED
      BY <3>1, <3>2
  <2>5. QED
    BY <2>3, <2>4
<1>7. \A f \in Events : History(f)'
  <2>1. TAKE f \in Events
  <2>2. st'[f] = st[f] \/ (f = e /\ st'[f] = out)
    BY <1>2 DEF Result, IngressInv
  <2>3. CASE st'[f] = st[f]
    BY <1>1, <2>3 DEF History
  <2>4. CASE f = e /\ st'[f] = out
    BY <1>2, <1>3, <2>4 DEF History
  <2>5. QED
    BY <2>2, <2>3, <2>4
<1>8. QED
  BY <1>1, <1>6, <1>7 DEF OrderInv, Publishers, PublisherFor, TopicFor, Keys

\* Publish queues a message behind all that came in before.
LEMMA PublishOrder ==
    ASSUME IngressInv, OrderInv, IngressInv', NEW e \in Events, Publish(e)
    PROVE  OrderInv'
<1> DEFINE p == Publisher(e)
           k == KeyOf[e]
<1>1. /\ arrived \in Seq(Events) /\ failed \subseteq Events
      /\ \A f \in Events : History(f)
      /\ \A q \in Publishers, l \in Keys \ {NoKey} :
             Ordered(queue[q][l], topic[q][l], arrived, failed, q, l)
  BY DEF OrderInv
<1>2. p \in Publishers /\ k \in Keys
  BY Places
<1>3. /\ st[e] \in {"new", "500"} /\ UNCHANGED topic
      /\ arrived' = IF st[e] = "new" THEN Append(arrived, e) ELSE arrived
  BY DEF Publish
<1>4. arrived' \in Seq(Events) /\ \A f : f \in ToSet(arrived) \/ (f = e /\ st[e] = "new")
                                           <=> f \in ToSet(arrived')
  BY <1>1, <1>3, AppendSet
<1>5. k # NoKey => \/ arrived' = Append(arrived, e) /\ e \notin ToSet(arrived)
                   \/ arrived' = arrived /\ e \in ToSet(arrived) /\ e \in failed
  BY <1>1, <1>3 DEF History
<1>6. \/ arrived' = Append(arrived, e) /\ e \notin ToSet(arrived)
      \/ arrived' = arrived
  BY <1>1, <1>3 DEF History
<1>7. CASE k \in paused[p]
  <2>1. st' = [st EXCEPT ![e] = "error"] /\ failed' = failed \union {e} /\ UNCHANGED queue
    BY <1>7 DEF Publish
  <2>2. \A f \in Events : History(f)'
    BY <1>1, <1>3, <1>4, <1>5, <2>1 DEF History, IngressInv
  <2>3. QED
    BY <1>1, <1>3, <1>4, <1>6, <2>1, <2>2, QuietOrder
<1>8. CASE k \notin paused[p]
  <2> DEFINE m == [ev |-> e, live |-> TRUE]
  <2>1. /\ st' = [st EXCEPT ![e] = "queued"] /\ failed' = failed
        /\ queue' = [queue EXCEPT ![p][k] = Append(@, m)]
    BY <1>8 DEF Publish
  <2>2. \A f \in Events : History(f)'
    <3>1. TAKE f \in Events
    <3>2. CASE f = e
      <4>1. st'[f] = "queued" /\ (KeyOf[f] # NoKey => f \in ToSet(arrived'))
        BY <1>1, <1>3, <1>4, <2>1, <3>2 DEF History, IngressInv
      <4>2. QED
        BY <4>1 DEF History, ToSet
    <3>3. CASE f # e
      <4>1. st'[f] = st[f] /\ (f \in ToSet(arrived') <=> f \in ToSet(arrived))
        BY <1>4, <2>1, <3>3 DEF IngressInv
      <4>2. QED
        BY <1>1, <2>1, <4>1 DEF History, ToSet
    <3>4. QED
      BY <3>2, <3>3
  <2>3. \A q \in Publishers, l \in Keys :
            queue'[q][l] = IF q = p /\ l = k THEN Append(queue[p][k], m) ELSE queue[q][l]
    BY <1>2, <2>1 DEF IngressInv, Queues
  <2>4. \A q \in Publishers, l \in Keys \ {NoKey} :
            Ordered(queue'[q][l], topic'[q][l], arrived', failed', q, l)
    <3>1. TAKE q \in Publishers, l \in Keys \ {NoKey}
    <3>2. queue[q][l] \in Seq(Waits) /\ topic[q][l] \in Seq(Events)
      BY PlaceTypes
    <3>3. Ordered(queue[q][l], topic[q][l], arrived, failed, q, l)
      BY <1>1
    <3>4. CASE q = p /\ l = k
      <4>1. Placed(e, q, l)
        BY <3>4 DEF Placed
      <4>2. \/ arrived' = Append(arrived, e) /\ e \notin ToSet(arrived)
            \/ arrived' = arrived /\ e \in ToSet(arrived) /\ e \in failed
        BY <1>5, <3>4
      <4>3. Ordered(Append(queue[q][l], m), topic[q][l], arrived', failed, q, l)
        BY <1>1, <3>2, <3>3, <4>1, <4>2, OrderPublished
      <4>4. QED
        BY <1>3, <2>1, <2>3, <3>4, <4>3
    <3>5. CASE ~(q = p /\ l = k)
      <4>1. ~Placed(e, q, l)
        BY <3>5 DEF Placed
      <4>2. Ordered(queue[q][l], topic[q][l], arrived', failed, q, l)
        BY <1>1, <1>6, <3>2, <3>3, <4>1, OrderStays
      <4>3. QED
        BY <1>3, <2>1, <2>3, <3>5, <4>2
    <3>6. QED
      BY <3>4, <3>5
  <2>5. QED
    BY <1>1, <1>4, <2>1, <2>2, <2>4 DEF OrderInv, Publishers, PublisherFor, TopicFor, Keys
<1>9. QED
  BY <1>7, <1>8

\* The other steps of a request leave the order of its key alone.
LEMMA RequestOrder ==
    ASSUME IngressInv, OrderInv, IngressInv', NEW e \in Events,
           Reject(e) \/ Accept(e) \/ Fail(e) \/ Abandon(e)
    PROVE  OrderInv'
<1>1. arrived \in Seq(Events) /\ failed \subseteq Events /\ \A f \in Events : History(f)
  BY DEF OrderInv
<1>2. CASE Reject(e) \/ Accept(e) \/ Fail(e)
  <2>1. UNCHANGED <<queue, topic, arrived, failed>>
    BY <1>2 DEF Reject, Accept, Fail
  <2>2. \A f \in Events : History(f)'
    BY <1>1, <1>2, <2>1 DEF Reject, Accept, Fail, FailRequest, History, IngressInv
  <2>3. QED
    BY <1>1, <2>1, <2>2, QuietOrder
<1>3. CASE Abandon(e)
  <2> DEFINE p == Publisher(e)
             k == KeyOf[e]
  <2>1. /\ st[e] = "queued" /\ st' = [st EXCEPT ![e] = "500"]
        /\ failed' = failed \union {e} /\ UNCHANGED <<topic, arrived>>
        /\ queue' = [queue EXCEPT ![p][k] =
               [i \in DOMAIN @ |-> IF @[i].ev = e THEN [ev |-> e, live |-> FALSE] ELSE @[i]]]
    BY <1>3 DEF Abandon, FailRequest
  <2>2. p \in Publishers /\ k \in Keys
    BY Places
  <2>3. \A f \in Events : History(f)'
    BY <1>1, <2>1 DEF History, IngressInv
  <2>4. ASSUME NEW q \in Publishers, NEW l \in Keys
        PROVE  /\ Len(queue'[q][l]) = Len(queue[q][l])
               /\ \A n \in DOMAIN queue[q][l] : queue'[q][l][n].ev = queue[q][l][n].ev
    <3>1. CASE q = p /\ l = k
      <4> DEFINE s == [i \in DOMAIN queue[p][k] |-> IF queue[p][k][i].ev = e
                          THEN [ev |-> e, live |-> FALSE] ELSE queue[p][k][i]]
      <4>1. queue'[p][k] = s
        BY <2>1, <2>2 DEF IngressInv, Queues
      <4>2. \A n \in DOMAIN queue[p][k] : s[n].ev = queue[p][k][n].ev
        OBVIOUS
      <4>3. queue[p][k] \in Seq(Waits) /\ s \in Seq(Waits) /\ DOMAIN s = DOMAIN queue[p][k]
        BY <4>1, <2>2 DEF IngressInv, Queues
      <4> HIDE DEF s
      <4>4. Len(s) = Len(queue[p][k])
        BY <4>3
      <4>5. QED
        BY <3>1, <4>1, <4>2, <4>4
    <3>2. CASE ~(q = p /\ l = k)
      BY <2>1, <2>2, <3>2 DEF IngressInv, Queues
    <3>3. QED
      BY <3>1, <3>2
  <2>5. QED
    BY <1>1, <2>1, <2>3, <2>4, QuietOrder
<1>4. QED
  BY <1>2, <1>3

\* The order of every key is kept by every step.
LEMMA NextOrder == IngressInv /\ IngressInv' /\ OrderInv /\ [Next]_vars => OrderInv'
<1> SUFFICES ASSUME IngressInv, IngressInv', OrderInv, [Next]_vars
             PROVE  OrderInv'
  OBVIOUS
<1>1. CASE UNCHANGED requestVars
  BY <1>1 DEF OrderInv, History, requestVars, Publishers, PublisherFor, TopicFor, Keys
<1>2. CASE Main \/ OidcFails \/ OidcInterrupted \/ Sigterm \/ UNCHANGED vars
  BY <1>1, <1>2 DEF Main, OidcReady, OidcRetry, Exit, OidcFails, OidcInterrupted, Sigterm, requestVars, vars
<1>3. ASSUME NEW p \in Publishers, NEW k \in Keys, NEW i \in DOMAIN queue[p][k],
             SendOk(p, k, i) \/ SendRefused(p, k, i) \/ SendFails(p, k, i)
      PROVE  OrderInv'
  <2>1. queue[p][k][i].ev \in Events
    <3>1. queue[p][k] \in Seq(Waits)
      BY DEF IngressInv, Queues
    <3>2. queue[p][k][i] \in Waits
      BY <3>1
    <3>3. QED
      BY <3>2 DEF Waits
  <2>2. failed \subseteq Events
    BY DEF OrderInv
  <2>3. CASE SendOk(p, k, i)
    BY <2>2, <2>3, ResultOrder DEF SendOk
  <2>4. CASE SendRefused(p, k, i)
    BY <2>1, <2>2, <2>4, ResultOrder DEF SendRefused
  <2>5. CASE SendFails(p, k, i)
    BY <2>1, <2>2, <2>5, ResultOrder DEF SendFails
  <2>6. QED
    BY <1>3, <2>3, <2>4, <2>5
<1>4. QED
  BY <1>2, <1>3, PublishOrder, RequestOrder DEF Next, Handler, Sender

\* Nothing has come in at the start.
LEMMA InitOrder == Init => OrderInv
<1> SUFFICES ASSUME Init
             PROVE  OrderInv
  OBVIOUS
<1>1. arrived = << >> /\ failed = {} /\ \A e \in Events : st[e] = "new"
  BY DEF Init
<1>2. ASSUME NEW p \in Publishers, NEW k \in Keys
      PROVE  Ordered(queue[p][k], topic[p][k], arrived, failed, p, k)
  <2>1. p \in Topics
    BY DEF Publishers, Topics, PublisherFor
  <2>2. queue[p][k] = << >> /\ topic[p][k] = << >>
    BY <2>1 DEF Init
  <2>3. QED
    BY <1>1, <2>2 DEF Ordered, Known, NoneLost, InOrder
<1>3. QED
  BY <1>1, <1>2 DEF OrderInv, History, ToSet

\* Messages of a key are in its topic in the order they came in, unless one of
\* them failed: the comment in forward, whatever is published, fails or is
\* abandoned meanwhile, and however often an event is sent again.
THEOREM OrderedUnlessFailed == Spec => []OrderUnlessFailed
<1>1. IngressInv /\ OrderInv => OrderUnlessFailed
  <2> SUFFICES ASSUME IngressInv, OrderInv, NEW i \in DOMAIN arrived, NEW j \in DOMAIN arrived,
                      i < j, Topic(arrived[i]) = Topic(arrived[j]),
                      KeyOf[arrived[i]] = KeyOf[arrived[j]], KeyOf[arrived[i]] # NoKey,
                      arrived[i] \notin failed
               PROVE  \A n \in DOMAIN Log(arrived[j]) :
                         Log(arrived[j])[n] = arrived[j]
                            => \E m \in 1 .. n - 1 : Log(arrived[j])[m] = arrived[i]
    BY DEF OrderUnlessFailed
  <2> DEFINE p == Publisher(arrived[j])
             k == KeyOf[arrived[j]]
  <2>1. arrived[i] \in Events /\ arrived[j] \in Events
    BY DEF OrderInv
  <2>2. p \in Publishers /\ k \in Keys \ {NoKey}
    BY <2>1, Places
  <2>3. Placed(arrived[i], p, k) /\ Placed(arrived[j], p, k) /\ Log(arrived[j]) = topic[p][k]
    BY DEF Placed, Publisher, PublisherFor, Topic, Log
  <2>4. InOrder(queue[p][k], topic[p][k], arrived, failed, p, k)
    BY <2>2 DEF OrderInv, Ordered
  <2> HIDE DEF p, k
  <2>5. QED
    BY <2>3, <2>4 DEF InOrder
<1>2. QED
  BY InitIngress, NextIngress, InitOrder, NextOrder, <1>1, PTL DEF Spec

-----------------------------------------------------------------------------
\* The set-up and the bounds: a retry of the discovery is one that is left.
SetUp ==
    /\ boot \in {"oidc", "backoff", "serving", "stopping", "exited", "fatal"}
    /\ attempt \in 1 .. OidcMaxAttempts
    /\ boot = "backoff" => attempt < OidcMaxAttempts
    /\ paused \in [Publishers -> SUBSET (Keys \ {NoKey})]
    /\ faults \in 0 .. MaxFaults

\* A step of a request or of a publisher changes no more than the pauses and the
\* count of faults.
LEMMA RequestSetUp ==
    ASSUME SetUp, UNCHANGED <<boot, attempt>>,
           faults' = faults \/ Fault,
           \/ UNCHANGED paused
           \/ \E e \in Events : FailRequest(e)
           \/ \E p \in Publishers, k \in Keys :
                  paused' = [paused EXCEPT ![p] = @ \union ({k} \ {NoKey})]
    PROVE  SetUp'
<1>1. faults' \in 0 .. MaxFaults
  BY ConstantsAssumption DEF SetUp, Fault
<1>2. paused' \in [Publishers -> SUBSET (Keys \ {NoKey})]
  BY DEF SetUp, FailRequest
<1>3. QED
  BY <1>1, <1>2 DEF SetUp, Publishers, PublisherFor, TopicFor, Keys

\* The set-up never runs out of its states or beyond its attempts.
LEMMA NextSetUp == SetUp /\ [Next]_vars => SetUp'
<1> SUFFICES ASSUME SetUp, [Next]_vars
             PROVE  SetUp'
  OBVIOUS
<1>1. CASE Main \/ OidcFails \/ OidcInterrupted \/ Sigterm \/ UNCHANGED vars
  <2>1. paused' \in [Publishers' -> SUBSET (Keys' \ {NoKey})]
    BY <1>1 DEF Main, OidcReady, OidcRetry, Exit, OidcFails, OidcInterrupted, Sigterm, requestVars, vars,
                SetUp, Publishers, PublisherFor, TopicFor, Keys
  <2>2. CASE UNCHANGED <<boot, attempt, faults>>
    BY <2>1, <2>2 DEF SetUp
  <2>3. CASE OidcReady \/ Exit \/ OidcRetry \/ Sigterm
    BY <2>1, <2>3, ConstantsAssumption DEF OidcReady, OidcRetry, Exit, Sigterm, SetUp
  <2>4. CASE OidcFails \/ OidcInterrupted
    BY <2>1, <2>4, ConstantsAssumption DEF OidcFails, OidcInterrupted, SetUp, Fault
  <2>5. QED
    BY <1>1, <2>2, <2>3, <2>4 DEF Main, vars
<1>2. ASSUME NEW e \in Events, Handler(e) \/ Abandon(e)
      PROVE  SetUp'
  BY <1>2, RequestSetUp DEF Handler, Reject, Publish, Accept, Fail, Abandon
<1>3. ASSUME NEW p \in Publishers, NEW k \in Keys, NEW i \in DOMAIN queue[p][k],
             SendOk(p, k, i) \/ SendRefused(p, k, i) \/ SendFails(p, k, i)
      PROVE  SetUp'
  BY <1>3, RequestSetUp DEF SendOk, SendRefused, SendFails
<1>4. QED
  BY <1>1, <1>2, <1>3 DEF Next, Sender

\* Every request, queue and topic is what it is said to be, the discovery makes
\* OidcMaxAttempts attempts at most, and no publisher pauses what has no key.
THEOREM IngressTypes == Spec => []TypeOK
<1>1. Init => SetUp
  BY ConstantsAssumption DEF Init, SetUp
<1>2. IngressInv /\ OrderInv /\ SetUp => TypeOK
  <2> SUFFICES ASSUME IngressInv, OrderInv, SetUp
               PROVE  TypeOK
    OBVIOUS
  <2>1. ASSUME NEW S, NEW s \in Seq(S)
        PROVE  ToSet(s) \subseteq S
    BY DEF ToSet
  <2>2. \A p \in Publishers : \A k \in Keys : ToSet(queue[p][k]) \subseteq [ev : Events, live : BOOLEAN]
    <3>1. TAKE p \in Publishers
    <3>2. TAKE k \in Keys
    <3>3. queue[p][k] \in Seq(Waits)
      BY DEF IngressInv, Queues
    <3>4. QED
      BY <2>1, <3>3 DEF Waits
  <2>3. \A t \in Topics : \A k \in Keys : ToSet(topic[t][k]) \subseteq Events
    <3>1. \A t \in Topics, k \in Keys : ToSet(topic[t][k]) \subseteq Verified
      BY <2>1 DEF IngressInv, Logs
    <3>2. QED
      BY <3>1 DEF Verified
  <2>4. ToSet(arrived) \subseteq Events
    BY <2>1 DEF OrderInv
  <2>5. QED
    BY <2>2, <2>3, <2>4 DEF IngressInv, OrderInv, SetUp, TypeOK, States
<1>3. QED
  BY <1>1, <1>2, InitIngress, NextIngress, InitOrder, NextOrder, NextSetUp, PTL DEF Spec
-----------------------------------------------------------------------------
(***************************************************************************)
(* The ingress is a broker.  A message that is stored must be of a request *)
(* that was made, and its result may go only to a request that is open.    *)
(***************************************************************************)

\* A message waits where its event belongs, of an event that was sent; its handler
\* waits only for the last request for the event, and for one message of it.
Asked(q, s, p) ==
    /\ \A n \in DOMAIN q : /\ Publisher(q[n].ev) = p
                           /\ s[q[n].ev] \notin {"new", "401"}
                           /\ q[n].live => s[q[n].ev] = "queued"
    /\ \A n, m \in DOMAIN q : q[n].live /\ q[m].live /\ q[n].ev = q[m].ev => n = m

AskedInv == \A p \in Publishers, k \in Keys : Asked(queue[p][k], st, p)

\* No handler waits for a message of the event.
NoneFor(q, e) == \A n \in DOMAIN q : q[n].ev = e => ~q[n].live

\* What is at a position after one was removed was there, or at the next one.
LEMMA RemovedAt ==
    ASSUME NEW S, NEW s \in Seq(S), NEW i \in DOMAIN s, NEW n \in DOMAIN RemoveAt(s, i)
    PROVE  /\ n \in Nat /\ i \in Nat
           /\ n < i  => n \in DOMAIN s /\ RemoveAt(s, i)[n] = s[n]
           /\ n >= i => n + 1 \in DOMAIN s /\ RemoveAt(s, i)[n] = s[n + 1]
<1> DEFINE a == SubSeq(s, 1, i - 1)
           b == SubSeq(s, i + 1, Len(s))
<1>1. i \in 1 .. Len(s) /\ Len(s) \in Nat /\ DOMAIN s = 1 .. Len(s)
  OBVIOUS
<1>2. /\ a \in Seq(S) /\ Len(a) = i - 1
      /\ \A m \in 1 .. i - 1 : a[m] = s[m]
  BY <1>1
<1>3. /\ b \in Seq(S) /\ Len(b) = Len(s) - i
      /\ \A m \in 1 .. Len(s) - i : b[m] = s[i + m]
  BY <1>1
<1> HIDE DEF a, b
<1>4. Len(a \o b) = Len(s) - 1 /\ DOMAIN (a \o b) = 1 .. Len(s) - 1
  <2>1. a \o b \in Seq(S) /\ Len(a \o b) = Len(a) + Len(b)
    BY <1>2, <1>3
  <2>2. Len(a \o b) = Len(s) - 1
    BY <1>1, <1>2, <1>3, <2>1
  <2>3. QED
    BY <2>1, <2>2
<1>5. RemoveAt(s, i) = a \o b
  BY DEF RemoveAt, a, b
<1>6. n \in 1 .. Len(s) - 1
  BY <1>4, <1>5
<1>7. CASE n < i
  BY <1>1, <1>2, <1>3, <1>5, <1>6, <1>7
<1>8. CASE n >= i
  <2>1. (a \o b)[n] = b[n - (i - 1)]
    BY <1>1, <1>2, <1>3, <1>6, <1>8
  <2>2. b[n - (i - 1)] = s[n + 1]
    <3>1. n - (i - 1) \in 1 .. Len(s) - i /\ i + (n - (i - 1)) = n + 1
      BY <1>1, <1>6, <1>8
    <3>2. QED
      BY <1>3, <3>1
  <2>3. QED
    BY <1>1, <1>5, <1>6, <1>8, <2>1, <2>2
<1>9. QED
  BY <1>1, <1>6, <1>7, <1>8

\* A request for which no handler waits is answered, or made.
LEMMA AskedAnswered ==
    ASSUME NEW p, NEW q \in Seq(Waits), NEW e \in Events, NEW s, NEW t,
           Asked(q, s, p), NoneFor(q, e), \A f \in Events : f # e => t[f] = s[f],
           t[e] \in {"new", "401"} => \A n \in DOMAIN q : q[n].ev # e
    PROVE  Asked(q, t, p)
<1>1. \A n \in DOMAIN q : q[n].ev \in Events
  <2>1. TAKE n \in DOMAIN q
  <2>2. q[n] \in Waits
    OBVIOUS
  <2>3. QED
    BY <2>2 DEF Waits
<1>2. ASSUME NEW n \in DOMAIN q
      PROVE  /\ Publisher(q[n].ev) = p
             /\ t[q[n].ev] \notin {"new", "401"}
             /\ q[n].live => t[q[n].ev] = "queued"
  <2>1. CASE q[n].ev = e
    BY <2>1 DEF Asked, NoneFor
  <2>2. CASE q[n].ev # e
    BY <1>1, <2>2 DEF Asked
  <2>3. QED
    BY <2>1, <2>2
<1>3. QED
  BY <1>2 DEF Asked

\* A message is queued for an event for which no handler waits.
LEMMA AskedQueued ==
    ASSUME NEW p, NEW q \in Seq(Waits), NEW e \in Events, NEW s, Asked(q, s, p), NoneFor(q, e),
           s[e] = "queued", Publisher(e) = p
    PROVE  Asked(Append(q, [ev |-> e, live |-> TRUE]), s, p)
<1> DEFINE m == [ev |-> e, live |-> TRUE]
           r == Append(q, m)
<1>1. /\ Len(q) \in Nat /\ DOMAIN q = 1 .. Len(q) /\ DOMAIN r = 1 .. Len(q) + 1
      /\ r[Len(q) + 1] = m /\ \A n \in 1 .. Len(q) : r[n] = q[n]
  OBVIOUS
<1> HIDE DEF r
<1>2. \A n \in DOMAIN r : n \in DOMAIN q \/ n = Len(q) + 1
  BY <1>1
<1>3. \A n \in DOMAIN r : /\ Publisher(r[n].ev) = p
                          /\ s[r[n].ev] \notin {"new", "401"}
                          /\ r[n].live => s[r[n].ev] = "queued"
  BY <1>1, <1>2 DEF Asked
<1>4. \A n, l \in DOMAIN r : r[n].live /\ r[l].live /\ r[n].ev = r[l].ev => n = l
  BY <1>1, <1>2 DEF Asked, NoneFor
<1>5. QED
  BY <1>3, <1>4 DEF Asked, r

\* A message leaves the queue, and with it whoever waited for its event.
LEMMA AskedSent ==
    ASSUME NEW p, NEW q \in Seq(Waits), NEW i \in DOMAIN q, NEW s, Asked(q, s, p)
    PROVE  /\ Asked(RemoveAt(q, i), s, p)
           /\ q[i].live => NoneFor(RemoveAt(q, i), q[i].ev)
<1> DEFINE r    == RemoveAt(q, i)
           At(n) == IF n < i THEN n ELSE n + 1
<1>1. \A n \in DOMAIN r : n \in Nat /\ i \in Nat /\ At(n) \in DOMAIN q /\ r[n] = q[At(n)]
  BY RemovedAt
<1>2. \A n \in DOMAIN r : At(n) # i
  BY <1>1
<1>3. \A n, m \in DOMAIN r : At(n) = At(m) => n = m
  BY <1>1
<1> HIDE DEF r, At
<1>4. Asked(r, s, p)
  BY <1>1, <1>3 DEF Asked
<1>5. q[i].live => NoneFor(r, q[i].ev)
  BY <1>1, <1>2 DEF Asked, NoneFor
<1>6. QED
  BY <1>4, <1>5 DEF r

\* A message is for one event, in the queue the event belongs to.
LEMMA OwnQueue ==
    ASSUME IngressInv, AskedInv, NEW p \in Publishers, NEW k \in Keys, NEW n \in DOMAIN queue[p][k]
    PROVE  /\ queue[p][k] \in Seq(Waits) /\ queue[p][k][n] \in Waits
           /\ queue[p][k][n].ev \in Verified /\ queue[p][k][n].ev \in Events
           /\ Publisher(queue[p][k][n].ev) = p /\ KeyOf[queue[p][k][n].ev] = k
           /\ st[queue[p][k][n].ev] \notin {"new", "401"}
           /\ queue[p][k][n].live => st[queue[p][k][n].ev] = "queued"
<1>1. queue[p][k] \in Seq(Waiting(k)) /\ queue[p][k] \in Seq(Waits)
  BY DEF IngressInv, Queues
<1>2. queue[p][k][n] \in Waiting(k) /\ queue[p][k][n] \in Waits
  BY <1>1
<1>3. queue[p][k][n].ev \in Verified /\ KeyOf[queue[p][k][n].ev] = k
  BY <1>2 DEF Waiting
<1>4. Asked(queue[p][k], st, p)
  BY DEF AskedInv
<1>5. QED
  BY <1>1, <1>2, <1>3, <1>4 DEF Asked, Verified

\* No handler waits for an event whose last request is not queued.
LEMMA NobodyWaits ==
    ASSUME IngressInv, AskedInv, NEW e \in Events, st[e] # "queued"
    PROVE  \A p \in Publishers, k \in Keys :
               /\ NoneFor(queue[p][k], e)
               /\ st[e] = "new" => \A n \in DOMAIN queue[p][k] : queue[p][k][n].ev # e
BY OwnQueue DEF NoneFor

\* A request for which no handler waits is answered, or refused at once.
LEMMA AnswerAsked ==
    ASSUME IngressInv, AskedInv, NEW e \in Events, NEW s, st[e] # "queued",
           st' = [st EXCEPT ![e] = s], UNCHANGED queue,
           s \in {"new", "401"} => st[e] = "new"
    PROVE  AskedInv'
<1>1. \A f \in Events : st'[f] = IF f = e THEN s ELSE st[f]
  BY DEF IngressInv
<1>2. ASSUME NEW p \in Publishers, NEW k \in Keys
      PROVE  Asked(queue[p][k], st', p)
  <2>1. queue[p][k] \in Seq(Waits) /\ Asked(queue[p][k], st, p)
    BY DEF IngressInv, Queues, AskedInv
  <2>2. NoneFor(queue[p][k], e)
    BY NobodyWaits
  <2>3. s \in {"new", "401"} => \A n \in DOMAIN queue[p][k] : queue[p][k][n].ev # e
    BY NobodyWaits
  <2>4. \A f \in Events : f # e => st'[f] = st[f]
    BY <1>1
  <2>5. st'[e] \in {"new", "401"} => \A n \in DOMAIN queue[p][k] : queue[p][k][n].ev # e
    BY <1>1, <2>3
  <2> HIDE DEF AskedInv
  <2>6. QED
    BY <2>1, <2>2, <2>4, <2>5, AskedAnswered
<1>3. QED
  BY <1>2 DEF AskedInv, Asked, Publisher, Publishers, PublisherFor, TopicFor, Keys

\* What the invariant is about after a step is the same queues.
LEMMA AskedNext ==
    ASSUME \A p \in Publishers, k \in Keys : Asked(queue'[p][k], st', p)
    PROVE  AskedInv'
BY DEF AskedInv, Asked, Publisher, Publishers, PublisherFor, TopicFor, Keys

\* Publish makes a request, and queues a message for it unless the key is paused.
LEMMA PublishAsked ==
    ASSUME IngressInv, AskedInv, NEW e \in Events, Publish(e)
    PROVE  AskedInv'
<1> DEFINE p == Publisher(e)
           k == KeyOf[e]
           m == [ev |-> e, live |-> TRUE]
<1>1. p \in Publishers /\ k \in Keys /\ st[e] \in {"new", "500"}
  BY Places DEF Publish
<1>2. CASE k \in paused[p]
  <2>1. st' = [st EXCEPT ![e] = "error"] /\ UNCHANGED queue
    BY <1>2 DEF Publish
  <2>2. QED
    BY <1>1, <2>1, AnswerAsked
<1>3. CASE k \notin paused[p]
  <2>1. st' = [st EXCEPT ![e] = "queued"] /\ queue' = [queue EXCEPT ![p][k] = Append(@, m)]
    BY <1>3 DEF Publish
  <2>2. \A f \in Events : st'[f] = IF f = e THEN "queued" ELSE st[f]
    BY <2>1 DEF IngressInv
  <2>3. \A q \in Publishers, l \in Keys :
            queue'[q][l] = IF q = p /\ l = k THEN Append(queue[p][k], m) ELSE queue[q][l]
    BY <1>1, <2>1 DEF IngressInv, Queues
  <2>4. ASSUME NEW q \in Publishers, NEW l \in Keys
        PROVE  Asked(queue'[q][l], st', q)
    <3>1. queue[q][l] \in Seq(Waits) /\ Asked(queue[q][l], st, q)
      BY DEF IngressInv, Queues, AskedInv
    <3>2. NoneFor(queue[q][l], e)
      BY <1>1, NobodyWaits
    <3>3. (\A f \in Events : f # e => st'[f] = st[f]) /\ st'[e] = "queued"
      BY <2>2
    <3>4. Asked(queue[q][l], st', q)
      BY <3>1, <3>2, <3>3, AskedAnswered
    <3>5. CASE q = p /\ l = k
      <4>1. Asked(Append(queue[q][l], m), st', q)
        BY <3>1, <3>2, <3>3, <3>4, <3>5, AskedQueued
      <4>2. QED
        BY <2>3, <3>5, <4>1
    <3>6. CASE ~(q = p /\ l = k)
      BY <2>3, <3>4, <3>6
    <3>7. QED
      BY <3>5, <3>6
  <2>5. QED
    BY <2>4, AskedNext
<1>4. QED
  BY <1>2, <1>3

\* A handler goes away, and leaves its message without one that waits.
LEMMA AbandonAsked ==
    ASSUME IngressInv, AskedInv, NEW e \in Events, Abandon(e)
    PROVE  AskedInv'
<1> DEFINE p == Publisher(e)
           k == KeyOf[e]
           q == queue[p][k]
           r == [i \in DOMAIN q |-> IF q[i].ev = e THEN [ev |-> e, live |-> FALSE] ELSE q[i]]
<1>1. p \in Publishers /\ k \in Keys /\ st[e] = "queued"
  BY Places DEF Abandon
<1>2. st' = [st EXCEPT ![e] = "500"]
  BY DEF Abandon, FailRequest
<1>3. \A f \in Events : st'[f] = IF f = e THEN "500" ELSE st[f]
  BY <1>2 DEF IngressInv
<1>4. \A u \in Publishers, l \in Keys : queue'[u][l] = IF u = p /\ l = k THEN r ELSE queue[u][l]
  <2>1. queue' = [queue EXCEPT ![p][k] = r]
    BY <1>1 DEF Abandon, IngressInv, Queues
  <2> HIDE DEF r
  <2>2. QED
    BY <1>1, <2>1 DEF IngressInv, Queues
<1>5. Asked(r, st', p)
  <2>1. Asked(q, st, p) /\ \A n \in DOMAIN q : q[n].ev \in Events
    BY <1>1, OwnQueue DEF AskedInv
  <2>2. DOMAIN r = DOMAIN q
    OBVIOUS
  <2>3. \A n \in DOMAIN q : r[n].ev = q[n].ev /\ (r[n].live => q[n].live /\ q[n].ev # e)
    OBVIOUS
  <2> HIDE DEF r, q
  <2>4. \A n \in DOMAIN q : /\ Publisher(r[n].ev) = p
                            /\ st'[r[n].ev] \notin {"new", "401"}
                            /\ r[n].live => st'[r[n].ev] = "queued"
    BY <1>3, <2>1, <2>3 DEF Asked
  <2>5. \A n, m \in DOMAIN q : r[n].live /\ r[m].live /\ r[n].ev = r[m].ev => n = m
    BY <2>1, <2>3 DEF Asked
  <2>6. QED
    BY <2>2, <2>4, <2>5 DEF Asked
<1> HIDE DEF r
<1>6. ASSUME NEW u \in Publishers, NEW l \in Keys, ~(u = p /\ l = k)
      PROVE  Asked(queue[u][l], st', u)
  <2>1. queue[u][l] \in Seq(Waits) /\ Asked(queue[u][l], st, u)
    BY DEF IngressInv, Queues, AskedInv
  <2>2. \A n \in DOMAIN queue[u][l] : queue[u][l][n].ev # e
    BY <1>6, OwnQueue
  <2>3. NoneFor(queue[u][l], e)
    BY <2>2 DEF NoneFor
  <2>4. QED
    BY <1>3, <2>1, <2>2, <2>3, AskedAnswered
<1>7. QED
  BY <1>4, <1>5, <1>6, AskedNext

\* The result of a message is for the one request that waits for it.
LEMMA ResultAsked ==
    ASSUME IngressInv, AskedInv, NEW p \in Publishers, NEW k \in Keys, NEW i \in DOMAIN queue[p][k],
           NEW out \in {"ok", "error"}, Result(p, k, i, out)
    PROVE  AskedInv'
<1>1. PICK e \in Events : e = queue[p][k][i].ev
  BY OwnQueue
<1>2. Publisher(e) = p /\ KeyOf[e] = k /\ queue[p][k][i] \in Waits /\ queue[p][k] \in Seq(Waits)
  BY <1>1, OwnQueue
<1>3. \A u \in Publishers, l \in Keys :
          queue'[u][l] = IF u = p /\ l = k THEN RemoveAt(queue[p][k], i) ELSE queue[u][l]
  BY DEF Result, IngressInv, Queues
<1>4. /\ Asked(RemoveAt(queue[p][k], i), st, p)
      /\ queue[p][k][i].live => NoneFor(RemoveAt(queue[p][k], i), e)
      /\ RemoveAt(queue[p][k], i) \in Seq(Waits)
  BY <1>1, <1>2, AskedSent, RemoveType DEF AskedInv
<1>5. CASE ~queue[p][k][i].live
  <2>1. st' = st
    BY <1>5 DEF Result
  <2>2. \A u \in Publishers, l \in Keys : Asked(queue'[u][l], st', u)
    BY <1>3, <1>4, <2>1 DEF AskedInv
  <2>3. QED
    BY <2>2, AskedNext
<1>6. CASE queue[p][k][i].live
  <2>1. \A f \in Events : st'[f] = IF f = e THEN out ELSE st[f]
    BY <1>1, <1>6 DEF Result, IngressInv
  <2>2. (\A f \in Events : f # e => st'[f] = st[f]) /\ st'[e] \notin {"new", "401"}
    BY <2>1
  <2>3. ASSUME NEW u \in Publishers, NEW l \in Keys
        PROVE  Asked(queue'[u][l], st', u)
    <3>1. CASE u = p /\ l = k
      <4>1. Asked(RemoveAt(queue[p][k], i), st', p)
        BY <1>4, <1>6, <2>2, AskedAnswered
      <4>2. QED
        BY <1>3, <3>1, <4>1
    <3>2. CASE ~(u = p /\ l = k)
      <4>1. queue[u][l] \in Seq(Waits) /\ Asked(queue[u][l], st, u)
        BY DEF IngressInv, Queues, AskedInv
      <4>2. NoneFor(queue[u][l], e)
        BY <1>2, <3>2, OwnQueue DEF NoneFor
      <4>3. Asked(queue[u][l], st', u)
        BY <2>2, <4>1, <4>2, AskedAnswered
      <4>4. QED
        BY <1>3, <3>2, <4>3
    <3>3. QED
      BY <3>1, <3>2
  <2>4. QED
    BY <2>3, AskedNext
<1>7. QED
  BY <1>5, <1>6

\* Nothing waits at the start.
LEMMA InitAsked == Init => AskedInv
BY DEF Init, AskedInv, Asked

\* Every step keeps handlers and messages together.
LEMMA NextAsked == IngressInv /\ AskedInv /\ [Next]_vars => AskedInv'
<1> SUFFICES ASSUME IngressInv, AskedInv, [Next]_vars
             PROVE  AskedInv'
  OBVIOUS
<1>1. CASE UNCHANGED <<st, queue>>
  BY <1>1 DEF AskedInv, Asked, Publisher, Publishers, PublisherFor, TopicFor, Keys
<1>2. CASE Main \/ OidcFails \/ OidcInterrupted \/ Sigterm \/ UNCHANGED vars
  BY <1>1, <1>2 DEF Main, OidcReady, OidcRetry, Exit, OidcFails, OidcInterrupted, Sigterm, requestVars, vars
<1>3. ASSUME NEW e \in Events, Reject(e) \/ Accept(e) \/ Fail(e)
      PROVE  AskedInv'
  <2>1. PICK s : /\ st' = [st EXCEPT ![e] = s] /\ st[e] # "queued"
                 /\ s \in {"new", "401"} => st[e] = "new"
    BY <1>3 DEF Reject, Accept, Fail, FailRequest
  <2>2. UNCHANGED queue
    BY <1>3 DEF Reject, Accept, Fail
  <2>3. QED
    BY <2>1, <2>2, AnswerAsked
<1>4. ASSUME NEW p \in Publishers, NEW k \in Keys, NEW i \in DOMAIN queue[p][k],
             SendOk(p, k, i) \/ SendRefused(p, k, i) \/ SendFails(p, k, i)
      PROVE  AskedInv'
  <2>1. Result(p, k, i, "ok") \/ Result(p, k, i, "error")
    BY <1>4 DEF SendOk, SendRefused, SendFails
  <2>2. QED
    BY <2>1, ResultAsked
<1>5. QED
  BY <1>2, <1>3, <1>4, PublishAsked, AbandonAsked DEF Next, Handler, Sender

Answers == [e \in Events |-> Answer(e)]
Stock   == {e \in Events : e \in ToSet(Log(e))}

\* A message that is stored is in the stock, and nothing else is new there.
LEMMA StockGrows ==
    ASSUME IngressInv, AskedInv, NEW p \in Publishers, NEW k \in Keys, NEW i \in DOMAIN queue[p][k],
           Stored(p, k, i)
    PROVE  Stock' = Stock \union {queue[p][k][i].ev}
<1>1. Logs /\ Queues
  BY DEF IngressInv
<1>2. PICK e \in Events : e = queue[p][k][i].ev /\ e \in Verified /\ KeyOf[e] = k
  BY OwnQueue
<1>3. \A f \in Events : f \in ToSet(Log(f)) \/ f = e => f \in ToSet(Log(f))'
  BY <1>1, <1>2, StoredStep
<1>4. topic' = [topic EXCEPT ![Topic(e)][k] = Append(topic[Topic(e)][k], e)]
  BY <1>1, <1>2, Places DEF Stored, Logs
<1>5. ASSUME NEW f \in Events, f \in ToSet(Log(f))', f # e
      PROVE  f \in ToSet(Log(f))
  <2>1. Log(f)' = topic'[Topic(f)][KeyOf[f]] /\ Log(f) = topic[Topic(f)][KeyOf[f]]
    BY DEF Log, Topic, TopicFor
  <2>2. /\ Topic(f) \in Topics /\ KeyOf[f] \in Keys /\ Topic(e) \in Topics
        /\ topic[Topic(f)][KeyOf[f]] \in Seq(Verified)
    BY <1>1, Places DEF Logs
  <2>3. Log(f)' = Log(f) \/ Log(f)' = Append(Log(f), e)
    BY <1>1, <1>4, <2>1, <2>2 DEF Logs
  <2>4. f \in ToSet(Append(Log(f), e)) => f \in ToSet(Log(f))
    BY <1>2, <1>5, <2>1, <2>2, AppendSet
  <2>5. QED
    BY <1>5, <2>3, <2>4 DEF ToSet
<1>6. Stock' = {f \in Events : f \in ToSet(Log(f))'}
  BY DEF Stock
<1>7. \A f \in Events : f \in ToSet(Log(f))' <=> f \in ToSet(Log(f)) \/ f = e
  BY <1>3, <1>5
<1>8. QED
  BY <1>2, <1>6, <1>7 DEF Stock

\* Without a new message in a topic the stock is the same.
LEMMA StockStays == UNCHANGED topic => UNCHANGED Stock
BY DEF Stock, Log, ToSet, Topic, TopicFor

\* The requests are the broker's, and the answer to one event changes.
LEMMA AnswersStep ==
    ASSUME IngressInv, NEW e \in Events, NEW s \in States, st' = [st EXCEPT ![e] = s]
    PROVE  Answers' = [Answers EXCEPT ![e] = IF s \in {"queued", "ok", "error"} THEN "open" ELSE s]
<1>1. \A f \in Events : st'[f] = IF f = e THEN s ELSE st[f]
  BY DEF IngressInv
<1>2. QED
  BY <1>1 DEF Answers, Answer

LEMMA AnswersStay == UNCHANGED st => UNCHANGED Answers
BY DEF Answers, Answer

\* A step of a request is one of the broker, or none.
LEMMA RequestStep ==
    ASSUME IngressInv, NEW e \in Events,
           Reject(e) \/ Publish(e) \/ Accept(e) \/ Fail(e) \/ Abandon(e)
    PROVE  B!Refuse(e) \/ B!Ask(e) \/ B!Accept(e) \/ B!Fail(e)
<1>1. UNCHANGED Stock /\ st[e] \in States
  BY StockStays DEF Reject, Publish, Accept, Fail, Abandon, IngressInv
<1>2. Answers[e] = IF st[e] \in {"queued", "ok", "error"} THEN "open" ELSE st[e]
  BY DEF Answers, Answer
<1>3. CASE Reject(e)
  <2>1. Answers' = [Answers EXCEPT ![e] = "401"]
    BY <1>3, AnswersStep DEF Reject, States
  <2>2. Answers[e] = "new" /\ e \notin Verified
    BY <1>2, <1>3 DEF Reject, Verified
  <2>3. QED
    BY <1>1, <2>1, <2>2 DEF B!Refuse, Answers, Stock, Verified
<1>4. CASE Publish(e)
  <2>1. Answers' = [Answers EXCEPT ![e] = "open"]
    BY <1>4, AnswersStep DEF Publish, States
  <2>2. Answers[e] \in {"new", "500"} /\ e \in Verified
    BY <1>2, <1>4 DEF Publish, Verified
  <2>3. QED
    BY <1>1, <2>1, <2>2 DEF B!Ask, Answers, Stock, Verified
<1>5. CASE Accept(e)
  <2>1. Answers' = [Answers EXCEPT ![e] = "200"]
    BY <1>5, AnswersStep DEF Accept, States
  <2>2. Answers[e] = "open" /\ e \in Stock
    BY <1>2, <1>5 DEF Accept, IngressInv, Told, Stock
  <2>3. QED
    BY <1>1, <2>1, <2>2 DEF B!Accept, Answers, Stock
<1>6. CASE Fail(e) \/ Abandon(e)
  <2>1. Answers' = [Answers EXCEPT ![e] = "500"]
    BY <1>6, AnswersStep DEF Fail, Abandon, FailRequest, States
  <2>2. Answers[e] = "open"
    BY <1>2, <1>6 DEF Fail, Abandon
  <2>3. QED
    BY <1>1, <2>1, <2>2 DEF B!Fail, Answers, Stock
<1>7. QED
  BY <1>3, <1>4, <1>5, <1>6

\* A result leaves the request open; what is stored is kept, whoever waits.
LEMMA SendStep ==
    ASSUME IngressInv, AskedInv, NEW p \in Publishers, NEW k \in Keys, NEW i \in DOMAIN queue[p][k],
           NEW out \in {"ok", "error"}, Result(p, k, i, out), Stored(p, k, i) \/ UNCHANGED topic
    PROVE  (\E e \in Events : B!Keep(e)) \/ UNCHANGED <<Answers, Stock>>
<1>1. PICK e \in Events : e = queue[p][k][i].ev
  BY OwnQueue
<1>2. st[e] \notin {"new", "401"} /\ (queue[p][k][i].live => st[e] = "queued")
  BY <1>1, OwnQueue
<1>3. Answers[e] \notin {"new", "401"} /\ (queue[p][k][i].live => Answers[e] = "open")
  BY <1>2 DEF Answers, Answer
<1>4. UNCHANGED Answers
  <2>1. CASE queue[p][k][i].live
    <3>1. st' = [st EXCEPT ![e] = out]
      BY <1>1, <2>1 DEF Result
    <3>2. Answers' = [Answers EXCEPT ![e] = "open"]
      BY <3>1, AnswersStep DEF States
    <3>3. QED
      BY <1>3, <2>1, <3>2 DEF Answers
  <2>2. CASE ~queue[p][k][i].live
    BY <2>2, AnswersStay DEF Result
  <2>3. QED
    BY <2>1, <2>2
<1>5. CASE Stored(p, k, i)
  <2>1. Stock' = Stock \union {e}
    BY <1>1, <1>5, StockGrows
  <2>2. B!Keep(e)
    BY <1>3, <1>4, <2>1 DEF B!Keep, Answers, Stock
  <2>3. QED
    BY <2>2
<1>6. CASE UNCHANGED topic
  BY <1>4, <1>6, StockStays
<1>7. QED
  BY <1>5, <1>6

\* Every step of the ingress is a step of the broker, or none.
LEMMA BrokerStep ==
    IngressInv /\ AskedInv /\ [Next]_vars => [B!Next]_<<Answers, Stock>>
<1> SUFFICES ASSUME IngressInv, AskedInv, [Next]_vars
             PROVE  [B!Next]_<<Answers, Stock>>
  OBVIOUS
<1>1. CASE Main \/ OidcFails \/ OidcInterrupted \/ Sigterm \/ UNCHANGED vars
  <2>1. UNCHANGED <<st, topic>>
    BY <1>1 DEF Main, OidcReady, OidcRetry, Exit, OidcFails, OidcInterrupted, Sigterm, requestVars, vars
  <2>2. QED
    BY <2>1, StockStays, AnswersStay
<1>2. ASSUME NEW e \in Events, Handler(e) \/ Abandon(e)
      PROVE  [B!Next]_<<Answers, Stock>>
  BY <1>2, RequestStep DEF Handler, B!Next
<1>3. ASSUME NEW p \in Publishers, NEW k \in Keys, NEW i \in DOMAIN queue[p][k],
             SendOk(p, k, i) \/ SendRefused(p, k, i) \/ SendFails(p, k, i)
      PROVE  [B!Next]_<<Answers, Stock>>
  <2>1. /\ Result(p, k, i, "ok") \/ Result(p, k, i, "error")
        /\ Stored(p, k, i) \/ UNCHANGED topic
    BY <1>3 DEF SendOk, SendRefused, SendFails
  <2>2. (\E e \in Events : B!Keep(e)) \/ UNCHANGED <<Answers, Stock>>
    BY <2>1, SendStep
  <2>3. QED
    BY <2>2 DEF B!Next
<1>4. QED
  BY <1>1, <1>2, <1>3 DEF Next, Sender

\* At the start nobody has asked, and nothing is kept.
LEMMA BrokerStart == Init => B!Init
<1> SUFFICES ASSUME Init
             PROVE  B!Init
  OBVIOUS
<1>1. Answers = [e \in Events |-> "new"]
  BY DEF Init, Answers, Answer
<1>2. \A e \in Events : Log(e) = << >>
  BY Places DEF Init, Log
<1>3. Stock = {}
  BY <1>2 DEF Stock, ToSet
<1>4. QED
  BY <1>1, <1>3 DEF B!Init, Answers, Stock

\* The ingress keeps the promise of the broker, for any events, keys, topics and
\* faults: it answers with success only what is in the topic, and puts there only
\* what a verified sender has asked it to (forward, and the authentication in
\* front of it), also what was sent on after its sender had gone.
THEOREM IngressIsABroker == Spec => ImplementsBroker
<1>1. IngressInv /\ AskedInv /\ [Next]_vars
          => [B!Next]_<<[e \in Events |-> Answer(e)], {e \in Events : e \in ToSet(Log(e))}>>
  BY BrokerStep DEF Answers, Stock
<1>2. QED
  BY InitIngress, NextIngress, InitAsked, NextAsked, BrokerStart, <1>1, PTL
     DEF Spec, ImplementsBroker, B!Spec
=============================================================================
