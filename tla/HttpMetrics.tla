----------------------------- MODULE HttpMetrics -----------------------------
(***************************************************************************)
(* The transport that measures what it sends (WrapTransport of             *)
(* pkg/httpmetrics): requests of several goroutines, the gauges and        *)
(* counters they share, the configuration of the labels, which is set at   *)
(* startup, and the limits that GitHub and Docker Hub tell of in their     *)
(* answers.                                                                *)
(***************************************************************************)
EXTENDS Integers, Sequences, FiniteSets

CONSTANTS Requests,
          Targets,    \* the hosts they go to, and whether the transport puts hosts in buckets
          Quota       \* requests that GitHub and Docker Hub allow in a window

VARIABLES config,   \* activeBucketConfig: the hosts with a label of the caller
          setters,  \* SetBuckets and SetBucketSuffixes
          reqs,
          left,     \* of GitHub and of Docker Hub: what remains of the quota
          inFlight, counted, gauges, limited,
          overtaken \* history: the resources two answers of which were recorded at a time

vars == <<config, setters, reqs, left, inFlight, counted, gauges, limited, overtaken>>

GitHub == "api.github.com"
Docker == "index.docker.io"
Metered == {GitHub, Docker}
Hosts  == Metered \union {"storage.googleapis.com", "example.com"}
Labels == {"unbucketized", "mine", "ours", "GH API", "Google API", "other"}
Codes  == {"200", "403", "error"}

ConstantsAssumption == /\ IsFiniteSet(Requests)
                       /\ Quota \in Nat \ {0}
                       /\ Targets \subseteq [host : Hosts, skip : BOOLEAN]

\* The series of a gauge: the resource the answer names, or none, or Docker Hub.
Resources == {"core", "unknown", Docker}
Types     == {"primary", "secondary", "unknown"}

\* What the service passes to the setters.
Given == [exact |-> {GitHub}, suffixes |-> {"storage.googleapis.com", GitHub}]
Setters == DOMAIN Given

NoAnswer == [status |-> "none", named |-> FALSE, remaining |-> 0, limit |-> 0, why |-> "none", whole |-> TRUE]
Unsent   == [at |-> "new", host |-> "example.com", label |-> "other", answer |-> NoAnswer, body |-> "none"]
Unset    == [remaining |-> 0, limit |-> 0, used |-> 0]

Init == /\ config = [s \in Setters |-> {}]
        /\ setters = [s \in Setters |-> [at |-> "new", copy |-> config]]
        /\ reqs = [r \in Requests |-> Unsent]
        /\ left = [h \in Metered |-> Quota]
        /\ inFlight = [l \in Labels |-> 0]
        /\ counted = [k \in Labels \X Codes |-> 0]
        /\ gauges = [s \in Resources |-> Unset]
        /\ limited = [t \in Types |-> 0]
        /\ overtaken = {}

-----------------------------------------------------------------------------
(***************************************************************************)
(* The configuration                                                       *)
(***************************************************************************)

\* A setter loads the configuration, and stores a copy with its part changed, also
\* if the other has stored its own meanwhile.
Load(s) ==
    /\ setters[s].at = "new"
    /\ setters' = [setters EXCEPT ![s] = [at |-> "loaded", copy |-> config]]
    /\ UNCHANGED <<config, reqs, left, inFlight, counted, gauges, limited, overtaken>>

Store(s) ==
    /\ setters[s].at \in {"loaded", "overlapped"}
    /\ config' = [setters[s].copy EXCEPT ![s] = Given[s]]
    /\ setters' = [t \in Setters |->
                     [setters[t] EXCEPT !.at = CASE t = s /\ @ = "loaded"     -> "done"
                                                 [] t = s /\ @ = "overlapped" -> "done over the other"
                                                 [] t # s /\ @ = "loaded"     -> "overlapped"
                                                 [] OTHER                     -> @]]
    /\ UNCHANGED <<reqs, left, inFlight, counted, gauges, limited, overtaken>>

\* The first that fits: the labels of the caller, then those of the package.
bucketize(host, skip) ==
    LET tries == <<[fits |-> skip,                             label |-> "unbucketized"],
                   [fits |-> host \in config.exact,            label |-> "mine"],
                   [fits |-> host \in config.suffixes,         label |-> "ours"],
                   [fits |-> host = GitHub,                    label |-> "GH API"],
                   [fits |-> host = "storage.googleapis.com",  label |-> "Google API"],
                   [fits |-> TRUE,                             label |-> "other"]>>
        first == CHOOSE i \in DOMAIN tries : tries[i].fits /\ \A j \in 1 .. i - 1 : ~tries[j].fits
    IN  tries[first].label

-----------------------------------------------------------------------------
(***************************************************************************)
(* A request                                                               *)
(***************************************************************************)

\* instrumentRequest: the labels are made once.
Send(r, host, skip) ==
    /\ reqs[r].at = "new"
    /\ reqs' = [reqs EXCEPT ![r] = [@ EXCEPT !.at = "sent", !.host = host, !.label = bucketize(host, skip)]]
    /\ inFlight' = [inFlight EXCEPT ![bucketize(host, skip)] = @ + 1]
    /\ UNCHANGED <<config, setters, left, counted, gauges, limited, overtaken>>

\* What GitHub and Docker Hub answer: with the headers of the limit or without, and
\* 403 for a limit, for another one, or for a permission.  The connection may break
\* before the end of the body.
Answer(r, why, named, whole) ==
    LET h == reqs[r].host
        remains == IF why = "none" /\ left[h] > 0 THEN left[h] - 1 ELSE left[h]
    IN  /\ reqs[r].at = "sent" /\ h \in Metered
        /\ why = "none" => left[h] > 0
        /\ why = "primary" => left[h] = 0 /\ named
        /\ h = Docker => why \in {"none", "primary"}
        /\ whole \/ why # "none"  \* the body of a success is not read
        /\ left' = [left EXCEPT ![h] = remains]
        /\ reqs' = [reqs EXCEPT ![r] =
               [@ EXCEPT !.at = "remaining", !.body = IF whole THEN "whole" ELSE "broken",
                         !.answer = [status |-> IF why = "none" THEN "200" ELSE "403", named |-> named,
                                     remaining |-> IF named THEN remains ELSE 0,
                                     limit |-> IF named THEN Quota ELSE 0, why |-> why, whole |-> whole]]]
        /\ UNCHANGED <<config, setters, inFlight, counted, gauges, limited, overtaken>>

AnswerOfOthers(r) ==
    /\ reqs[r].at = "sent" /\ reqs[r].host \notin Metered
    /\ reqs' = [reqs EXCEPT ![r] = [@ EXCEPT !.at = "count", !.answer = [NoAnswer EXCEPT !.status = "200"]]]
    /\ UNCHANGED <<config, setters, left, inFlight, counted, gauges, limited, overtaken>>

\* An error of the network.
Fail(r) ==
    /\ reqs[r].at = "sent"
    /\ reqs' = [reqs EXCEPT ![r] = [@ EXCEPT !.at = "count", !.answer = [NoAnswer EXCEPT !.status = "error"]]]
    /\ UNCHANGED <<config, setters, left, inFlight, counted, gauges, limited, overtaken>>

ResourceOf(r) ==
    CASE reqs[r].host = Docker                         -> Docker
      [] reqs[r].host = GitHub /\ reqs[r].answer.named -> "core"
      [] OTHER                                         -> "unknown"

Recording(s) == {r \in Requests : reqs[r].at \in {"limit", "used"} /\ ResourceOf(r) = s}

\* A gauge of Docker Hub shows nothing but what is more than none.
Shown(s, old, new) == IF s = Docker /\ new = 0 THEN old ELSE new

\* Each gauge is set by itself.
SetRemaining(r) ==
    LET a == reqs[r].answer
        s == ResourceOf(r)
    IN  /\ reqs[r].at = "remaining"
        /\ gauges' = [gauges EXCEPT ![s].remaining = Shown(s, @, a.remaining)]
        /\ reqs' = [reqs EXCEPT ![r].at = "limit"]
        /\ overtaken' = IF Recording(s) = {} THEN overtaken ELSE overtaken \union {s}
        /\ UNCHANGED <<config, setters, left, inFlight, counted, limited>>

SetLimit(r) ==
    LET a == reqs[r].answer
        s == ResourceOf(r)
    IN  /\ reqs[r].at = "limit"
        /\ gauges' = [gauges EXCEPT ![s].limit = Shown(s, @, a.limit)]
        /\ reqs' = [reqs EXCEPT ![r].at = "used"]
        /\ UNCHANGED <<config, setters, left, inFlight, counted, limited, overtaken>>

\* The fraction, times the limit.
SetUsed(r) ==
    LET a == reqs[r].answer
    IN  /\ reqs[r].at = "used"
        /\ gauges' = IF a.limit = 0 THEN gauges
                     ELSE [gauges EXCEPT ![ResourceOf(r)].used = a.limit - a.remaining]
        /\ reqs' = [reqs EXCEPT ![r].at = IF reqs[r].host = GitHub THEN "classify" ELSE "count"]
        /\ UNCHANGED <<config, setters, left, inFlight, counted, limited, overtaken>>

\* Mutant: a body that cannot be read to its end is taken for that of a limit.
LimitOf_Broken(a) ==
    CASE a.remaining = 0                                      -> "primary"
      [] a.remaining > 0 /\ (a.why = "secondary" \/ ~a.whole)  -> "secondary"
      [] a.remaining > 0 /\ ~(a.why = "secondary" \/ ~a.whole) -> "unknown"

\* Which limit it is, by what remains and else by what the body says.
LimitOf(a) ==
    CASE a.remaining = 0                                      -> "primary"
      [] a.remaining > 0 /\ a.why = "secondary" /\ a.whole    -> "secondary"
      [] a.remaining > 0 /\ ~(a.why = "secondary" /\ a.whole) -> "unknown"

\* What was read of the body is put back: what comes after it ends there, without an
\* error.
Classify(r) ==
    LET a    == reqs[r].answer
        type == LimitOf(a)
    IN  /\ reqs[r].at = "classify"
        /\ IF a.status = "403" /\ a.named
           THEN /\ limited' = [limited EXCEPT ![type] = @ + 1]
                /\ reqs' = [reqs EXCEPT ![r] = [reqs[r] EXCEPT !.at = "count",
                               !.body = IF type = "primary" \/ a.whole THEN @ ELSE "ends early"]]
           ELSE reqs' = [reqs EXCEPT ![r].at = "count"] /\ UNCHANGED limited
        /\ UNCHANGED <<config, setters, left, inFlight, counted, gauges, overtaken>>

\* Mutant: the labels are made again.
GaugeOf_Anew(r) == bucketize(reqs[r].host, reqs[r].label = "unbucketized")

\* The gauge that was raised.
GaugeOf(r) == reqs[r].label

Count(r) ==
    /\ reqs[r].at = "count"
    /\ counted' = [counted EXCEPT ![<<reqs[r].label, reqs[r].answer.status>>] = @ + 1]
    /\ reqs' = [reqs EXCEPT ![r].at = "leave"]
    /\ UNCHANGED <<config, setters, left, inFlight, gauges, limited, overtaken>>

\* The deferred calls: the gauge falls.
Leave(r) ==
    /\ reqs[r].at = "leave"
    /\ inFlight' = [inFlight EXCEPT ![GaugeOf(r)] = @ - 1]
    /\ reqs' = [reqs EXCEPT ![r].at = "done"]
    /\ UNCHANGED <<config, setters, left, counted, gauges, limited, overtaken>>

\* A panic below: the gauge falls, and nothing is counted.
Panic(r) ==
    /\ reqs[r].at = "sent"
    /\ inFlight' = [inFlight EXCEPT ![GaugeOf(r)] = @ - 1]
    /\ reqs' = [reqs EXCEPT ![r].at = "panicked"]
    /\ UNCHANGED <<config, setters, left, counted, gauges, limited, overtaken>>

Next == \/ \E s \in Setters : Load(s) \/ Store(s)
        \/ \E r \in Requests :
              \/ \E t \in Targets : Send(r, t.host, t.skip)
              \/ \E why \in {"none", "primary", "secondary", "permission"}, named, whole \in BOOLEAN :
                    Answer(r, why, named, whole)
              \/ AnswerOfOthers(r) \/ Fail(r) \/ SetRemaining(r) \/ SetLimit(r) \/ SetUsed(r)
              \/ Classify(r) \/ Count(r) \/ Leave(r) \/ Panic(r)

Spec == Init /\ [][Next]_vars

-----------------------------------------------------------------------------
(***************************************************************************)
(* Properties                                                              *)
(***************************************************************************)

Running == {r \in Requests : reqs[r].at \notin {"new", "done", "panicked"}}

TypeOK == /\ \A s \in Setters : config[s] \in {{}, Given[s]}
          /\ \A r \in Requests : reqs[r].host \in Hosts /\ reqs[r].label \in Labels
          /\ left \in [Metered -> 0 .. Quota]
          /\ inFlight \in [Labels -> 0 .. Cardinality(Requests)]
          /\ counted \in [Labels \X Codes -> 0 .. Cardinality(Requests)]
          /\ gauges \in [Resources -> [remaining : 0 .. Quota, limit : {0, Quota}, used : 0 .. Quota]]
          /\ limited \in [Types -> 0 .. Cardinality(Requests)]
          /\ overtaken \subseteq Resources

With(rs, label) == Cardinality({r \in rs : reqs[r].label = label})

\* The gauge of requests in flight is that at every moment, though the labels of a
\* host change meanwhile and a transport below may panic; and a request is counted
\* under one label and one code, once.
EachOnce ==
    \A l \in Labels :
        /\ inFlight[l] = With(Running, l)
        /\ \A c \in Codes :
              counted[l, c] = With({r \in Requests : /\ reqs[r].at \in {"leave", "done"}
                                                     /\ reqs[r].answer.status = c}, l)

\* Used, remaining and limit are of one answer, unless two were recorded at a time,
\* or Docker Hub lets no more through; and an answer without the headers does not
\* make it look as if less remained of the quota than does.
OfOneAnswer ==
    \A s \in {"core", Docker} \ overtaken :
        LET g == gauges[s]
        IN  g.limit > 0 /\ Recording(s) = {} =>
                /\ g.remaining >= left[IF s = Docker THEN Docker ELSE GitHub]
                /\ g.used = g.limit - g.remaining \/ (s = Docker /\ g.used = g.limit)

Recorded == {r \in Requests : reqs[r].at \in {"count", "leave", "done"} /\ reqs[r].answer.status = "403"
                               /\ reqs[r].host = GitHub /\ reqs[r].answer.named}
Spent == {r \in Recorded : reqs[r].answer.remaining = 0}
Told  == {r \in Recorded \ Spent : reqs[r].answer.why = "secondary" /\ reqs[r].answer.whole}

\* A 403 without the headers is no limit.  One with them is counted once: as the
\* primary limit if nothing remains of the quota, and only then; as the secondary one
\* if GitHub says so in a body that was read to its end, and only then.
KindsOfLimit == /\ limited["primary"]   = Cardinality(Spent)
                /\ limited["secondary"] = Cardinality(Told)
                /\ limited["unknown"]   = Cardinality(Recorded \ (Spent \union Told))

\* Who asked can still read all of the body, if all of it came.
BodyStays == \A r \in Requests : reqs[r].body # "none" => (reqs[r].body = "whole") = reqs[r].answer.whole

\* What the service configures stays, unless it calls the setters at a time.
BothAreSet == (\A s \in Setters : setters[s].at = "done") => config = Given

MetricsAreTrue == EachOnce /\ OfOneAnswer /\ KindsOfLimit /\ BodyStays /\ BothAreSet
=============================================================================
