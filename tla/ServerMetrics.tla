----------------------------- MODULE ServerMetrics -----------------------------
(***************************************************************************)
(* A server whose handlers are wrapped by Handler (pkg/httpmetrics): who   *)
(* calls, what the handler answers, and what is measured of it.  The       *)
(* wrappers are nested, so that measuring takes several steps, in which    *)
(* other requests go on; a panic of the handler leaves out all of them but *)
(* the deferred one.                                                       *)
(***************************************************************************)
EXTENDS Integers, FiniteSets

CONSTANTS Requests,
          Handlers

ConstantsAssumption == IsFiniteSet(Requests)

VARIABLES provider, \* what providerOnce has come to
          wrapped,  \* the handlers
          reqs,
          serving,  \* http_inflight_requests
          sized,    \* http_response_size_bytes
          status,   \* http_request_status
          timed     \* http_request_duration_seconds

vars == <<provider, wrapped, reqs, serving, sized, status, timed>>

Emails == {"unknown", "caller"}
Codes  == {"200", "500"}
\* None, one of Google with an email that is verified or is not, one of somebody else.
Tokens == {"none", "google", "unverified", "foreign"}

Unserved == [at |-> "new", token |-> "none", email |-> "unknown",
             status |-> "200", seen |-> "nothing", again |-> FALSE]

Init == /\ provider = "unasked"
        /\ wrapped = [h \in Handlers |-> "no"]
        /\ reqs = [r \in Requests |-> Unserved]
        /\ serving = [e \in Emails |-> 0]
        /\ sized = [e \in Emails |-> 0]
        /\ status = [k \in Emails \X Codes |-> 0]
        /\ timed = [e \in Emails |-> 0]

\* Handler asks for the keys of Google, once for all handlers: if that fails, none of
\* them verifies a token from then on.
Wrap(h, reachable) ==
    /\ wrapped[h] = "no"
    /\ provider' = IF provider # "unasked" THEN provider ELSE IF reachable THEN "there" ELSE "none"
    /\ wrapped' = [wrapped EXCEPT ![h] = IF provider' = "there" THEN "verifies" ELSE "does not"]
    /\ UNCHANGED <<reqs, serving, sized, status, timed>>

\* extractCloudRunCaller.
EmailOf(h, token) == IF wrapped[h] = "verifies" /\ token = "google" THEN "caller" ELSE "unknown"

\* A request comes; the labels are made once.
Serve(r, h, token) ==
    /\ reqs[r].at = "new" /\ wrapped[h] # "no"
    /\ reqs' = [reqs EXCEPT ![r] = [@ EXCEPT !.at = "handler", !.token = token, !.email = EmailOf(h, token)]]
    /\ serving' = [serving EXCEPT ![EmailOf(h, token)] = @ + 1]
    /\ UNCHANGED <<provider, wrapped, sized, status, timed>>

\* The handler writes a header: each is noted, the first is sent.
WriteHeader(r, code) ==
    /\ reqs[r].at = "handler"
    /\ reqs' = [reqs EXCEPT ![r] = [reqs[r] EXCEPT !.status = code, !.again = reqs[r].seen # "nothing",
                                                    !.seen = IF @ = "nothing" THEN code ELSE @]]
    /\ UNCHANGED <<provider, wrapped, serving, sized, status, timed>>

\* It writes to the body; net/http sends a header before that if there was none.
Write(r) ==
    /\ reqs[r].at = "handler"
    /\ reqs' = [reqs EXCEPT ![r].seen = IF @ = "nothing" THEN "200" ELSE @]
    /\ UNCHANGED <<provider, wrapped, serving, sized, status, timed>>

\* It returns, and the wrappers observe the request from the inside out.
Return(r) ==
    /\ reqs[r].at = "handler"
    /\ sized' = [sized EXCEPT ![reqs[r].email] = @ + 1]
    /\ reqs' = [reqs EXCEPT ![r].at = "sized"]
    /\ UNCHANGED <<provider, wrapped, serving, status, timed>>

CountStatus(r) ==
    /\ reqs[r].at = "sized"
    /\ status' = [status EXCEPT ![<<reqs[r].email, reqs[r].status>>] = @ + 1]
    /\ reqs' = [reqs EXCEPT ![r].at = "counted"]
    /\ UNCHANGED <<provider, wrapped, serving, sized, timed>>

ObserveDuration(r) ==
    /\ reqs[r].at = "counted"
    /\ timed' = [timed EXCEPT ![reqs[r].email] = @ + 1]
    /\ reqs' = [reqs EXCEPT ![r].at = "timed"]
    /\ UNCHANGED <<provider, wrapped, serving, sized, status>>

\* The deferred decrement; net/http ends the answer.
Leave(r) ==
    /\ reqs[r].at = "timed"
    /\ serving' = [serving EXCEPT ![reqs[r].email] = @ - 1]
    /\ reqs' = [reqs EXCEPT ![r] = [reqs[r] EXCEPT !.at = "done", !.seen = IF @ = "nothing" THEN "200" ELSE @]]
    /\ UNCHANGED <<provider, wrapped, sized, status, timed>>

\* The handler panics: net/http ends the connection.
Panic(r) ==
    /\ reqs[r].at = "handler"
    /\ serving' = [serving EXCEPT ![reqs[r].email] = @ - 1]
    /\ reqs' = [reqs EXCEPT ![r].at = "panicked"]
    /\ UNCHANGED <<provider, wrapped, sized, status, timed>>

Next == \/ \E h \in Handlers, reachable \in BOOLEAN : Wrap(h, reachable)
        \/ \E r \in Requests :
              \/ \E h \in Handlers, token \in Tokens : Serve(r, h, token)
              \/ \E code \in Codes : WriteHeader(r, code)
              \/ Write(r) \/ Return(r) \/ CountStatus(r) \/ ObserveDuration(r) \/ Leave(r) \/ Panic(r)

Spec == Init /\ [][Next]_vars

-----------------------------------------------------------------------------
(***************************************************************************)
(* Properties                                                              *)
(***************************************************************************)

TypeOK == /\ provider \in {"unasked", "there", "none"}
          /\ wrapped \in [Handlers -> {"no", "verifies", "does not"}]
          /\ \A r \in Requests : reqs[r].email \in Emails /\ reqs[r].status \in Codes
          /\ {serving, sized, timed} \subseteq [Emails -> 0 .. Cardinality(Requests)]
          /\ status \in [Emails \X Codes -> 0 .. Cardinality(Requests)]

At(stages, e) == Cardinality({r \in Requests : reqs[r].at \in stages /\ reqs[r].email = e})

\* The gauge tells how many requests of a caller are being served, whichever of
\* them panic; and the three measures of those that were served differ by no more
\* than those that are on their way out.
ServedIsMeasured ==
    \A e \in Emails :
        /\ serving[e] = At({"handler", "sized", "counted", "timed"}, e)
        /\ sized[e] - (status[e, "200"] + status[e, "500"]) = At({"sized"}, e)
        /\ (status[e, "200"] + status[e, "500"]) - timed[e] = At({"counted"}, e)

Saw(e, code) == Cardinality({r \in Requests : reqs[r].at = "done" /\ reqs[r].email = e /\ reqs[r].seen = code})

\* The codes that are counted are those that the callers got, unless a handler wrote
\* two headers; nobody is counted as a caller who did not prove to be one.
CodesAreSeen ==
    /\ (\A r \in Requests : ~reqs[r].again /\ reqs[r].at \in {"new", "done", "panicked"}) =>
            \A e \in Emails, code \in Codes : status[e, code] = Saw(e, code)
    /\ \A r \in Requests : reqs[r].email = "caller" => reqs[r].token = "google"

ServedIsTrue == ServedIsMeasured /\ CodesAreSeen
=============================================================================
