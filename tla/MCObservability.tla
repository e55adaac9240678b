--------------------------- MODULE MCObservability ---------------------------
(***************************************************************************)
(* The four parts of Observability for TLC, one beside the other: the      *)
(* first state chooses one, and only that one takes steps; the others stay *)
(* in a first state of theirs.                                             *)
(***************************************************************************)
EXTENDS Observability, TLC

VARIABLE part

MCTargets == {[host |-> "api.github.com", skip |-> FALSE], [host |-> "api.github.com", skip |-> TRUE],
              [host |-> "index.docker.io", skip |-> FALSE],
              [host |-> "storage.googleapis.com", skip |-> FALSE]}

\* Two services of one rate, one of them with the calls of models, and one that
\* keeps everything; that of the bot is not set.
MCRate    == [bot |-> 1, agent |-> 1, broker |-> Scale + 1]
MCEntries == [bot    |-> <<>>,
              agent  |-> <<Entry("gcp", ""), Entry("otlp", "primary"), Entry("otlp", "secondary")>>,
              broker |-> <<Entry("gcp", ""), Entry("stdout", "")>>]

ASSUME H!ConstantsAssumption /\ S!ConstantsAssumption /\ ConstantsAssumption /\ G!ConstantsAssumption

hvars == <<config, setters, reqs, left, inFlight, counted, gauges, limited, overtaken>>
svars == <<provider, wrapped, served, serving, sized, status, timed>>
gvars == <<command, git, helper, written, pipe, copier, content, failure, result>>
mcvars == <<part, hvars, svars, vars, gvars>>

\* A trace that nobody has begun, and a call of go-git that is not made.
NoTrace   == Init /\ x = 0 /\ calls = {Call("bot", 0, Header(0, FALSE), None, None)}
NoCommand == G!Init /\ command = [kind |-> "go-git"]

MCInit == /\ H!Init
          /\ S!Init
          /\ \/ part \in {"metrics", "server"} /\ NoTrace /\ NoCommand
             \/ part = "tracing" /\ Init /\ NoCommand
             \/ part = "git" /\ NoTrace /\ G!Init

MCNext == \/ part = "metrics" /\ H!Next /\ UNCHANGED <<part, svars, vars, gvars>>
          \/ part = "server"  /\ S!Next /\ UNCHANGED <<part, hvars, vars, gvars>>
          \/ part = "tracing" /\ Next /\ UNCHANGED <<part, hvars, svars, gvars>>
          \/ part = "git"     /\ G!Next /\ UNCHANGED <<part, hvars, svars, vars>>

MCSpec == MCInit /\ [][MCNext]_mcvars

\* Requests differ in nothing; services do.
Symmetry == Permutations(Requests)
=============================================================================
