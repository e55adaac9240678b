--------------------------- MODULE MCGitHubClient ---------------------------
(***************************************************************************)
(* GitHubClient for TLC: its tokens and its look-ups, one beside the other *)
(* as the first state chooses one, and only that one takes steps.          *)
(***************************************************************************)
EXTENDS GitHubClient, TLC

CONSTANTS r1, k1, c1, c2

VARIABLE part

ASSUME ConstantsAssumption /\ L!ConstantsAssumption

lvars  == <<there, logs, at, kind, calls, page, todo, handed, result, steady, moved>>
mcvars == <<part, vars, lvars>>

\* A client that looks nothing up and a source that nobody asks for a token have
\* their first state.
NoLookUps == L!Init /\ there = {} /\ logs = FALSE /\ kind = "get"

MCInit == \/ part = "tokens"  /\ Init /\ NoLookUps
          \/ part = "lookups" /\ Init /\ L!Init

MCNext == \/ part = "tokens"  /\ Next /\ UNCHANGED <<part, lvars>>
          \/ part = "lookups" /\ L!Next /\ UNCHANGED <<part, vars>>

MCSpec == MCInit /\ [][MCNext]_mcvars

-----------------------------------------------------------------------------
Symmetry == Permutations(Closers)
=============================================================================
