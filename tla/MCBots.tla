------------------------------- MODULE MCBots -------------------------------
(***************************************************************************)
(* The parts of BotSdk for TLC: the first state chooses one, only that one *)
(* takes steps, and the others stay in a first state of theirs.            *)
(***************************************************************************)
EXTENDS BotSdk

CONSTANTS w1, w2, b1, b2, s1, s2, s3, a1

VARIABLE part

\* Two calls of SetComment for b1, one of each operation for b2.
MCBotOf == [c \in Sets \union Adds |-> IF c \in {s1, s2} THEN b1 ELSE b2]

MCStrays == <<"unhandled", "malformed">>

\* Pieces of one to three bytes, of a text of which GitHub takes MaxLength.
MCPieces  == {<<"n">>, <<"a", "n">>, <<"a", "b", "n">>}
MCMessage == <<"n", "m">>

ASSUME L!ConstantsAssumption /\ C!ConstantsAssumption /\ ConstantsAssumption

lvars == <<title, label, events, held, attempts, pc, at, edits, faults, panicked, failed>>
cvars == <<comments, calls, target, errors, excused>>
mcvars == <<part, lvars, cvars, vars>>

\* A title that asks for no label, and a text that is never written.
NoLabels  == L!Init /\ title = FALSE
NoBuilder == Init /\ summary = None

MCInit == \/ part = "labels"   /\ L!Init /\ C!Init /\ NoBuilder
          \/ part = "comments" /\ NoLabels /\ C!Init /\ NoBuilder
          \/ part = "builder"  /\ NoLabels /\ C!Init /\ Init

MCNext == \/ part = "labels"   /\ L!Next /\ UNCHANGED <<part, cvars, vars>>
          \/ part = "comments" /\ C!Next /\ UNCHANGED <<part, lvars, vars>>
          \/ part = "builder"  /\ Next /\ UNCHANGED <<part, lvars, cvars>>

\* The fairness of LabelBot.
MCSpec == /\ MCInit /\ [][MCNext]_mcvars
          /\ \A w \in Workers : WF_(L!vars)(part = "labels" /\ L!Step(w))
=============================================================================
