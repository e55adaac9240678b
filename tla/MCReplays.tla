------------------------------ MODULE MCReplays ------------------------------
(***************************************************************************)
(* The parts of Replays for TLC: the first state chooses one, only that    *)
(* one takes steps, and the other stays in a first state of its own.       *)
(***************************************************************************)
EXTENDS Replays

CONSTANTS m1, m2, m3

VARIABLE part

ASSUME ConstantsAssumption /\ D!ConstantsAssumption

dvars  == <<unfit, pc, row, read, given, broken, sigterm, tries, got, failures, errors, failed>>
mcvars == <<part, vars, dvars>>

MCInit == \/ part = "replayer" /\ Init /\ D!Init /\ unfit = {}
          \/ part = "dejavu"   /\ Init /\ D!Init

MCNext == \/ part = "replayer" /\ Next /\ UNCHANGED <<part, dvars>>
          \/ part = "dejavu"   /\ D!Next /\ UNCHANGED <<part, vars>>

\* The fairness of Replayer and of DejaVu.
MCSpec == /\ MCInit /\ [][MCNext]_mcvars
          /\ WF_vars(part = "replayer" /\ Tick)
          /\ WF_vars(part = "replayer" /\ ExitOnIdling)
          /\ WF_vars(part = "replayer" /\ Return)
          /\ \A m \in Messages : WF_vars(part = "replayer" /\ Callback(m))
          /\ WF_(D!vars)(part = "dejavu" /\ D!Step)

-----------------------------------------------------------------------------
\* Where DejaVu takes steps, unless BigQuery has an error or SIGTERM comes, it gets
\* to the end of the rows, or to one of which no event can be made, whatever the bot
\* answers.
EndsWithTheRows ==
    <>(part = "dejavu" => broken \/ sigterm \/ (pc = "ended" /\ (given = Rows \/ given \in unfit)))
=============================================================================
