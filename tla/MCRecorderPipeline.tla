-------------------------- MODULE MCRecorderPipeline --------------------------
(***************************************************************************)
(* Three parts of RecorderPipeline for TLC, one beside the other: the      *)
(* first state chooses one.  They differ in the pushes and the faults:     *)
(* "twice" has an event pushed twice beside another one, and a fault;      *)
(* "faulty" two events and two faults, so that an upload is given up;      *)
(* "live", which is fair, an event, an invalid one, and two faults.        *)
(***************************************************************************)
EXTENDS RecorderPipeline

CONSTANTS e1, e2, bad, d1, d2

VARIABLE part

mcvars == <<part, vars>>

ASSUME ConstantsAssumption

\* Two types of events: each has a directory.
MCDirOf      == [e \in Events |-> IF e = e1 THEN d1 ELSE d2]
MCDeliveries == [e \in Events |-> IF e = e1 THEN 2 ELSE 1]

\* The pushes and the faults of each part.
PushedIn == [twice  |-> {<<e1, 1>>, <<e1, 2>>, <<e2, 1>>},
             faulty |-> {<<e1, 1>>, <<e2, 1>>},
             live   |-> {<<e1, 1>>, <<bad, 1>>}]
FaultsIn == [twice |-> 1, faulty |-> 2, live |-> 2]

MCInit == Init /\ part \in DOMAIN PushedIn

MCNext == /\ Next
          /\ faults' <= FaultsIn[part]
          /\ \A h \in Pushes \ PushedIn[part] : hpc'[h] = "unsent"
          /\ UNCHANGED part

MCSpec == MCInit /\ [][MCNext]_mcvars

\* The fairness of RecorderPipeline, for the part that is fair.
MCFairSpec == /\ MCSpec
              /\ \A h \in Pushes : WF_vars(part = "live" /\ Recorder(h))
              /\ WF_vars(part = "live" /\ Uploader)

-----------------------------------------------------------------------------
\* An event that is acknowledged in the fair part gets to the bucket: what
\* RecorderPipeline states of all of them.
LiveAckedIsStored == \A e \in Recordable :
    part = "live" /\ e \in acked ~> e \in Stored \/ e \in contested \/ term
=============================================================================
