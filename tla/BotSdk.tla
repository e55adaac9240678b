------------------------------- MODULE BotSdk -------------------------------
(***************************************************************************)
(* What bots do with modules/github-bots/sdk, one beside the other: labels *)
(* (LabelBot), comments (BotComments) and the text of check runs           *)
(* (CheckBuilder).  They share no state: calls and errors are the calls of *)
(* BotComments and their faults.                                           *)
(***************************************************************************)
EXTENDS CheckBuilder

CONSTANTS Workers, Strays, MaxAttempts, MaxEdits, MaxFaults, MaxPanics,
          Bots, Sets, Adds, BotOf, PageSize, MaxPeople, MaxDeleted

VARIABLES title, label, events, held, attempts, pc, at, edits, faults, panicked, failed,
          comments, calls, target, errors, excused

L == INSTANCE LabelBot
C == INSTANCE BotComments WITH pc <- calls, faults <- errors

\* Each has its types.
SdkTypeOK == TypeOK /\ L!TypeOK /\ C!TypeOK

\* The properties of LabelBot and BotComments, which say there what they mean.
NothingMissed      == L!NothingMissed
LabelFollowsTitle  == L!LabelFollowsTitle
OneOfItsOwn        == C!OneOfItsOwn
PeopleAreLeftAlone == C!PeopleAreLeftAlone
=============================================================================
