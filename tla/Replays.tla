------------------------------ MODULE Replays ------------------------------
(***************************************************************************)
(* The two ways to send again what was sent before, one beside the other:  *)
(* the replayer of a dead letter subscription (Replayer) and dejavu-bq     *)
(* (DejaVu).  They share no state: failures are the attempts of DejaVu     *)
(* that failed, failed the rows those were of.                             *)
(***************************************************************************)
EXTENDS Replayer

CONSTANTS Rows, PageSize, MaxRetry, MaxReadErrors, MaySigterm, MaxNulls

VARIABLES unfit, pc, row, read, given, broken, sigterm, tries, got, failures, errors, failed

D == INSTANCE DejaVu WITH faults <- failures, excused <- failed

\* Each has its types.
ReplaysTypeOK == TypeOK /\ D!TypeOK

\* The property of DejaVu, which says there what it means.
EachRowOnce == D!EachRowOnce
=============================================================================
