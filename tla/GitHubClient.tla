----------------------------- MODULE GitHubClient -----------------------------
(***************************************************************************)
(* A GitHubClient (modules/github-bots/sdk/github.go): its tokens          *)
(* (TokenSource) and what it looks up (LookUps), one beside the other.     *)
(* They share no state: a look-up meets any end of a request.              *)
(***************************************************************************)
EXTENDS TokenSource

CONSTANTS Items, Wanted, PerPage, MaxCalls, KeepOptions

VARIABLES there, logs, at, kind, calls, page, todo, handed, result, steady, moved

L == INSTANCE LookUps WITH pc <- at, excused <- moved

\* Each has its types.
ClientTypeOK == TypeOK /\ L!TypeOK

\* The properties of LookUps, which says there what they mean.
RightAnswer == L!RightAnswer
=============================================================================
