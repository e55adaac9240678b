------------------------------- MODULE LookUps -------------------------------
(***************************************************************************)
(* What a GitHubClient looks up (modules/github-bots/sdk/github.go): the   *)
(* pull request of a workflow run, its artifacts, its logs, and what one   *)
(* request answers.                                                        *)
(*                                                                         *)
(* Pull requests and artifacts come in pages, the newest first, and a page *)
(* is asked for by its number: what comes or goes between two requests     *)
(* moves the others across the pages.                                      *)
(***************************************************************************)
EXTENDS Integers, FiniteSetsExt

CONSTANTS Items,      \* pull requests or artifacts; a larger one is newer
          Wanted,     \* those of the commit, or of the name, that is looked for
          PerPage,
          MaxCalls,   \* bound: calls, one after the other
          KeepOptions \* a caller calls again with the ListOptions it has

ConstantsAssumption == /\ Items \subseteq Nat \ {0} /\ IsFiniteSet(Items)
                       /\ Wanted \subseteq Items
                       /\ PerPage \in Nat \ {0}
                       /\ MaxCalls \in Nat
                       /\ KeepOptions \in BOOLEAN

Kinds == {"pull", "fetch", "oldfetch", "each", "logs", "get"}

VARIABLES there,   \* what GitHub has, and lists, the newest first
          logs,    \* it has the logs of the run
          pc, kind, calls, page,
          todo,    \* what a call has still to download
          handed,  \* what the function of ListArtifactsFunc was given
          result,
          steady,  \* history: what was there all along
          excused  \* history: what was on a page may have moved to one the call had read

vars == <<there, logs, pc, kind, calls, page, todo, handed, result, steady, excused>>

server  == <<there, logs>>
history == <<steady, excused>>

Init == /\ there \in SUBSET Items
        /\ logs \in BOOLEAN
        /\ pc = "idle"
        /\ kind \in Kinds
        /\ calls = 0
        /\ page = 1
        /\ todo = {}
        /\ handed = {}
        /\ result = 0
        /\ steady = {}
        /\ excused = FALSE

Going == pc \in {"listing", "downloading", "asking", "located"}

-----------------------------------------------------------------------------
(***************************************************************************)
(* GitHub                                                                  *)
(***************************************************************************)

\* A pull request is opened, an artifact uploaded.
Appear(i) == /\ \A j \in there : i > j
             /\ there' = there \union {i}
             /\ UNCHANGED <<logs, pc, kind, calls, page, todo, handed, result, history>>

\* How many come before it in the list.
Place(i) == Cardinality({j \in there : j > i})

\* It is on a page before the one that the call is about to read.
OnReadPage(i) == pc = "listing" /\ Place(i) < (page - 1) * PerPage

\* A pull request is closed, an artifact is deleted.  What comes after it moves
\* forward, and across the end of what the call has read only if it was there.
Vanish(i) == /\ i \in there
             /\ there' = there \ {i}
             /\ steady' = steady \ {i}
             /\ excused' = (excused \/ OnReadPage(i))
             /\ UNCHANGED <<logs, pc, kind, calls, page, todo, handed, result>>

LogsExpire == logs /\ logs' = FALSE
              /\ UNCHANGED <<there, pc, kind, calls, page, todo, handed, result, history>>

Page(n)     == {i \in there : Place(i) \in (n - 1) * PerPage .. n * PerPage - 1}
NextPage(n) == IF Cardinality(there) > n * PerPage THEN n + 1 ELSE 0

\* The first of the items of a page.
First(items) == Max(items)

\* How a request ends: no response and an error of the client; a response that
\* is no success, which the client returns along with an error; or a response.
Responses == {"none", "limited", "refused", "created", "ok"}

\* CheckResponse of go-github, RateLimitError and AbuseRateLimitError among its errors.
CheckResponse(r) == r \notin {"limited", "refused"}

-----------------------------------------------------------------------------
(***************************************************************************)
(* The calls                                                               *)
(***************************************************************************)

\* validateResponse: "valid", or why there is an error.
Validated(r) == CASE r # "none" /\ ~CheckResponse(r) -> IF r = "limited" THEN "limit" ELSE "error"
                  [] r \in {"none", "created"}       -> "error"
                  [] OTHER                           -> "valid"

\* A call; its ListOptions are new, or those of the call before.
Call ==
    /\ pc \in {"idle", "done", "failed"} /\ calls < MaxCalls
    /\ pc' = IF kind \in {"logs", "get"} THEN "asking" ELSE "listing"
    /\ calls' = calls + 1
    /\ page' = IF KeepOptions /\ kind = "each" THEN page ELSE 1
    /\ handed' = {}
    /\ todo' = {}
    /\ steady' = there
    /\ excused' = FALSE
    /\ UNCHANGED <<server, kind, result>>

Fail == /\ Going
        /\ pc' = "failed"
        /\ UNCHANGED <<server, kind, calls, page, todo, handed, result, history>>

\* A page without a match: the next one, or the end.
TurnPage ==
    LET next == NextPage(page)
    IN  /\ pc' = IF next # 0 THEN "listing" ELSE "done"
        /\ page' = IF next # 0 THEN next ELSE page
        /\ result' = 0

Matches == Page(page) \intersect Wanted

\* GetWorkloadRunPullRequestNumber: the first match of any page.
ListPulls ==
    /\ pc = "listing" /\ kind = "pull"
    /\ IF Matches = {}
       THEN TurnPage
       ELSE /\ result' = First(Matches)
            /\ pc' = "done"
            /\ UNCHANGED page
    /\ UNCHANGED <<server, kind, calls, todo, handed, history>>

\* Mutant: the call ends with the first page.
FetchArtifact_OnePage ==
    /\ pc = "listing" /\ kind = "fetch"
    /\ todo' = IF Matches = {} THEN {} ELSE {First(Matches)}
    /\ result' = 0
    /\ pc' = IF Matches = {} THEN "done" ELSE "downloading"
    /\ UNCHANGED <<server, kind, calls, page, handed, history>>

\* FetchWorkflowRunArtifact: the function it gives ListArtifactsFunc downloads
\* the first match and stops.
FetchArtifact ==
    \E r \in Responses :
    /\ pc = "listing" /\ kind = "fetch" /\ Validated(r) = "valid"
    /\ LET match == IF r = "ok" THEN Matches ELSE {}
       IN  IF match = {}
           THEN TurnPage /\ UNCHANGED todo
           ELSE /\ todo' = {First(match)}
                /\ pc' = "downloading"
                /\ UNCHANGED <<page, result>>
    /\ UNCHANGED <<server, kind, calls, handed, history>>

\* GetWorkflowRunArtifact: all the matches of the first page; the last one stays.
OldFetchArtifact ==
    /\ pc = "listing" /\ kind = "oldfetch"
    /\ todo' = Matches
    /\ result' = 0
    /\ pc' = IF Matches = {} THEN "done" ELSE "downloading"
    /\ excused' = (excused \/ NextPage(1) # 0)
    /\ UNCHANGED <<server, kind, calls, page, handed, steady>>

\* The address of the download, then the download: both only of what is still there.
Download ==
    LET i == First(todo)
    IN  /\ pc = "downloading"
        /\ i \in there
        /\ result' = i
        /\ todo' = todo \ {i}
        /\ pc' = IF todo = {i} THEN "done" ELSE "downloading"
        /\ UNCHANGED <<server, kind, calls, page, handed, history>>

\* ListArtifactsFunc with a function that may stop, or fail, at any artifact.
\* A response that is taken for valid though it is none has no artifacts.
EachArtifact ==
    \E r \in Responses :
    /\ pc = "listing" /\ kind = "each" /\ Validated(r) = "valid"
    /\ LET items == IF r = "ok" THEN Page(page) ELSE {}
       IN  \/ /\ handed' = handed \union items
              /\ IF r = "ok" THEN TurnPage
                 ELSE pc' = "done" /\ UNCHANGED <<page, result>>
           \/ \E last \in items :
                 /\ handed' = handed \union {i \in items : i >= last}
                 /\ pc' = "stopped"
                 /\ UNCHANGED <<page, result>>
    /\ UNCHANGED <<server, kind, calls, todo, history>>

\* GetWorkflowRunLogs, FetchWorkflowRunLogs: where the logs are ...
LocateLogs == /\ pc = "asking" /\ kind = "logs" /\ logs
              /\ pc' = "located"
              /\ UNCHANGED <<server, kind, calls, page, todo, handed, result, history>>

\* ... and what is there by then; GetWorkflowRunLogs tells that they are gone.
ReadLogs == /\ pc = "located"
            /\ pc' = IF logs THEN "done" ELSE "gone"
            /\ UNCHANGED <<server, kind, calls, page, todo, handed, result, history>>

\* GetRelease, GetFileContent, SearchContentInFilename, SearchFilenameInRepository,
\* ListFiles, CompareCommits, GetCommitDetails: one request.
Get ==
    \E r \in Responses :
    /\ pc = "asking" /\ kind = "get"
    /\ pc' = IF Validated(r) = "valid" THEN "done" ELSE "failed"
    /\ result' = IF r = "ok" THEN 1 ELSE 0
    /\ UNCHANGED <<server, kind, calls, page, todo, handed, history>>

Caller == \/ Call \/ Fail \/ ListPulls \/ FetchArtifact \/ OldFetchArtifact
          \/ Download \/ EachArtifact \/ LocateLogs \/ ReadLogs \/ Get

Next == \/ Caller
        \/ \E i \in Items : Appear(i) \/ Vanish(i)
        \/ LogsExpire

Spec == Init /\ [][Next]_vars

-----------------------------------------------------------------------------
(***************************************************************************)
(* Properties                                                              *)
(***************************************************************************)

\* No page is asked for that cannot be there.
TypeOK == /\ there \subseteq Items
          /\ logs \in BOOLEAN
          /\ pc \in {"idle", "listing", "downloading", "asking", "located",
                    "done", "stopped", "gone", "failed"}
          /\ kind \in Kinds
          /\ calls \in 0 .. MaxCalls
          /\ page \in Nat \ {0} /\ (page = 1 \/ (page - 1) * PerPage < Cardinality(Items))
          /\ todo \subseteq Wanted
          /\ handed \subseteq Items
          /\ result \in Items \union {0, 1}
          /\ steady \subseteq Items
          /\ excused \in BOOLEAN

\* A call that reports nothing found is right, unless something left a page it
\* had read, or it is the deprecated one and there was a second page: what comes
\* meanwhile only moves the others to pages it has still to read.
NotFoundForReason ==
    pc = "done" /\ kind \in {"pull", "fetch", "oldfetch"} /\ result = 0 =>
        steady \intersect Wanted = {} \/ excused

\* FetchWorkflowRunArtifact finds the newest artifact of the name: no other that
\* was there all along is newer.
NewestWins ==
    pc = "done" /\ kind = "fetch" /\ result # 0 =>
        \/ \A i \in steady \intersect Wanted : i <= result
        \/ excused

\* "executes the provided function on each of the artifacts" (github.go:525):
\* a call of ListArtifactsFunc that comes to its end has given the function
\* all that was there all along, unless something left a page it had read.
EachIsGiven ==
    pc = "done" /\ kind = "each" => steady \subseteq handed \/ excused

\* What is returned without an error is what GitHub answered.
AnswerIsGitHubs == pc = "done" /\ kind = "get" => result = 1

\* The result of every look-up is right for what was there all along.
RightAnswer == NotFoundForReason /\ NewestWins /\ EachIsGiven /\ AnswerIsGitHubs
=============================================================================
