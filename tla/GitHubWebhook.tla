---------------------------- MODULE GitHubWebhook ----------------------------
(***************************************************************************)
(* What the GitHub trampoline makes of one webhook                         *)
(* (modules/github-events/internal/trampoline): the answer it gives at     *)
(* once, or the extensions of the event it sends.  A pull request, its     *)
(* number and its branch are one number here, and 0 is none.               *)
(***************************************************************************)
EXTENDS Integers, Sequences

CONSTANTS Secrets,
          WebhookID, RequestedOnly, OrgFilter  \* sets; an empty one does not filter

None == ""

PullEvents  == {"pull_request", "pull_request_review", "pull_request_review_comment"}
CheckEvents == {"check_run", "check_suite"}

Plain == [from |-> "github", sha256 |-> "k1", sha1 |-> None, event |-> "pull_request",
          action |-> "opened", hook |-> "h1", org |-> "o1", payload |-> "known", repo |-> TRUE,
          number |-> 0, pull |-> 1, onPull |-> FALSE, pulls |-> <<>>, merged |-> FALSE]

Actions(event) ==
    CASE event = "check_run"    -> {"created", "rerequested", "requested_action"}
      [] event = "check_suite"  -> {"completed", "requested", "rerequested"}
      [] event = "pull_request" -> {"opened", "closed"}
      [] OTHER                  -> {"created"}

\* An object of the known shape, another JSON value, or neither.
Payloads == {"known", "other", "no JSON"}

\* Who signed a webhook and what it is, with little in it ...
Envelope(s, e, a, h, o, p) ==
    [Plain EXCEPT !.sha256 = s[1], !.sha1 = s[2], !.event = e, !.action = a, !.hook = h, !.org = o,
                  !.payload = p]

EnvelopesOf(e) ==
    {Envelope(s, e, a, h, o, p) :
         s \in {<<"k1", None>>, <<None, "k2">>, <<"k3", "k1">>, <<None, None>>},
         a \in Actions(e), h \in {"h1", "h2", "h3"}, o \in {"o1", "o2"},
         p \in Payloads}

Envelopes == UNION {EnvelopesOf(e) : e \in {None, "push", "check_run", "check_suite"}}

\* ... and what is in one: GitHub tells of the pull requests of a check, of an
\* issue or of the pull request that a comment is on.
Pull(e, a, m, r) == [Plain EXCEPT !.event = e, !.action = a, !.pull = 2, !.merged = m, !.repo = r]
Check(e, a, p)   == [Plain EXCEPT !.event = e, !.action = a, !.pull = 0, !.pulls = p]
Issue(e, p, r)   == [Plain EXCEPT !.event = e, !.action = "created", !.pull = 0, !.number = 3,
                                  !.onPull = p, !.repo = r]

ContentsOf(e) ==
    CASE e \in PullEvents  -> {Pull(e, a, m, r) : a \in Actions(e), m \in BOOLEAN, r \in BOOLEAN}
      [] e \in CheckEvents -> {Check(e, a, p) : a \in Actions(e), p \in {<<>>, <<1>>, <<2, 1>>}}
      [] OTHER             -> {Issue(e, p, r) : p \in BOOLEAN, r \in BOOLEAN}

Contents == UNION {ContentsOf(e) : e \in PullEvents \union CheckEvents \union {"issues", "issue_comment"}}

Webhooks == Envelopes \union Contents

-----------------------------------------------------------------------------
\* ValidatePayload: the SHA-1 signature counts when there is no SHA-256 one.
ValidatePayload(w) == (IF w.sha256 # None THEN w.sha256 ELSE w.sha1) \in Secrets

\* A payload that is no object of the known shape leaves the info empty.
Action(w) == IF w.payload = "known" THEN w.action ELSE None
Org(w)    == IF w.payload = "known" THEN w.org ELSE None

Requested(w) == w.event \in CheckEvents /\ Action(w) \in {"requested", "rerequested", "requested_action"}

\* Mutant: an event that was not asked for passes any webhook.
Verdict_Unrequested(w) ==
    IF ~ValidatePayload(w) THEN "403"
    ELSE IF w.event = None THEN "400"
    ELSE IF \/ WebhookID # {} /\ w.hook \notin WebhookID
            \/ OrgFilter # {} /\ Org(w) \notin OrgFilter
    THEN "202"
    ELSE IF w.payload = "no JSON" THEN "500" ELSE "send"

\* ServeHTTP, up to Send: an event cannot have a payload that is no JSON.
Verdict(w) ==
    IF ~ValidatePayload(w) THEN "403"
    ELSE IF w.event = None THEN "400"
    ELSE IF \/ WebhookID # {} /\ w.hook \notin WebhookID
            \/ w.hook \in RequestedOnly /\ ~Requested(w)
            \/ OrgFilter # {} /\ Org(w) \notin OrgFilter
    THEN "202"
    ELSE IF w.payload = "no JSON" THEN "500" ELSE "send"

\* extractPullRequestInfo, extractPullRequestURL, extractHeadBranch,
\* extractIssueURL, isPullRequestMerged.
First(pulls) == IF pulls = <<>> THEN 0 ELSE Head(pulls)

PullOf(w) == CASE w.event \in PullEvents  -> w.pull
               [] w.event \in CheckEvents -> First(w.pulls)
               [] OTHER                   -> 0

Extensions(w) ==
    [pullrequest    |-> IF w.event = "pull_request" /\ w.repo THEN w.pull ELSE 0,
     pullrequesturl |-> IF ~w.repo THEN 0
                        ELSE IF w.event = "issue_comment" /\ w.onPull THEN w.number ELSE PullOf(w),
     headbranch     |-> PullOf(w),
     issueurl       |-> IF \/ w.repo /\ w.event = "issues"
                           \/ w.repo /\ w.event = "issue_comment" /\ ~w.onPull
                        THEN w.number ELSE 0,
     merged         |-> w.event = "pull_request" /\ w.action = "closed" /\ w.merged]

-----------------------------------------------------------------------------
\* What is asked of the trampoline (cmd/trampoline/main.go:31-41): only the
\* webhooks with these IDs, only these events of those that pass requests
\* only, and only of these organizations.
AskedFor(w) ==
    /\ w.event # None
    /\ WebhookID # {} => w.hook \in WebhookID
    /\ w.hook \in RequestedOnly =>
           <<w.event, w.action>> \in {<<"check_run", "requested_action">>, <<"check_run", "rerequested">>,
                                      <<"check_suite", "requested">>, <<"check_suite", "rerequested">>}
    /\ OrgFilter # {} => w.payload = "known" /\ w.org \in OrgFilter

\* One pull request, or one issue, and never both.
OneSubject(x) == /\ x.pullrequesturl = 0 \/ x.issueurl = 0
                 /\ x.headbranch # 0 /\ x.pullrequesturl # 0 => x.headbranch = x.pullrequesturl
                 /\ x.pullrequest \in {0, x.pullrequesturl}
                 /\ x.merged => x.headbranch # 0
=============================================================================
