---------------------------- MODULE LinearWebhook ----------------------------
(***************************************************************************)
(* What the Linear trampoline makes of one webhook                         *)
(* (modules/linear-events/internal/trampoline): the answer it gives at     *)
(* once, or the extensions of the event it sends.                          *)
(***************************************************************************)
EXTENDS Integers

CONSTANTS Secrets

None == ""

\* updatedFieldExtensions: two of the fields of an issue that have an extension
\* of their own; there is none for estimate.
Exposed == {"description", "stateId"}

Plain == [from |-> "linear", key |-> "k1", event |-> "issue", readable |-> TRUE, stamped |-> TRUE,
          action |-> "create", id |-> "i1", issue |-> None, team |-> "T", url |-> None,
          actor |-> None, updatedFrom |-> {}]

Envelope(k, e, r, s) == [Plain EXCEPT !.key = k, !.event = e, !.readable = r, !.stamped = s]
Update(u, t)         == [Plain EXCEPT !.action = "update", !.updatedFrom = u, !.team = t]
Comment(u, c)        == [Plain EXCEPT !.event = "comment", !.id = "c1", !.issue = "i1", !.team = None,
                                      !.url = u, !.actor = c]

Webhooks ==
    {Envelope(k, e, r, s) : k \in {None, "k1", "k2", "k3"}, e \in {None, "issue", "project"},
                            r \in BOOLEAN, s \in BOOLEAN}
    \union {Update(u, t) : u \in SUBSET {"description", "stateId", "estimate"}, t \in {None, "T"}}
    \union {Comment(u, c) : u \in {None, "T"}, c \in {None, "a1"}}

-----------------------------------------------------------------------------
\* validateSignature: the HMAC of the body with any of the secrets.
ValidateSignature(w) == w.key \in Secrets

\* ServeHTTP, up to the event; the time is in the payload, and there may be none.
Verdict(w, age) == IF ~ValidateSignature(w) THEN "403"
                   ELSE IF w.event = None \/ ~w.readable THEN "400"
                   ELSE IF w.stamped /\ age # "fresh" THEN "403"
                   ELSE "send"

\* teamKeyFromURL gives the team of the issue that a comment is on.
Extensions(w) ==
    [issueid  |-> CASE w.event = "issue"   -> w.id
                    [] w.event = "comment" -> w.issue
                    [] OTHER               -> None,
     team     |-> CASE w.event = "issue"   -> w.team
                    [] w.event = "comment" -> w.url
                    [] OTHER               -> None,
     authorid |-> IF w.event = "comment" THEN w.actor ELSE None,
     updated  |-> IF w.event = "issue" /\ w.action = "update"
                  THEN w.updatedFrom \intersect Exposed ELSE {}]
=============================================================================
