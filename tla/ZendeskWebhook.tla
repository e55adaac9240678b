--------------------------- MODULE ZendeskWebhook ---------------------------
(***************************************************************************)
(* What the Zendesk trampoline makes of one webhook                        *)
(* (modules/zendesk-events/internal/trampoline): the answer it gives at    *)
(* once, or the extensions of the event it sends.  Redact says what is     *)
(* left of its body.                                                       *)
(***************************************************************************)
EXTENDS Integers

CONSTANTS Secrets

None == ""

Plain == [from |-> "zendesk", small |-> TRUE, key |-> "k1", stamp |-> "time", readable |-> TRUE,
          type |-> "ticket", account |-> 1, ticket |-> "t1"]

Envelope(b, k, s, r, t) ==
    [Plain EXCEPT !.small = b, !.key = k, !.stamp = s, !.readable = r, !.type = t]
Ticket(a, t) == [Plain EXCEPT !.account = a, !.ticket = t]

Webhooks == {Envelope(b, k, s, r, t) : b \in BOOLEAN, k \in {None, "k1", "k3", "placeholder"},
                                       s \in {None, "time", "other"}, r \in BOOLEAN,
                                       t \in {"ticket", "organization", "untyped"}}
            \union {Ticket(a, t) : a \in {0, 1}, t \in {None, "t1"}}

-----------------------------------------------------------------------------
\* NewServer: the placeholder that everyone knows is no secret.
Usable(secrets) == secrets \ {"placeholder"}

\* validateSignature: the HMAC of the time and the body.
ValidateSignature(w) == w.key \in Usable(Secrets)

\* ServeHTTP, up to the event.
Verdict(w, age) ==
    IF ~w.small THEN "400"
    ELSE IF \/ ~ValidateSignature(w)
            \/ w.stamp # "time"
            \/ age \notin {"early", "fresh"}
    THEN "403"
    ELSE IF ~w.readable \/ w.type # "ticket" THEN "400"
    ELSE "send"

Extensions(w) == [accountid |-> w.account, ticketid |-> w.ticket]
=============================================================================
