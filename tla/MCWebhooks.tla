----------------------------- MODULE MCWebhooks -----------------------------
(***************************************************************************)
(* Webhooks for TLC: the first state chooses the trampoline or a body, and *)
(* only that one takes steps.                                              *)
(***************************************************************************)
EXTENDS Webhooks

VARIABLE part

Leaf(place, name, kind, allowed, text) ==
    [place |-> place, name |-> name, kind |-> kind, allowed |-> allowed, text |-> text]

MCPlaces == {"top", "detail", "tags"}

MCLeaves ==
    {Leaf(p, <<>>, "string", TRUE, <<t>>) : p \in MCPlaces, t \in {"plain", "email", "escaped", "begin", "end"}}
    \union {Leaf(p, <<>>, "string", FALSE, <<"prose">>) : p \in MCPlaces}
    \union {Leaf(p, <<>>, "number", p = "top", <<>>) : p \in MCPlaces}
    \union {Leaf(p, <<t>>, "flag", FALSE, <<>>) : p \in {"top", "detail"},
                                                  t \in {"email", "escaped", "begin", "end"}}
    \union {Leaf("tags", <<>>, "flag", FALSE, <<>>)}

ASSUME ConstantsAssumption /\ R!ConstantsAssumption

rvars  == <<body, object, redacted, done>>
mcvars == <<part, vars, rvars>>

\* Beside a body there is a webhook of GitHub that is never delivered; beside a
\* webhook there is an empty body that nobody looks at.
NoDelivery == webhook = (CHOOSE w \in G!Webhooks : TRUE) /\ Init
NoBody     == R!Init /\ body = <<>> /\ object = FALSE

MCInit == \/ part = "trampoline" /\ Init /\ NoBody
          \/ part = "redact"     /\ R!Init /\ NoDelivery

MCNext == \/ part = "trampoline" /\ Next /\ UNCHANGED <<part, rvars>>
          \/ part = "redact"     /\ R!Next /\ UNCHANGED <<part, vars>>

\* The fairness of Trampoline.
MCFairSpec == /\ MCInit /\ [][MCNext]_mcvars
              /\ \A d \in Deliveries :
                   /\ WF_vars(part = "trampoline" /\ (Receive(d) \/ Send(d)))
                   /\ WF_vars(part = "trampoline" /\ ServeNow(d))
                   /\ WF_vars(part = "trampoline" /\ webhook.from = "bucket" /\ Deliver(d))
=============================================================================
