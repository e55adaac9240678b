------------------------------ MODULE Webhooks ------------------------------
(***************************************************************************)
(* A webhook on its way to the broker (Trampoline) and what is left of the *)
(* body of one of Zendesk (Redact), one beside the other: what is redacted *)
(* depends on the body alone.                                              *)
(***************************************************************************)
EXTENDS Trampoline, Sequences

CONSTANTS Leaves, MaxLeaves

VARIABLES body, object, redacted, done

R == INSTANCE Redact

\* What is left of every body, and the types of it; Redact says what they mean.
Redacted == R!TypeOK /\ R!Redacted
=============================================================================
