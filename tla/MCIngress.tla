------------------------------ MODULE MCIngress ------------------------------
EXTENDS Ingress

CONSTANTS a, b, c, x, key, other, shared

\* a and b are of two types that are sent to one topic, with one key; c, of a
\* third type, has no key and goes to the default topic, and x is not verified.
MCTypeOf    == [e \in Events |-> IF e = a THEN "T1" ELSE IF e = b THEN "T2" ELSE "T3"]
MCKeyOf     == [e \in Events |-> IF e \in {a, b} THEN key ELSE NoKey]
MCTokens    == [e \in Events |-> IF e = x THEN "unverified" ELSE "verified"]
MCOverrides == [t \in {"T1", "T2"} |-> shared]
=============================================================================
