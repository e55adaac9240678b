------------------------------- MODULE Redact -------------------------------
(***************************************************************************)
(* What is left of the body of a Zendesk webhook                           *)
(* (modules/zendesk-events/internal/redact): it is decoded, only the       *)
(* leaves that are known to be technical are kept, and in the text that    *)
(* encodes them patterns are masked.  A pattern knows nothing of JSON, so  *)
(* what comes out may be none; then all strings go.                        *)
(*                                                                         *)
(* A body is a sequence of leaves in the order of the encoding, each with  *)
(* the place it is at; the text of a leaf is a sequence of tokens:         *)
(*   "plain"    nothing to hide                                            *)
(*   "prose"    what people write                                          *)
(*   "email"    what a pattern finds: an address, a secret, a customer     *)
(*   "escaped"  that behind an escaped character, whose last letter the    *)
(*              pattern takes for a part of it                             *)
(*   "begin", "end"  of a private key                                      *)
(* and a text is a function from spots, a leaf and a place in it, to these *)
(* tokens and to "key" and "value", where a key and a value end.           *)
(***************************************************************************)
EXTENDS Integers, Sequences

CONSTANTS Leaves,    \* that a body is made of
          MaxLeaves  \* bound: leaves of a body

VARIABLES body, object,     \* what comes, and whether it is an object at all
          redacted, done    \* what is left of it

vars == <<body, object, redacted, done>>

Places == {"top", "detail", "tags"}  \* fields of objects, and the elements of the tags

\* emailRE, cgrPathRE, cgrSubdomainRE, the IP patterns, customerTagRE, and of
\* secretREs all but the last.
Patterns == {"email", "escaped"}
Words    == Patterns \union {"plain", "begin", "end"}

\* allowed: the key is in the allowlist of its kind, or the tag has an allowed
\* prefix.  The keys of the allowlists have no tokens to mask, and their values
\* "are never customer-authored free text" (safeStringKeys).
ConstantsAssumption ==
    /\ MaxLeaves \in Nat
    /\ \A l \in Leaves : /\ l.place \in Places
                         /\ l.kind \in {"string", "number", "flag"}
                         /\ l.name \in Seq(Words)
                         /\ l.text \in Seq(Words \union {"prose"})
                         /\ l.allowed \in BOOLEAN
                         /\ l.allowed => l.name = <<>> /\ l.text \in Seq(Words)
                         /\ l.place = "tags" => l.name = <<>> /\ (l.allowed => l.kind = "string")

Nothing == [text |-> <<>>, json |-> FALSE]

Init == /\ \E n \in 0 .. MaxLeaves : body \in [1 .. n -> Leaves]
        /\ object \in BOOLEAN
        /\ redacted = Nothing
        /\ done = FALSE

-----------------------------------------------------------------------------
\* redactObject, redactValue, redactArray, filterTags.  Of the tags only strings
\* are kept, with an allowed prefix; if all strings go, they are an array like
\* any other, and lose the strings and the numbers.
Kept(l, dropAllStrings) ==
    \/ l.kind = "string" /\ ~dropAllStrings /\ l.allowed
    \/ l.kind = "number" /\ l.allowed
    \/ l.kind = "flag"   /\ (l.place # "tags" \/ dropAllStrings)

\* How a leaf is encoded: the tokens of its key and, of a string, of its value.
KeyOf(l)  == IF l.place = "tags" THEN <<>> ELSE Append(l.name, "key")
Tokens(l) == KeyOf(l) \o (IF l.kind = "string" THEN Append(l.text, "value") ELSE <<"value">>)

\* The encoding of what is kept.
Walk(b, dropAllStrings) ==
    LET kept == {i \in DOMAIN b : Kept(b[i], dropAllStrings)}
    IN  [s \in UNION {{i} \X DOMAIN Tokens(b[i]) : i \in kept} |-> Tokens(b[s[1]])[s[2]]]

Before(s, t) == s[1] < t[1] \/ (s[1] = t[1] /\ s[2] < t[2])

\* In what a spot is: keys or values, and of which place.
Within(b, s) == <<s[2] <= Len(KeyOf(b[s[1]])), b[s[1]].place>>

\* String: the patterns, one after the other.  That of a private key goes from a
\* first line that is in no other key to the next last line, and takes whatever is
\* between; the text is still JSON if both are within the same, and no escape was
\* broken that is left.
Scan(b, text) ==
    LET Spots(t)    == {s \in DOMAIN text : text[s] = t}
        Ended(s, t) == \E e \in Spots("end") : Before(s, e) /\ Before(e, t)
        begins      == {s \in Spots("begin") : \E e \in Spots("end") : Before(s, e)}
        left        == {s \in DOMAIN text : \A k \in begins : Before(k, s) => Ended(k, s)}
        Mask(s)     == IF text[s] \in Patterns \/ s \in begins THEN "mask" ELSE text[s]
    IN  [text |-> [s \in left |-> Mask(s)],
         json |-> /\ \A k \in begins \intersect left, e \in Spots("end") :
                         Before(k, e) /\ ~Ended(k, e) => Within(b, k) = Within(b, e)
                  /\ \A s \in left : text[s] # "escaped"]

NoFields == [text |-> <<>>, json |-> TRUE]

\* Mutant: the patterns are not looked for in the keys that are left.
Body_Keys(b) ==
    LET first == Scan(b, Walk(b, FALSE))
    IN  IF first.json THEN first ELSE [text |-> Walk(b, TRUE), json |-> TRUE]

Body(b) ==
    LET first  == Scan(b, Walk(b, FALSE))
        second == Scan(b, Walk(b, TRUE))
    IN  CASE first.json                 -> first
          [] ~first.json /\ second.json -> second
          [] OTHER                      -> NoFields

Redact == /\ ~done
          /\ redacted' = IF object THEN Body(body) ELSE NoFields
          /\ done' = TRUE
          /\ UNCHANGED <<body, object>>

Next == Redact

Spec == Init /\ [][Next]_vars

-----------------------------------------------------------------------------
(***************************************************************************)
(* Properties                                                              *)
(***************************************************************************)

Of(text) == {text[k] : k \in DOMAIN text}

TypeOK == /\ Len(body) <= MaxLeaves /\ body \in [1 .. Len(body) -> Leaves]
          /\ {object, done, redacted.json} \subseteq BOOLEAN
          /\ ~done => redacted = Nothing

\* "Body returns b with customer-identifying information removed": no prose,
\* nothing that a pattern knows, and no private key, also not one whose lines
\* are in two strings, or in keys.
NothingPersonal ==
    /\ \A s \in DOMAIN redacted.text : redacted.text[s] \notin {"prose"} \union Patterns
    /\ \A s, t \in DOMAIN redacted.text :
           redacted.text[s] = "begin" /\ redacted.text[t] = "end" => ~Before(s, t)

\* What is sent is JSON, whatever the patterns took.
IsJSON == done => redacted.json

\* What is technical stays, with no private key in what is kept: the numbers of the
\* allowlist unless an escape was broken in a key, the strings unless one was
\* broken anywhere.
TechnicalStays ==
    LET kept    == {i \in DOMAIN body : Kept(body[i], FALSE) \/ Kept(body[i], TRUE)}
        keys    == UNION {Of(body[i].name) : i \in kept}
        strings == UNION {Of(body[i].text) : i \in {j \in kept : body[j].kind = "string"}}
    IN  done /\ object /\ "begin" \notin keys \union strings /\ "escaped" \notin keys =>
            \A i \in DOMAIN body :
                /\ body[i].allowed
                /\ body[i].kind = "number" \/ (body[i].kind = "string" /\ "escaped" \notin strings)
                => <<i, Len(Tokens(body[i]))>> \in DOMAIN redacted.text

\* What comes out is JSON with nothing in it but the technical, and all of that.
Redacted == NothingPersonal /\ IsJSON /\ TechnicalStays
=============================================================================
