------------------------- MODULE GitHubClientProofs -------------------------
(***************************************************************************)
(* Proofs about the tokens of a client, for any requests, clones, calls of *)
(* Close and number of tokens, and about what it looks up, for any items,  *)
(* pages and number of calls.                                              *)
(***************************************************************************)
EXTENDS GitHubClient, FiniteSets, FiniteSetTheorems, WellFoundedInduction, TLAPS

-----------------------------------------------------------------------------
(***************************************************************************)
(* Tokens                                                                  *)
(***************************************************************************)

States  == {"start", "minting", "revoking", "installing", "using",
            "cloned", "accepted", "refused", "closed", "failed"}
Inside  == {"minting", "revoking", "installing"}
Working == {"using", "cloned", "closed"}

\* The token of the cache is the one minted last, and a caller has none before it
\* was minted.
Types == /\ tok \in 0 .. minted /\ cached = tok
         /\ minted \in 0 .. MaxTokens
         /\ mu \in Callers \union {"nobody"}
         /\ pc \in [Callers -> States]
         /\ own \in [Callers -> 0 .. minted]
         /\ age \in [Tokens -> {"fresh", "stale", "expired"}]
         /\ revoked \subseteq Tokens
         /\ excused \subseteq Tokens
         /\ later \in [Callers -> SUBSET Tokens]

\* Who is inside of Token, and how far.
HolderInv ==
    /\ \A c \in Callers : pc[c] \in Inside <=> mu = c
    /\ \A c \in Callers : pc[c] \in {"start", "minting"} => own[c] = NoToken
    /\ \A c \in Callers : pc[c] \notin {"start", "minting", "failed"} => own[c] # NoToken
    /\ \A c \in Callers : pc[c] = "revoking" => tok # NoToken
    /\ \A c \in Callers : pc[c] = "installing" => tok \in {NoToken} \union revoked \union excused
    /\ mu # "nobody" => tok = NoToken \/ age[tok] # "fresh"

\* Which tokens live, as the source and as its callers know.
LiveInv ==
    /\ \A t \in Tokens : Live(t) => t \in {tok} \union excused \/ \E c \in Callers : mu = c /\ own[c] = t
    /\ \A c \in Callers : pc[c] \in Working =>
           \A t \in Tokens : Live(t) => t \in excused \union later[c] \union {own[c]}
    /\ \A c \in Callers : pc[c] = "closed" => own[c] \in revoked

\* Why a token may be refused.
Reason(t) == \/ age[t] # "fresh"
             \/ \E d \in Closers : own[d] = t /\ pc[d] \in {"closed", "failed"}

ReasonInv == /\ \A t \in revoked : Reason(t)
             /\ \A c \in Callers : pc[c] = "refused" => Reason(own[c])

TokenInv == Types /\ HolderInv /\ LiveInv /\ ReasonInv

-----------------------------------------------------------------------------
\* The token of the source is taken, or found to be stale.
LEMMA ReuseInv ==
    ASSUME ConstantsAssumption, TokenInv, NEW c \in Callers, Reuse(c)
    PROVE  TokenInv'
<1> USE DEF NoToken, Tokens, States, Inside, Working
<1>1. cached \in Tokens /\ mu = "nobody" /\ pc[c] = "start"
  BY DEF Reuse, Valid
<1>2. Types'
  BY <1>1 DEF Reuse, TokenInv, Types
<1>3. HolderInv'
  BY <1>1 DEF Reuse, TokenInv, Types, HolderInv
<1>4. LiveInv'
  <2>1. "nobody" \notin Callers
    BY DEF ConstantsAssumption, Callers
  <2>2. \A t \in Tokens : Live(t)' <=> Live(t)
    BY DEF Reuse, Live
  <2>3. QED
    BY <1>1, <2>1, <2>2 DEF Reuse, TokenInv, Types, LiveInv
<1>5. ReasonInv'
  BY <1>1 DEF Reuse, TokenInv, Types, ReasonInv, Reason
<1>6. QED
  BY <1>2, <1>3, <1>4, <1>5 DEF TokenInv

LEMMA RefreshInv ==
    ASSUME ConstantsAssumption, TokenInv, NEW c \in Callers, Refresh(c)
    PROVE  TokenInv'
<1> USE DEF NoToken, Tokens, States, Inside, Working
<1>1. Types'
  BY DEF Refresh, TokenInv, Types
<1>2. HolderInv'
  <2>1. tok = NoToken \/ age[tok] # "fresh"
    BY DEF Refresh, Valid, TokenInv, Types, ConstantsAssumption
  <2>2. "nobody" \notin Callers
    BY DEF ConstantsAssumption, Callers
  <2>3. QED
    BY <2>1, <2>2 DEF Refresh, TokenInv, Types, HolderInv
<1>3. LiveInv'
  <2>1. "nobody" \notin Callers
    BY DEF ConstantsAssumption, Callers
  <2>2. \A t \in Tokens : Live(t)' <=> Live(t)
    BY DEF Refresh, Live
  <2>3. QED
    BY <2>1, <2>2 DEF Refresh, TokenInv, Types, LiveInv
<1>4. ReasonInv'
  BY DEF Refresh, TokenInv, Types, ReasonInv, Reason
<1>5. QED
  BY <1>1, <1>2, <1>3, <1>4 DEF TokenInv

-----------------------------------------------------------------------------
\* A token that is made is known to be later than those that are in use.
LEMMA NewTokenTypes ==
    ASSUME ConstantsAssumption, Types, NewToken
    PROVE  /\ minted \in Nat /\ minted' = minted + 1 /\ minted' \in Tokens
           /\ later' \in [Callers -> SUBSET Tokens]
           /\ \A d \in Callers : later[d] \subseteq later'[d]
           /\ \A d \in Callers : pc[d] \in Working => minted' \in later'[d]
<1>1. minted \in Nat /\ minted' = minted + 1 /\ minted' \in Tokens
  BY DEF NewToken, Types, Tokens, ConstantsAssumption
<1>2. QED
  BY <1>1 DEF NewToken, Types, Working

LEMMA MintInv ==
    ASSUME ConstantsAssumption, TokenInv, NEW c \in Callers, Mint(c)
    PROVE  TokenInv'
<1> USE DEF NoToken, States, Inside, Working
<1>1. /\ minted \in Nat /\ minted' = minted + 1 /\ minted' \in Tokens
      /\ later' \in [Callers -> SUBSET Tokens]
      /\ \A d \in Callers : later[d] \subseteq later'[d]
      /\ \A d \in Callers : pc[d] \in Working => minted' \in later'[d]
  BY NewTokenTypes DEF Mint, TokenInv
<1>2. /\ pc[c] = "minting" /\ mu = c
      /\ own' = [own EXCEPT ![c] = minted']
      /\ pc' = [pc EXCEPT ![c] = IF tok # NoToken THEN "revoking" ELSE "installing"]
      /\ UNCHANGED <<cached, tok, mu, age, revoked, excused>>
  BY DEF Mint, TokenInv, HolderInv
<1>3. Types'
  BY <1>1, <1>2 DEF TokenInv, Types, Tokens, ConstantsAssumption
<1>4. HolderInv'
  BY <1>1, <1>2 DEF TokenInv, Types, HolderInv
<1>5. LiveInv'
  <2>1. \A t \in Tokens : Live(t)' => Live(t) \/ t = minted'
    BY <1>1, <1>2 DEF Live, Tokens, ConstantsAssumption
  <2>2. own'[c] = minted' /\ \A t \in Tokens : own[c] # t
    BY <1>2 DEF TokenInv, Types, HolderInv, Tokens
  <2>3. QED
    BY <1>1, <1>2, <2>1, <2>2 DEF TokenInv, Types, LiveInv
<1>6. ReasonInv'
  BY <1>2 DEF TokenInv, Types, ReasonInv, Reason, Tokens, HolderInv
<1>7. QED
  BY <1>3, <1>4, <1>5, <1>6 DEF TokenInv

\* The caller gets an error, and the token that was made all the same is excused.
LEMMA MintFailsInv ==
    ASSUME ConstantsAssumption, TokenInv, NEW c \in Callers, MintFails(c)
    PROVE  TokenInv'
<1> USE DEF NoToken, States, Inside, Working
<1>1. /\ pc[c] = "minting" /\ mu = c
      /\ mu' = "nobody"
      /\ pc' = [pc EXCEPT ![c] = "failed"]
      /\ UNCHANGED <<cached, tok, own, age, revoked>>
  BY DEF MintFails, TokenInv, HolderInv
<1>2. /\ minted \in Nat /\ minted' \in minted .. MaxTokens
      /\ excused \subseteq excused' /\ excused' \subseteq Tokens
      /\ later' \in [Callers -> SUBSET Tokens]
      /\ \A d \in Callers : later[d] \subseteq later'[d]
      /\ \A t \in Tokens : t <= minted' => t <= minted \/ t \in excused'
  <2>1. CASE UNCHANGED <<minted, later, excused>>
    BY <2>1 DEF TokenInv, Types, ConstantsAssumption, Tokens
  <2>2. CASE NewToken /\ excused' = excused \union {minted'}
    <3>1. /\ minted \in Nat /\ minted' = minted + 1 /\ minted' \in Tokens
          /\ later' \in [Callers -> SUBSET Tokens]
          /\ \A d \in Callers : later[d] \subseteq later'[d]
      BY <2>2, NewTokenTypes DEF TokenInv
    <3>2. excused \subseteq excused' /\ excused' \subseteq Tokens /\ minted' \in excused'
      BY <2>2, <3>1 DEF TokenInv, Types
    <3>3. minted' \in minted .. MaxTokens /\ \A t \in Tokens : t <= minted' => t <= minted \/ t = minted'
      BY <3>1 DEF ConstantsAssumption, Tokens
    <3>4. QED
      BY <3>1, <3>2, <3>3
  <2>3. QED
    BY <2>1, <2>2 DEF MintFails
<1>3. "nobody" \notin Callers
  BY DEF ConstantsAssumption, Callers
<1>4. Types'
  <2>1. /\ tok' \in 0 .. minted' /\ own' \in [Callers -> 0 .. minted'] /\ minted' \in 0 .. MaxTokens
    BY <1>1, <1>2 DEF TokenInv, Types, ConstantsAssumption
  <2>2. QED
    BY <1>1, <1>2, <2>1 DEF TokenInv, Types, Tokens
<1>5. HolderInv'
  <2>1. \A d \in Callers : pc'[d] \in Inside <=> mu' = d
    BY <1>1, <1>3 DEF TokenInv, Types, HolderInv
  <2>2. \A d \in Callers : pc'[d] = "installing" => FALSE
    BY <2>1, <1>1, <1>3
  <2>3. QED
    BY <1>1, <2>1, <2>2 DEF TokenInv, Types, HolderInv
<1>6. LiveInv'
  <2>1. \A t \in Tokens : Live(t)' => Live(t) \/ t \in excused'
    BY <1>1, <1>2 DEF Live, Tokens, ConstantsAssumption
  <2>2. \A t \in Tokens : own[c] # t
    BY <1>1 DEF TokenInv, Types, HolderInv, Tokens
  <2>3. QED
    BY <1>1, <1>2, <2>1, <2>2 DEF TokenInv, Types, LiveInv
<1>7. ReasonInv'
  BY <1>1 DEF TokenInv, Types, ReasonInv, Reason
<1>8. QED
  BY <1>4, <1>5, <1>6, <1>7 DEF TokenInv

-----------------------------------------------------------------------------
\* A call of Revoke, whatever comes of it, deals with its token only.
LEMMA RevokeOne ==
    ASSUME Types, NEW t \in Tokens, NEW ok \in BOOLEAN, Revoke(t, ok)
    PROVE  /\ revoked \subseteq revoked' /\ revoked' \subseteq revoked \union {t}
           /\ excused \subseteq excused' /\ excused' \subseteq excused \union {t}
           /\ t \in revoked' \union excused'
           /\ ok => t \in revoked'
BY DEF Revoke, Types

LEMMA RevokePreviousInv ==
    ASSUME ConstantsAssumption, TokenInv, NEW c \in Callers, RevokePrevious(c)
    PROVE  TokenInv'
<1> USE DEF NoToken, States, Inside, Working
<1>1. /\ pc[c] = "revoking" /\ mu = c /\ tok # NoToken /\ tok \in Tokens /\ age[tok] # "fresh"
      /\ pc' = [pc EXCEPT ![c] = "installing"]
      /\ UNCHANGED <<cached, tok, mu, own, minted, age, later>>
  <2>1. pc[c] = "revoking" /\ mu = c /\ tok # NoToken
    BY DEF RevokePrevious, TokenInv, HolderInv
  <2>2. age[tok] # "fresh"
    BY <2>1 DEF TokenInv, HolderInv, ConstantsAssumption, Callers
  <2>3. tok \in Tokens
    BY <2>1 DEF TokenInv, Types, ConstantsAssumption, Tokens
  <2>4. QED
    BY <2>1, <2>2, <2>3 DEF RevokePrevious
<1>2. /\ revoked \subseteq revoked' /\ revoked' \subseteq revoked \union {tok}
      /\ excused \subseteq excused' /\ excused' \subseteq excused \union {tok}
      /\ tok \in revoked' \union excused'
  BY <1>1, RevokeOne DEF RevokePrevious, TokenInv
<1>3. Types'
  BY <1>1, <1>2 DEF TokenInv, Types
<1>4. HolderInv'
  BY <1>1, <1>2 DEF TokenInv, Types, HolderInv
<1>5. LiveInv'
  <2>1. \A t \in Tokens : Live(t)' => Live(t)
    BY <1>1, <1>2 DEF Live
  <2>2. QED
    BY <1>1, <1>2, <2>1 DEF TokenInv, Types, LiveInv
<1>6. ReasonInv'
  BY <1>1, <1>2 DEF TokenInv, Types, ReasonInv, Reason
<1>7. QED
  BY <1>3, <1>4, <1>5, <1>6 DEF TokenInv

LEMMA InstallInv ==
    ASSUME ConstantsAssumption, TokenInv, NEW c \in Callers, Install(c)
    PROVE  TokenInv'
<1> USE DEF NoToken, States, Inside, Working
<1>1. /\ pc[c] = "installing" /\ mu = c
      /\ own[c] # NoToken
      /\ tok \in {NoToken} \union revoked \union excused
      /\ tok' = own[c] /\ cached' = own[c] /\ mu' = "nobody"
      /\ pc' = [pc EXCEPT ![c] = "using"]
      /\ UNCHANGED <<own, minted, age, revoked, excused, later>>
  BY DEF Install, TokenInv, HolderInv
<1>2. "nobody" \notin Callers
  BY DEF ConstantsAssumption, Callers
<1>3. Types'
  BY <1>1 DEF TokenInv, Types
<1>4. HolderInv'
  <2>1. \A d \in Callers : pc'[d] \in Inside <=> mu' = d
    BY <1>1, <1>2 DEF TokenInv, Types, HolderInv
  <2>2. \A d \in Callers : pc'[d] # "installing" /\ pc'[d] # "revoking"
    BY <2>1, <1>1, <1>2
  <2>3. QED
    BY <1>1, <2>1, <2>2 DEF TokenInv, Types, HolderInv
<1>5. LiveInv'
  <2>1. \A t \in Tokens : Live(t)' <=> Live(t)
    BY <1>1 DEF Live
  <2>2. \A t \in Tokens : Live(t) => t = own[c] \/ t \in excused
    <3> SUFFICES ASSUME NEW t \in Tokens, Live(t), t # own[c]
                 PROVE  t \in excused
      OBVIOUS
    <3>1. t \notin revoked /\ t # NoToken
      BY DEF Live, Tokens, ConstantsAssumption
    <3>2. t \in {tok} \union excused
      BY <1>1 DEF TokenInv, LiveInv
    <3>3. QED
      BY <1>1, <3>1, <3>2
  <2>3. QED
    BY <1>1, <2>1, <2>2 DEF TokenInv, Types, LiveInv
<1>6. ReasonInv'
  BY <1>1 DEF TokenInv, Types, ReasonInv, Reason
<1>7. QED
  BY <1>3, <1>4, <1>5, <1>6 DEF TokenInv

-----------------------------------------------------------------------------
\* A token that does not work has a reason not to.
LEMMA DeadForReason ==
    ASSUME ConstantsAssumption, TokenInv, NEW c \in Callers,
           pc[c] \in {"using", "cloned"}, ~Live(own[c])
    PROVE  Reason(own[c])
<1>1. own[c] \in 1 .. minted
  BY DEF TokenInv, Types, HolderInv, NoToken, ConstantsAssumption
<1>2. age[own[c]] = "expired" \/ own[c] \in revoked
  BY <1>1 DEF Live
<1>3. QED
  BY <1>2 DEF TokenInv, ReasonInv, Reason

\* A request, or a part of a clone, gets to GitHub.
LEMMA UseInv ==
    ASSUME ConstantsAssumption, TokenInv, NEW c \in Callers, pc[c] \in {"using", "cloned"},
           NEW end \in {"cloned", "accepted", "refused"}, pc' = [pc EXCEPT ![c] = end],
           end = "refused" => ~Live(own[c]),
           UNCHANGED <<cached, tok, mu, own, minted, age, revoked, excused, later>>
    PROVE  TokenInv'
<1> USE DEF NoToken, States, Inside, Working
<1>1. Types'
  BY DEF TokenInv, Types
<1>2. HolderInv'
  BY DEF TokenInv, Types, HolderInv
<1>3. LiveInv'
  <2>1. \A t \in Tokens : Live(t)' <=> Live(t)
    BY DEF Live
  <2>2. QED
    BY <2>1 DEF TokenInv, Types, LiveInv
<1>4. ReasonInv'
  <2>1. end = "refused" => Reason(own[c])
    BY DeadForReason
  <2>2. \A t \in 0 .. minted : Reason(t) => Reason(t)'
    BY DEF Reason, TokenInv, Types
  <2>3. QED
    BY <2>1, <2>2 DEF TokenInv, Types, ReasonInv, Reason
<1>5. QED
  BY <1>1, <1>2, <1>3, <1>4 DEF TokenInv

LEMMA CloseInv ==
    ASSUME ConstantsAssumption, TokenInv, NEW c \in Callers, Close(c)
    PROVE  TokenInv'
<1> USE DEF NoToken, States, Inside, Working
<1>1. PICK ok \in BOOLEAN : /\ Revoke(own[c], ok)
                            /\ pc' = [pc EXCEPT ![c] = IF ok THEN "closed" ELSE "failed"]
  BY DEF Close
<1>2. /\ c \in Closers /\ pc[c] = "using" /\ own[c] \in Tokens
      /\ UNCHANGED <<cached, tok, mu, own, minted, age, later>>
  BY DEF Close, TokenInv, Types, HolderInv, Tokens, ConstantsAssumption
<1>3. /\ revoked \subseteq revoked' /\ revoked' \subseteq revoked \union {own[c]}
      /\ excused \subseteq excused' /\ excused' \subseteq excused \union {own[c]}
      /\ ok => own[c] \in revoked'
  BY <1>1, <1>2, RevokeOne DEF TokenInv
<1>4. Types'
  BY <1>1, <1>2, <1>3 DEF TokenInv, Types
<1>5. HolderInv'
  BY <1>1, <1>2, <1>3 DEF TokenInv, Types, HolderInv
<1>6. LiveInv'
  <2>1. \A t \in Tokens : Live(t)' => Live(t)
    BY <1>2, <1>3 DEF Live
  <2>2. QED
    BY <1>1, <1>2, <1>3, <2>1 DEF TokenInv, Types, LiveInv
<1>7. ReasonInv'
  <2>1. pc'[c] \in {"closed", "failed"}
    BY <1>1, <1>2 DEF TokenInv, Types
  <2>2. Reason(own[c])'
    BY <1>2, <2>1 DEF Reason
  <2>3. \A t : Reason(t) => Reason(t)'
    BY <1>1, <1>2, <2>1 DEF Reason, TokenInv, Types
  <2>4. QED
    BY <1>1, <1>2, <1>3, <2>1, <2>2, <2>3 DEF TokenInv, Types, ReasonInv
<1>8. QED
  BY <1>4, <1>5, <1>6, <1>7 DEF TokenInv

\* A token that is not fresh does not become so.
LEMMA GrowOldInv ==
    ASSUME ConstantsAssumption, TokenInv, NEW t \in Tokens, GrowOld(t)
    PROVE  TokenInv'
<1> USE DEF NoToken, States, Inside, Working
<1>1. /\ age' \in [Tokens -> {"fresh", "stale", "expired"}]
      /\ \A u \in Tokens : age[u] # "fresh" => age'[u] # "fresh"
      /\ \A u \in Tokens : age[u] = "expired" => age'[u] = "expired"
      /\ UNCHANGED <<cached, tok, mu, pc, own, minted, revoked, excused, later>>
  BY DEF GrowOld, TokenInv, Types
<1>2. \A n \in 0 .. minted : n = NoToken \/ n \in Tokens
  BY DEF TokenInv, Types, Tokens, ConstantsAssumption
<1>3. Types'
  BY <1>1 DEF TokenInv, Types
<1>4. HolderInv'
  BY <1>1, <1>2 DEF TokenInv, Types, HolderInv
<1>5. LiveInv'
  <2>1. \A u \in Tokens : Live(u)' => Live(u)
    BY <1>1 DEF Live
  <2>2. QED
    BY <1>1, <2>1 DEF TokenInv, Types, LiveInv
<1>6. ReasonInv'
  <2>1. \A u \in Tokens : Reason(u) => Reason(u)'
    BY <1>1 DEF Reason
  <2>2. \A c \in Callers : pc[c] = "refused" => own[c] \in Tokens
    BY <1>2 DEF TokenInv, Types, HolderInv
  <2>3. QED
    BY <1>1, <2>1, <2>2 DEF TokenInv, Types, ReasonInv
<1>7. QED
  BY <1>3, <1>4, <1>5, <1>6 DEF TokenInv

-----------------------------------------------------------------------------
LEMMA InitInv ==
    ASSUME ConstantsAssumption, Init
    PROVE  TokenInv
<1> USE DEF NoToken, States, Inside, Working, Init
<1>1. Types
  BY DEF Types, ConstantsAssumption, Tokens
<1>2. HolderInv
  BY DEF HolderInv, ConstantsAssumption, Callers
<1>3. LiveInv
  BY DEF LiveInv, Live, Tokens, ConstantsAssumption
<1>4. ReasonInv
  BY DEF ReasonInv
<1>5. QED
  BY <1>1, <1>2, <1>3, <1>4 DEF TokenInv

LEMMA NextInv ==
    ASSUME ConstantsAssumption, TokenInv, [Next]_vars
    PROVE  TokenInv'
<1>1. ASSUME NEW c \in Callers, Send(c)
      PROVE  TokenInv'
  <2> DEFINE end == IF Live(own[c]) THEN "accepted" ELSE "refused"
  <2>1. /\ pc[c] = "using" /\ pc' = [pc EXCEPT ![c] = end]
        /\ UNCHANGED <<cached, tok, mu, own, minted, age, revoked, excused, later>>
    BY <1>1 DEF Send
  <2>2. end \in {"cloned", "accepted", "refused"} /\ (end = "refused" => ~Live(own[c]))
    OBVIOUS
  <2> HIDE DEF end
  <2>3. QED
    BY <2>1, <2>2, UseInv
<1>2. ASSUME NEW c \in Callers, SendClone(c)
      PROVE  TokenInv'
  <2> DEFINE end == CASE ~Live(own[c]) -> "refused" [] pc[c] = "using" -> "cloned" [] OTHER -> "accepted"
  <2>1. /\ pc[c] \in {"using", "cloned"} /\ pc' = [pc EXCEPT ![c] = end]
        /\ UNCHANGED <<cached, tok, mu, own, minted, age, revoked, excused, later>>
    BY <1>2 DEF SendClone
  <2>2. end \in {"cloned", "accepted", "refused"} /\ (end = "refused" => ~Live(own[c]))
    OBVIOUS
  <2> HIDE DEF end
  <2>3. QED
    BY <2>1, <2>2, UseInv
<1>3. CASE UNCHANGED vars
  <2>1. \A t \in Tokens : Live(t)' <=> Live(t)
    BY <1>3 DEF vars, Live
  <2>2. Types' /\ HolderInv'
    BY <1>3 DEF vars, TokenInv, Types, HolderInv
  <2>3. LiveInv'
    BY <1>3, <2>1 DEF vars, TokenInv, LiveInv
  <2>4. ReasonInv'
    BY <1>3 DEF vars, TokenInv, ReasonInv, Reason
  <2>5. QED
    BY <2>2, <2>3, <2>4 DEF TokenInv
<1>4. QED
  BY <1>1, <1>2, <1>3, ReuseInv, RefreshInv, MintInv, MintFailsInv, RevokePreviousInv, InstallInv,
     CloseInv, GrowOldInv DEF Next, Caller

LEMMA AlwaysTokenInv == ASSUME ConstantsAssumption
                        PROVE  Spec => []TokenInv
<1>1. Init => TokenInv
  BY InitInv
<1>2. TokenInv /\ [Next]_vars => TokenInv'
  BY NextInv
<1>3. QED
  BY <1>1, <1>2, PTL DEF Spec

\* A token that GitHub accepts is the one the source has or is about to have, and
\* none that was there works after Close (Token and Close in github.go).
THEOREM NoTokenIsEverLeft == ASSUME ConstantsAssumption
                             PROVE  Spec => []NoTokenIsLeft
<1>1. TokenInv => NothingForgotten
  BY DEF TokenInv, LiveInv, NothingForgotten
<1>2. TokenInv => CloseRevokes
  <2> SUFFICES ASSUME TokenInv, NEW c \in Closers, pc[c] = "closed", NEW t \in Tokens, Live(t)
               PROVE  t \in excused \union later[c]
    BY DEF CloseRevokes
  <2>1. c \in Callers /\ own[c] \in revoked
    BY DEF Callers, TokenInv, LiveInv
  <2>2. t # own[c]
    BY <2>1 DEF Live
  <2>3. QED
    BY <2>1, <2>2 DEF TokenInv, LiveInv, Working
<1>3. TokenInv => NoTokenIsLeft
  BY <1>1, <1>2 DEF NoTokenIsLeft
<1>4. QED
  BY <1>3, AlwaysTokenInv, PTL

\* A request or a clone is refused only for a token that has come to its Expiry, or
\* that Close was called on: the source revokes only what is stale (tokenSource.Token).
THEOREM RefusedOnlyForReason == ASSUME ConstantsAssumption
                                PROVE  Spec => []RefusedForReason
<1>1. TokenInv => RefusedForReason
  BY DEF TokenInv, ReasonInv, Reason, RefusedForReason, Callers
<1>2. QED
  BY <1>1, AlwaysTokenInv, PTL

-----------------------------------------------------------------------------
(***************************************************************************)
(* LookUps: what a call has still to read                                  *)
(***************************************************************************)

Steps == {"idle", "listing", "downloading", "asking", "located",
          "done", "stopped", "gone", "failed"}

\* How many come before a page.
Before(n) == (n - 1) * PerPage

LookTypes == /\ there \in SUBSET Items
             /\ logs \in BOOLEAN
             /\ at \in Steps
             /\ kind \in L!Kinds
             /\ calls \in 0 .. MaxCalls
             /\ page \in Nat \ {0} /\ (page = 1 \/ Before(page) < Cardinality(Items))
             /\ todo \subseteq Wanted
             /\ handed \subseteq Items
             /\ result \in Items \union {0, 1}
             /\ steady \subseteq Items
             /\ moved \in BOOLEAN

\* What is done for each kind of call.
KindInv == /\ at = "asking" => kind \in {"logs", "get"}
           /\ at = "located" => kind = "logs"
           /\ at = "listing" => kind \notin {"logs", "get"}
           /\ at = "downloading" => kind \in {"fetch", "oldfetch"} /\ todo # {}
           /\ at = "downloading" /\ kind = "fetch" => \E i : todo = {i}
           /\ kind = "oldfetch" => page = 1

\* On the page that is read next, or on a later one.
Ahead(i) == i \in there /\ L!Place(i) >= Before(page)

\* What was there all along is still to come, unless it was found.
ToCome ==
    /\ L!Going /\ ~moved => steady \subseteq there
    /\ at = "listing" /\ ~moved =>
           /\ kind \in {"pull", "fetch"} => \A i \in steady \intersect Wanted : Ahead(i)
           /\ kind = "each" => \A i \in steady : i \in handed \/ Ahead(i)
    /\ at = "downloading" /\ kind = "fetch" /\ ~moved =>
           \A i \in steady \intersect Wanted, m \in todo : i <= m

LookInv == LookTypes /\ KindInv /\ ToCome /\ L!RightAnswer

-----------------------------------------------------------------------------
(***************************************************************************)
(* Places in a list                                                        *)
(***************************************************************************)

\* LookUps counts with the Cardinality of FiniteSets.
LEMMA SameSets ==
    /\ \A A : L!Cardinality(A) = Cardinality(A)
    /\ \A A : L!IsFiniteSet(A) <=> IsFiniteSet(A)
BY DEF L!Cardinality, Cardinality, L!IsFiniteSet, IsFiniteSet

\* Some of the items.
LEMMA SomeItems ==
    ASSUME L!ConstantsAssumption, NEW A \in SUBSET Items
    PROVE  /\ A \subseteq Nat /\ IsFiniteSet(A)
           /\ Cardinality(A) \in Nat /\ Cardinality(Items) \in Nat
           /\ Cardinality(A) <= Cardinality(Items)
           /\ \A B \in SUBSET A : Cardinality(B) \in Nat /\ Cardinality(B) <= Cardinality(A)
           /\ \A B \in SUBSET A : B # A => Cardinality(B) < Cardinality(A)
<1>1. IsFiniteSet(Items) /\ Items \subseteq Nat
  BY SameSets DEF L!ConstantsAssumption
<1>2. IsFiniteSet(A) /\ Cardinality(A) <= Cardinality(Items)
  BY <1>1, FS_Subset
<1>3. Cardinality(A) \in Nat /\ Cardinality(Items) \in Nat
  BY <1>1, <1>2, FS_CardinalityType
<1>4. ASSUME NEW B \in SUBSET A
      PROVE  /\ Cardinality(B) \in Nat /\ Cardinality(B) <= Cardinality(A)
             /\ B # A => Cardinality(B) < Cardinality(A)
  <2>1. /\ IsFiniteSet(B) /\ Cardinality(B) <= Cardinality(A)
        /\ Cardinality(A) = Cardinality(B) => A = B
    BY <1>2, FS_Subset
  <2>2. Cardinality(B) \in Nat
    BY <2>1, FS_CardinalityType
  <2>3. QED
    BY <1>3, <2>1, <2>2
<1>5. QED
  BY <1>1, <1>2, <1>3, <1>4

\* Numbers have a least one.
LEMMA Least ==
    ASSUME NEW T \in SUBSET Nat, T # {}
    PROVE  \E m \in T : \A k \in T : m <= k
<1> DEFINE R == {ss \in Nat \X Nat : ss[1] < ss[2]}
<1>1. IsWellFoundedOn(R, Nat)
  BY NatLessThanWellFounded DEF OpToRel
<1>2. PICK m \in T : \A k \in T : <<k, m>> \notin R
  <2> HIDE DEF R
  <2>1. QED
    BY <1>1, WFMin
<1>3. ASSUME NEW k \in T
      PROVE  m <= k
  <2>1. k \in Nat /\ m \in Nat
    OBVIOUS
  <2>2. ~(k < m)
    BY <1>2, <2>1
  <2>3. QED
    BY <2>1, <2>2
<1>4. QED
  BY <1>3

\* Items have a newest one: the one with the fewest that are newer.
LEMMA FirstOf ==
    ASSUME L!ConstantsAssumption, NEW A \in SUBSET Items, A # {}
    PROVE  L!First(A) \in A /\ \A j \in A : j <= L!First(A)
<1> DEFINE Newer(i) == {j \in A : j > i}
           T == {Cardinality(Newer(i)) : i \in A}
<1>1. A \subseteq Nat /\ \A i \in A : Cardinality(Newer(i)) \in Nat
  BY SomeItems
<1>2. PICK n \in T : \A k \in T : n <= k
  <2>1. T \in SUBSET Nat /\ T # {}
    BY <1>1
  <2> HIDE DEF T
  <2>2. QED
    BY <2>1, Least
<1>3. PICK i \in A : n = Cardinality(Newer(i))
  OBVIOUS
<1>4. ASSUME NEW j \in A
      PROVE  j <= i
  <2>1. SUFFICES ASSUME j > i
                 PROVE  FALSE
    BY <1>1
  <2>2. Newer(j) \in SUBSET Newer(i) /\ Newer(j) # Newer(i)
    <3>1. j \in Newer(i) /\ j \notin Newer(j)
      BY <1>1, <2>1
    <3>2. \A k \in Newer(j) : k > i
      BY <1>1, <2>1
    <3>3. QED
      BY <3>1, <3>2
  <2>3. Newer(i) \in SUBSET Items
    OBVIOUS
  <2>4. n <= Cardinality(Newer(j))
    BY <1>2
  <2> HIDE DEF Newer, T
  <2>5. Cardinality(Newer(j)) < Cardinality(Newer(i))
    BY <2>2, <2>3, SomeItems
  <2>6. QED
    BY <1>1, <1>3, <2>4, <2>5
<1>5. \E m \in A : \A j \in A : m >= j
  BY <1>1, <1>4
<1>6. QED
  BY <1>1, <1>5 DEF L!First, L!Max

\* The newer is ahead of the older, and each has its place among them.
LEMMA Places ==
    ASSUME L!ConstantsAssumption, LookTypes
    PROVE  /\ \A i \in there : L!Place(i) \in Nat /\ L!Place(i) < Cardinality(there)
           /\ \A i, j \in there : i > j => L!Place(i) < L!Place(j)
           /\ there \subseteq Nat /\ Cardinality(there) \in Nat
           /\ Cardinality(there) <= Cardinality(Items) /\ Cardinality(Items) \in Nat
<1>1. /\ there \in SUBSET Items /\ there \subseteq Nat
      /\ Cardinality(there) \in Nat /\ Cardinality(there) <= Cardinality(Items)
      /\ Cardinality(Items) \in Nat
  BY SomeItems DEF LookTypes
<1>2. \A i \in there : L!Place(i) = Cardinality({k \in there : k > i})
  BY SameSets DEF L!Place
<1>3. ASSUME NEW i \in there
      PROVE  L!Place(i) \in Nat /\ L!Place(i) < Cardinality(there)
  <2>1. {k \in there : k > i} \in SUBSET there /\ {k \in there : k > i} # there
    BY <1>1
  <2>2. QED
    BY <1>1, <1>2, <2>1, SomeItems
<1>4. ASSUME NEW i \in there, NEW j \in there, i > j
      PROVE  L!Place(i) < L!Place(j)
  <2>1. /\ {k \in there : k > i} \in SUBSET {k \in there : k > j}
        /\ {k \in there : k > i} # {k \in there : k > j}
        /\ {k \in there : k > j} \in SUBSET Items
    <3>1. \A k \in there : k > i => k > j
      BY <1>1, <1>4
    <3>2. i \in {k \in there : k > j} /\ i \notin {k \in there : k > i}
      BY <1>1, <1>4
    <3>3. QED
      BY <1>1, <3>1, <3>2
  <2>2. QED
    BY <1>2, <2>1, SomeItems
<1>5. QED
  BY <1>1, <1>3, <1>4

\* As many come before an item after a step.
LEMMA PlacesAfter ==
    ASSUME L!ConstantsAssumption, LookTypes'
    PROVE  \A i \in there' : L!Place(i)' \in Nat
<1>1. ASSUME NEW i \in there'
      PROVE  L!Place(i)' \in Nat
  <2>1. {j \in there' : j > i} \in SUBSET Items
    BY DEF LookTypes
  <2>2. QED
    BY <2>1, SomeItems, SameSets DEF L!Place
<1>2. QED
  BY <1>1

\* What comes meanwhile is ahead of all, and moves none of them forward.
LEMMA Moved ==
    ASSUME L!ConstantsAssumption, LookTypes, NEW i \in Items, there' = there \union {i}
    PROVE  \A j \in there : L!Place(j)' >= L!Place(j)
<1>1. ASSUME NEW j \in there
      PROVE  L!Place(j)' >= L!Place(j)
  <2>1. /\ {k \in there : k > j} \in SUBSET {k \in there' : k > j}
        /\ {k \in there' : k > j} \in SUBSET Items
    BY DEF LookTypes
  <2>2. L!Place(j) = Cardinality({k \in there : k > j}) /\ L!Place(j)' = Cardinality({k \in there' : k > j})
    BY SameSets DEF L!Place
  <2>3. QED
    BY <2>1, <2>2, SomeItems
<1>2. QED
  BY <1>1

\* What goes leaves those before it where they are, and moves the others by one: none
\* gets before its place.
LEMMA ClosedUp ==
    ASSUME L!ConstantsAssumption, LookTypes, NEW i \in there, there' = there \ {i}, NEW n \in Nat,
           L!Place(i) >= n
    PROVE  \A j \in there' : L!Place(j) >= n => L!Place(j)' >= n
<1>1. SUFFICES ASSUME NEW j \in there', L!Place(j) >= n
               PROVE  L!Place(j)' >= n
  OBVIOUS
<1> DEFINE A == {k \in there : k > j}
           B == {k \in there' : k > j}
<1>2. A \in SUBSET Items /\ L!Place(j) = Cardinality(A) /\ L!Place(j)' = Cardinality(B)
  BY SameSets DEF LookTypes, L!Place
<1>3. IsFiniteSet(A) /\ Cardinality(A) \in Nat /\ i \in Nat /\ j \in Nat /\ j \in there
  <2>1. A \subseteq Nat /\ IsFiniteSet(A) /\ Cardinality(A) \in Nat
    BY <1>2, SomeItems
  <2>2. there \subseteq Nat
    BY Places
  <2>3. QED
    BY <2>1, <2>2
<1>4. CASE i > j
  <2>1. L!Place(i) \in Nat /\ L!Place(i) < L!Place(j)
    BY <1>3, <1>4, Places
  <2>2. i \in A /\ B = A \ {i}
    BY <1>3, <1>4
  <2> HIDE DEF A, B
  <2>3. Cardinality(B) = Cardinality(A) - 1
    BY <1>3, <2>2, FS_RemoveElement
  <2>4. QED
    BY <1>2, <1>3, <2>1, <2>3
<1>5. CASE ~(i > j)
  <2>1. B = A
    BY <1>5
  <2>2. QED
    BY <1>1, <1>2, <2>1
<1>6. QED
  BY <1>4, <1>5

\* Pages follow each other.
LEMMA Pages ==
    ASSUME L!ConstantsAssumption, NEW n \in Nat \ {0}
    PROVE  /\ Before(1) = 0 /\ Before(n) \in Nat /\ Before(n + 1) \in Nat
           /\ Before(n + 1) = n * PerPage
           /\ Before(n) < Before(n + 1)
<1>1. PerPage \in Nat /\ PerPage > 0
  BY DEF L!ConstantsAssumption
<1>2. (n - 1) * PerPage \in Nat /\ n * PerPage = (n - 1) * PerPage + PerPage
  BY <1>1
<1>3. QED
  BY <1>1, <1>2 DEF Before

\* What is on a page.
LEMMA OnThePage ==
    ASSUME L!ConstantsAssumption, LookTypes, NEW i \in there
    PROVE  i \in L!Page(page) <=> Ahead(i) /\ L!Place(i) < Before(page + 1)
<1>1. /\ Before(page) = (page - 1) * PerPage /\ Before(page + 1) = page * PerPage
      /\ Before(page) \in Nat /\ Before(page + 1) \in Nat
  BY Pages DEF LookTypes, Before
<1>2. L!Place(i) \in Nat
  BY Places
<1>3. i \in L!Page(page) <=> L!Place(i) \in (page - 1) * PerPage .. page * PerPage - 1
  BY DEF L!Page
<1>4. QED
  BY <1>1, <1>2, <1>3 DEF Ahead

\* With the next page everything that was not on this one is still to come, and
\* without one there is nothing more.
LEMMA Turned ==
    ASSUME L!ConstantsAssumption, LookTypes, L!TurnPage, UNCHANGED there
    PROVE  /\ at' \in {"listing", "done"} /\ result' = 0
           /\ page' \in Nat \ {0} /\ (page' = 1 \/ Before(page') < Cardinality(Items))
           /\ at' = "listing" => \A i : Ahead(i) /\ i \notin L!Page(page) => Ahead(i)'
           /\ at' = "done" => \A i : Ahead(i) => i \in L!Page(page)
<1>1. /\ page \in Nat \ {0} /\ Before(page + 1) = page * PerPage /\ Before(page + 1) \in Nat
      /\ Cardinality(there) \in Nat /\ Cardinality(there) <= Cardinality(Items) /\ Cardinality(Items) \in Nat
  BY Pages, Places DEF LookTypes
<1>2. CASE Cardinality(there) > Before(page + 1)
  <2>1. at' = "listing" /\ page' = page + 1 /\ result' = 0
    BY <1>1, <1>2, SameSets DEF L!TurnPage, L!NextPage
  <2>2. \A i : Ahead(i) /\ i \notin L!Page(page) => Ahead(i)'
    <3>1. SUFFICES ASSUME NEW i, Ahead(i), i \notin L!Page(page)
                   PROVE  Ahead(i)'
      OBVIOUS
    <3>2. i \in there /\ L!Place(i) \in Nat /\ ~(L!Place(i) < Before(page + 1))
      BY <3>1, OnThePage, Places DEF Ahead
    <3>3. L!Place(i)' = L!Place(i) /\ Before(page)' = Before(page + 1)
      BY <2>1 DEF L!Place, Before
    <3>4. QED
      BY <1>1, <3>2, <3>3 DEF Ahead
  <2>3. QED
    BY <1>1, <1>2, <2>1, <2>2
<1>3. CASE ~(Cardinality(there) > Before(page + 1))
  <2>1. at' = "done" /\ page' = page /\ result' = 0
    BY <1>1, <1>3, SameSets DEF L!TurnPage, L!NextPage
  <2>2. \A i : Ahead(i) => i \in L!Page(page)
    <3>1. SUFFICES ASSUME NEW i, Ahead(i)
                   PROVE  i \in L!Page(page)
      OBVIOUS
    <3>2. i \in there /\ L!Place(i) \in Nat /\ L!Place(i) < Cardinality(there)
      BY <3>1, Places DEF Ahead
    <3>3. L!Place(i) < Before(page + 1)
      BY <1>1, <1>3, <3>2
    <3>4. QED
      BY <3>1, <3>2, <3>3, OnThePage
  <2>3. QED
    BY <2>1, <2>2 DEF LookTypes
<1>4. QED
  BY <1>2, <1>3

-----------------------------------------------------------------------------
(***************************************************************************)
(* The steps of LookUps                                                    *)
(***************************************************************************)

\* What is ahead depends on the list and on the page.
LEMMA SameAhead ==
    ASSUME UNCHANGED <<there, page>>
    PROVE  \A i : Ahead(i)' <=> Ahead(i)
BY DEF Ahead, L!Place, Before

\* A pull request or an artifact comes.
LEMMA AppearInv ==
    ASSUME L!ConstantsAssumption, LookInv, NEW i \in Items, L!Appear(i)
    PROVE  LookInv'
<1>1. /\ there' = there \union {i}
      /\ UNCHANGED <<logs, at, kind, calls, page, todo, handed, result, steady, moved>>
  BY DEF L!Appear, L!history
<1>2. LookTypes /\ KindInv /\ ToCome /\ L!RightAnswer
  BY DEF LookInv
<1>3. LookTypes'
  BY <1>1, <1>2 DEF LookTypes, Before
<1>4. \A j \in there : L!Place(j) \in Nat /\ L!Place(j)' >= L!Place(j)
  BY <1>1, <1>2, Moved, Places
<1>5. \A j \in there' : L!Place(j)' \in Nat
  BY <1>3, PlacesAfter
<1>6. Before(page) \in Nat /\ Before(page)' = Before(page)
  BY <1>1, <1>2, Pages DEF LookTypes, Before
<1>7. \A j : Ahead(j) => Ahead(j)'
  BY <1>1, <1>4, <1>5, <1>6 DEF Ahead
<1>8. ToCome'
  BY <1>1, <1>2, <1>7 DEF ToCome, L!Going
<1>9. KindInv' /\ L!RightAnswer'
  BY <1>1, <1>2 DEF KindInv, L!RightAnswer, L!NotFoundForReason, L!NewestWins, L!EachIsGiven, L!AnswerIsGitHubs
<1>10. QED
  BY <1>3, <1>8, <1>9 DEF LookInv

\* One goes.  Only from a page that was read does that bring another one there.
LEMMA VanishInv ==
    ASSUME L!ConstantsAssumption, LookInv, NEW i \in Items, L!Vanish(i)
    PROVE  LookInv'
<1>1. /\ i \in there /\ there' = there \ {i} /\ steady' = steady \ {i}
      /\ moved' = (moved \/ L!OnReadPage(i))
      /\ UNCHANGED <<logs, at, kind, calls, page, todo, handed, result>>
  BY DEF L!Vanish
<1>2. LookTypes /\ KindInv /\ ToCome /\ L!RightAnswer
  BY DEF LookInv
<1>3. LookTypes'
  <2>1. moved' \in BOOLEAN
    BY <1>1, <1>2 DEF LookTypes, L!OnReadPage
  <2>2. QED
    BY <1>1, <1>2, <2>1 DEF LookTypes, Before
<1>4. Before(page) \in Nat /\ Before(page)' = Before(page) /\ L!Place(i) \in Nat
  BY <1>1, <1>2, Pages, Places DEF LookTypes, Before
<1>5. at = "listing" /\ ~moved' => \A j \in there' : Ahead(j) => Ahead(j)'
  <2>1. SUFFICES ASSUME at = "listing", ~moved', NEW j \in there', Ahead(j)
                 PROVE  Ahead(j)'
    OBVIOUS
  <2>2. L!Place(i) >= Before(page)
    <3>1. ~L!OnReadPage(i)
      BY <1>1, <2>1
    <3>2. ~(L!Place(i) < Before(page))
      BY <2>1, <3>1 DEF L!OnReadPage, Before
    <3>3. QED
      BY <1>4, <3>2
  <2>3. L!Place(j)' >= Before(page)
    BY <1>1, <1>2, <1>4, <2>1, <2>2, ClosedUp DEF Ahead
  <2>4. QED
    BY <1>4, <2>1, <2>3 DEF Ahead
<1>6. ToCome'
  <2>1. (L!Going' <=> L!Going) /\ (~moved' => ~moved)
    BY <1>1 DEF L!Going
  <2>2. L!Going /\ ~moved' => steady' \subseteq there'
    BY <1>1, <1>2, <2>1 DEF ToCome
  <2>3. at = "listing" => L!Going
    BY DEF L!Going
  <2>4. at = "listing" /\ ~moved' =>
            /\ kind \in {"pull", "fetch"} => \A j \in steady' \intersect Wanted : Ahead(j)'
            /\ kind = "each" => \A j \in steady' : j \in handed \/ Ahead(j)'
    BY <1>1, <1>2, <1>5, <2>1, <2>2, <2>3 DEF ToCome
  <2>5. at = "downloading" /\ kind = "fetch" /\ ~moved' =>
            \A j \in steady' \intersect Wanted, m \in todo : j <= m
    BY <1>1, <1>2, <2>1 DEF ToCome
  <2>6. QED
    BY <1>1, <2>1, <2>2, <2>4, <2>5 DEF ToCome
<1>7. KindInv' /\ L!RightAnswer'
  <2>1. at \in {"done", "downloading"} => moved' = moved
    BY <1>1, <1>2 DEF LookTypes, L!OnReadPage
  <2>2. QED
    BY <1>1, <1>2, <2>1 DEF KindInv, L!RightAnswer, L!NotFoundForReason, L!NewestWins, L!EachIsGiven,
                            L!AnswerIsGitHubs
<1>8. QED
  BY <1>3, <1>6, <1>7 DEF LookInv

\* A step by which nothing is read.
LEMMA NothingIsRead ==
    ASSUME LookInv, UNCHANGED <<there, kind, calls, page, todo, handed, result, steady, moved>>,
           logs' \in BOOLEAN, at' \in Steps,
           at' = at \/ at' \in {"failed", "gone"} \/ (kind = "logs" /\ at' \in {"located", "done"}),
           at' = "located" => L!Going
    PROVE  LookInv'
<1>1. LookTypes'
  BY DEF LookInv, LookTypes, Before
<1>2. \A i : Ahead(i)' <=> Ahead(i)
  BY SameAhead
<1>3. ToCome'
  BY <1>2 DEF LookInv, ToCome, L!Going
<1>4. KindInv' /\ L!RightAnswer'
  BY DEF LookInv, KindInv, L!RightAnswer, L!NotFoundForReason, L!NewestWins, L!EachIsGiven, L!AnswerIsGitHubs
<1>5. QED
  BY <1>1, <1>3, <1>4 DEF LookInv

\* A call begins with the first page, and everything is ahead.
LEMMA CallInv ==
    ASSUME L!ConstantsAssumption, KeepOptions = FALSE, LookInv, L!Call
    PROVE  LookInv'
<1>1. /\ calls < MaxCalls /\ calls' = calls + 1 /\ page' = 1 /\ handed' = {} /\ todo' = {}
      /\ at' = (IF kind \in {"logs", "get"} THEN "asking" ELSE "listing")
      /\ steady' = there /\ moved' = FALSE
      /\ UNCHANGED <<there, logs, kind, result>>
  BY DEF L!Call, L!server
<1>2. LookTypes
  BY DEF LookInv
<1>3. LookTypes'
  <2>1. MaxCalls \in Nat /\ calls \in 0 .. MaxCalls
    BY <1>2 DEF LookTypes, L!ConstantsAssumption
  <2>2. calls' \in 0 .. MaxCalls
    BY <1>1, <2>1
  <2>3. page' \in Nat \ {0} /\ page' = 1
    BY <1>1
  <2>4. at' \in Steps /\ moved' \in BOOLEAN
    BY <1>1 DEF Steps
  <2>5. steady' \subseteq Items /\ handed' \subseteq Items /\ todo' \subseteq Wanted
    BY <1>1, <1>2 DEF LookTypes
  <2>6. /\ there' \in SUBSET Items /\ logs' \in BOOLEAN /\ kind' \in L!Kinds
        /\ result' \in Items \union {0, 1}
    BY <1>1, <1>2 DEF LookTypes
  <2>7. QED
    BY <2>2, <2>3, <2>4, <2>5, <2>6 DEF LookTypes
<1>4. \A i \in there' : Ahead(i)'
  <2>1. Before(page)' = 0
    BY <1>1, Pages DEF Before
  <2>2. \A i \in there' : L!Place(i)' \in Nat
    BY <1>3, PlacesAfter
  <2>3. QED
    BY <2>1, <2>2 DEF Ahead
<1>5. KindInv' /\ ToCome'
  BY <1>1, <1>4 DEF KindInv, ToCome, L!Going
<1>6. L!RightAnswer'
  BY <1>1 DEF L!RightAnswer, L!NotFoundForReason, L!NewestWins, L!EachIsGiven, L!AnswerIsGitHubs
<1>7. QED
  BY <1>3, <1>5, <1>6 DEF LookInv

\* A page without a match, for the calls that look for one.
LEMMA NoMatchInv ==
    ASSUME L!ConstantsAssumption, LookInv, at = "listing", kind \in {"pull", "fetch"},
           L!Matches = {}, L!TurnPage,
           UNCHANGED <<there, logs, kind, calls, todo, handed, steady, moved>>
    PROVE  LookInv'
<1>1. LookTypes /\ KindInv /\ ToCome
  BY DEF LookInv
<1>2. /\ at' \in {"listing", "done"} /\ result' = 0
      /\ page' \in Nat \ {0} /\ (page' = 1 \/ Before(page') < Cardinality(Items))
      /\ at' = "listing" => \A i : Ahead(i) /\ i \notin L!Page(page) => Ahead(i)'
      /\ at' = "done" => \A i : Ahead(i) => i \in L!Page(page)
  BY <1>1, Turned
<1>3. \A i \in Wanted : i \notin L!Page(page)
  BY DEF L!Matches
<1>4. LookTypes'
  BY <1>1, <1>2 DEF LookTypes, Steps, Before
<1>5. ~moved => steady \subseteq there /\ \A i \in steady \intersect Wanted : Ahead(i)
  BY <1>1 DEF ToCome, L!Going
<1>6. ToCome'
  BY <1>2, <1>3, <1>5 DEF ToCome, L!Going
<1>7. KindInv'
  BY <1>1, <1>2 DEF KindInv
<1>8. L!RightAnswer'
  BY <1>2, <1>3, <1>5 DEF L!RightAnswer, L!NotFoundForReason, L!NewestWins, L!EachIsGiven, L!AnswerIsGitHubs
<1>9. QED
  BY <1>4, <1>6, <1>7, <1>8 DEF LookInv

\* The matches of a page.
LEMMA MatchesAre ==
    ASSUME L!ConstantsAssumption, LookInv
    PROVE  /\ L!Matches \in SUBSET Items /\ L!Matches \subseteq Wanted /\ Wanted \subseteq Items
           /\ L!Matches # {} => L!First(L!Matches) \in L!Matches
<1>1. L!Matches \in SUBSET Items /\ L!Matches \subseteq Wanted
  BY DEF L!Matches, L!Page, LookInv, LookTypes
<1>2. QED
  BY <1>1, FirstOf DEF L!ConstantsAssumption

\* The first match of the pull requests.
LEMMA ListPullsInv ==
    ASSUME L!ConstantsAssumption, LookInv, L!ListPulls
    PROVE  LookInv'
<1>1. /\ at = "listing" /\ kind = "pull"
      /\ UNCHANGED <<there, logs, kind, calls, todo, handed, steady, moved>>
  BY DEF L!ListPulls, L!server, L!history
<1>2. CASE L!Matches = {}
  BY <1>1, <1>2, NoMatchInv DEF L!ListPulls
<1>3. CASE L!Matches # {}
  <2>1. result' = L!First(L!Matches) /\ at' = "done" /\ UNCHANGED page
    BY <1>3 DEF L!ListPulls
  <2>2. result' \in Items /\ result' # 0
    BY <1>3, <2>1, MatchesAre DEF L!ConstantsAssumption
  <2>3. LookTypes'
    BY <1>1, <2>1, <2>2 DEF LookInv, LookTypes, Steps, Before
  <2>4. KindInv' /\ ToCome' /\ L!RightAnswer'
    BY <1>1, <2>1, <2>2 DEF LookInv, KindInv, ToCome, L!Going,
       L!RightAnswer, L!NotFoundForReason, L!NewestWins, L!EachIsGiven, L!AnswerIsGitHubs
  <2>5. QED
    BY <2>3, <2>4 DEF LookInv
<1>4. QED
  BY <1>2, <1>3

\* A response that is valid is one of success.
LEMMA ValidIsOk ==
    ASSUME NEW r \in L!Responses, L!Validated(r) = "valid"
    PROVE  r = "ok"
BY DEF L!Responses, L!Validated, L!CheckResponse

\* The first match of an artifact: none that is still to come is newer.
LEMMA FetchArtifactInv ==
    ASSUME L!ConstantsAssumption, LookInv, L!FetchArtifact
    PROVE  LookInv'
<1>1. /\ at = "listing" /\ kind = "fetch"
      /\ UNCHANGED <<there, logs, kind, calls, handed, steady, moved>>
      /\ IF L!Matches = {} THEN L!TurnPage /\ UNCHANGED todo
         ELSE todo' = {L!First(L!Matches)} /\ at' = "downloading" /\ UNCHANGED <<page, result>>
  BY ValidIsOk DEF L!FetchArtifact, L!server, L!history
<1>2. CASE L!Matches = {}
  BY <1>1, <1>2, NoMatchInv
<1>3. CASE L!Matches # {}
  <2> DEFINE m == L!First(L!Matches)
  <2>1. todo' = {m} /\ at' = "downloading" /\ UNCHANGED <<page, result>>
    BY <1>1, <1>3
  <2>2. LookTypes /\ m \in L!Matches /\ m \in Wanted /\ m \in Items /\ L!Matches \in SUBSET Items
    BY <1>3, MatchesAre DEF LookInv
  <2>3. ~moved => steady \subseteq there /\ \A i \in steady \intersect Wanted : Ahead(i)
    BY <1>1 DEF LookInv, ToCome, L!Going
  <2>4. ASSUME NEW i \in Wanted, Ahead(i)
        PROVE  i <= m
    <3>1. CASE i \in L!Page(page)
      BY <3>1, <1>3, <2>2, FirstOf DEF L!Matches
    <3>2. CASE i \notin L!Page(page)
      <4>1. i \in there /\ m \in there /\ m \in L!Page(page)
        BY <2>2, <2>4 DEF Ahead, L!Matches, L!Page
      <4>2. L!Place(m) < Before(page + 1) /\ ~(L!Place(i) < Before(page + 1))
        BY <2>2, <2>4, <3>2, <4>1, OnThePage
      <4>3. L!Place(i) \in Nat /\ L!Place(m) \in Nat /\ there \subseteq Nat
            /\ (i > m => L!Place(i) < L!Place(m))
        BY <2>2, <4>1, Places
      <4>4. Before(page + 1) \in Nat
        BY <2>2, Pages DEF LookTypes
      <4>5. ~(i > m)
        BY <4>2, <4>3, <4>4
      <4>6. i \in Nat /\ m \in Nat
        BY <4>1, <4>3
      <4> HIDE DEF m
      <4>7. QED
        BY <4>5, <4>6
    <3>3. QED
      BY <3>1, <3>2
  <2> HIDE DEF m
  <2>5. LookTypes'
    BY <1>1, <2>1, <2>2 DEF LookTypes, Steps, Before
  <2>6. ToCome'
    BY <1>1, <2>1, <2>3, <2>4 DEF ToCome, L!Going
  <2>7. KindInv' /\ L!RightAnswer'
    BY <1>1, <2>1 DEF LookInv, KindInv, L!RightAnswer, L!NotFoundForReason, L!NewestWins, L!EachIsGiven,
                      L!AnswerIsGitHubs
  <2>8. QED
    BY <2>5, <2>6, <2>7 DEF LookInv
<1>4. QED
  BY <1>2, <1>3

\* The first page has all there is, or there is a second one.
LEMMA OldFetchInv ==
    ASSUME L!ConstantsAssumption, LookInv, L!OldFetchArtifact
    PROVE  LookInv'
<1>1. /\ at = "listing" /\ kind = "oldfetch" /\ todo' = L!Matches /\ result' = 0
      /\ at' = (IF L!Matches = {} THEN "done" ELSE "downloading")
      /\ moved' = (moved \/ L!NextPage(1) # 0)
      /\ UNCHANGED <<there, logs, kind, calls, page, handed, steady>>
  BY DEF L!OldFetchArtifact, L!server
<1>2. LookTypes /\ KindInv /\ ToCome /\ page = 1 /\ L!Matches \subseteq Wanted
  BY <1>1, MatchesAre DEF LookInv, KindInv
<1>3. LookTypes'
  BY <1>1, <1>2 DEF LookTypes, Steps, Before
<1>4. ~moved => steady \subseteq there
  BY <1>1, <1>2 DEF ToCome, L!Going
<1>5. L!NextPage(1) = 0 => \A i \in there : i \in L!Page(page)
  <2>1. SUFFICES ASSUME L!NextPage(1) = 0, NEW i \in there
                 PROVE  i \in L!Page(page)
    OBVIOUS
  <2>2. Before(1) = 0 /\ Before(1 + 1) = 1 * PerPage /\ Before(1 + 1) \in Nat
    BY Pages
  <2>3. /\ L!Place(i) \in Nat /\ L!Place(i) < Cardinality(there) /\ Cardinality(there) \in Nat
    BY <1>2, Places
  <2>4. ~(Cardinality(there) > Before(1 + 1))
    BY <2>1, <2>2, SameSets DEF L!NextPage
  <2>5. L!Place(i) < Before(1 + 1) /\ Ahead(i)
    BY <1>2, <2>2, <2>3, <2>4 DEF Ahead
  <2>6. QED
    BY <1>2, <2>5, OnThePage
<1>6. L!RightAnswer'
  BY <1>1, <1>2, <1>4, <1>5 DEF L!RightAnswer, L!NotFoundForReason, L!NewestWins, L!EachIsGiven,
                                 L!AnswerIsGitHubs, L!Matches
<1>7. ToCome' /\ KindInv'
  BY <1>1, <1>2, <1>4 DEF ToCome, KindInv, L!Going
<1>8. QED
  BY <1>3, <1>6, <1>7 DEF LookInv

\* What is downloaded was found.
LEMMA DownloadInv ==
    ASSUME L!ConstantsAssumption, LookInv, L!Download
    PROVE  LookInv'
<1> DEFINE i == L!First(todo)
<1>1. /\ at = "downloading" /\ i \in there /\ result' = i /\ todo' = todo \ {i}
      /\ at' = (IF todo = {i} THEN "done" ELSE "downloading")
      /\ UNCHANGED <<there, logs, kind, calls, page, handed, steady, moved>>
  BY DEF L!Download, L!server, L!history
<1>2. LookTypes /\ KindInv /\ ToCome /\ todo # {} /\ kind \in {"fetch", "oldfetch"}
  BY <1>1 DEF LookInv, KindInv
<1>3. i \in todo /\ i \in Items /\ i # 0
  BY <1>2, FirstOf DEF LookTypes, L!ConstantsAssumption
<1> HIDE DEF i
<1>4. LookTypes'
  BY <1>1, <1>2, <1>3 DEF LookTypes, Steps, Before
<1>5. kind = "fetch" => todo = {i} /\ at' = "done"
  BY <1>1, <1>2, <1>3 DEF KindInv
<1>6. KindInv' /\ ToCome'
  BY <1>1, <1>2, <1>3, <1>5 DEF KindInv, ToCome, L!Going
<1>7. L!RightAnswer'
  BY <1>1, <1>2, <1>3, <1>5 DEF ToCome, L!Going, L!RightAnswer, L!NotFoundForReason, L!NewestWins,
                                 L!EachIsGiven, L!AnswerIsGitHubs
<1>8. QED
  BY <1>4, <1>6, <1>7 DEF LookInv

\* A page is handed on, or its beginning.
LEMMA EachArtifactInv ==
    ASSUME L!ConstantsAssumption, LookInv, L!EachArtifact
    PROVE  LookInv'
<1>1. /\ at = "listing" /\ kind = "each"
      /\ UNCHANGED <<there, logs, kind, calls, todo, steady, moved>>
      /\ \/ handed' = handed \union L!Page(page) /\ L!TurnPage
         \/ \E last \in L!Page(page) : /\ handed' = handed \union {i \in L!Page(page) : i >= last}
                                       /\ at' = "stopped" /\ UNCHANGED <<page, result>>
  BY ValidIsOk DEF L!EachArtifact, L!server, L!history
<1>2. LookTypes /\ KindInv /\ ToCome /\ L!Page(page) \subseteq Items
  BY DEF LookInv, LookTypes, L!Page
<1>3. CASE handed' = handed \union L!Page(page) /\ L!TurnPage
  <2>1. /\ at' \in {"listing", "done"} /\ result' = 0
        /\ page' \in Nat \ {0} /\ (page' = 1 \/ Before(page') < Cardinality(Items))
        /\ at' = "listing" => \A i : Ahead(i) /\ i \notin L!Page(page) => Ahead(i)'
        /\ at' = "done" => \A i : Ahead(i) => i \in L!Page(page)
    BY <1>1, <1>2, <1>3, Turned
  <2>2. ~moved => steady \subseteq there /\ \A i \in steady : i \in handed \/ Ahead(i)
    BY <1>1, <1>2 DEF ToCome, L!Going
  <2>3. LookTypes'
    BY <1>1, <1>2, <1>3, <2>1 DEF LookTypes, Steps, Before
  <2>4. ToCome' /\ KindInv'
    BY <1>1, <1>2, <1>3, <2>1, <2>2 DEF ToCome, KindInv, L!Going
  <2>5. L!RightAnswer'
    BY <1>1, <1>3, <2>1, <2>2 DEF L!RightAnswer, L!NotFoundForReason, L!NewestWins, L!EachIsGiven,
                                   L!AnswerIsGitHubs
  <2>6. QED
    BY <2>3, <2>4, <2>5 DEF LookInv
<1>4. CASE \E last \in L!Page(page) : /\ handed' = handed \union {i \in L!Page(page) : i >= last}
                                      /\ at' = "stopped" /\ UNCHANGED <<page, result>>
  <2>1. handed' \subseteq Items
    BY <1>2, <1>4 DEF LookTypes
  <2>2. LookTypes'
    BY <1>1, <1>2, <1>4, <2>1 DEF LookTypes, Steps, Before
  <2>3. KindInv' /\ ToCome' /\ L!RightAnswer'
    BY <1>1, <1>2, <1>4 DEF KindInv, ToCome, L!Going, L!RightAnswer, L!NotFoundForReason, L!NewestWins,
                            L!EachIsGiven, L!AnswerIsGitHubs
  <2>4. QED
    BY <2>2, <2>3 DEF LookInv
<1>5. QED
  BY <1>1, <1>3, <1>4

\* A call that is one request.
LEMMA GetInv ==
    ASSUME LookInv, L!Get
    PROVE  LookInv'
<1>1. PICK r \in L!Responses :
          /\ at = "asking" /\ kind = "get"
          /\ at' = (IF L!Validated(r) = "valid" THEN "done" ELSE "failed")
          /\ result' = (IF r = "ok" THEN 1 ELSE 0)
          /\ UNCHANGED <<there, logs, kind, calls, page, todo, handed, steady, moved>>
  BY DEF L!Get, L!server, L!history
<1>2. at' = "done" => result' = 1
  BY <1>1, ValidIsOk
<1>3. LookTypes'
  BY <1>1 DEF LookInv, LookTypes, Steps, Before
<1>4. KindInv' /\ ToCome' /\ L!RightAnswer'
  BY <1>1, <1>2 DEF LookInv, KindInv, ToCome, L!Going, L!RightAnswer, L!NotFoundForReason, L!NewestWins,
                    L!EachIsGiven, L!AnswerIsGitHubs
<1>5. QED
  BY <1>3, <1>4 DEF LookInv

\* Every step keeps the invariant.
LEMMA NextLookInv ==
    ASSUME L!ConstantsAssumption, KeepOptions = FALSE, LookInv, [L!Next]_(L!vars)
    PROVE  LookInv'
<1>1. logs \in BOOLEAN /\ at \in Steps
  BY DEF LookInv, LookTypes
<1>2. ASSUME NEW i \in Items, L!Appear(i) \/ L!Vanish(i)
      PROVE  LookInv'
  BY <1>2, AppearInv, VanishInv
<1>3. CASE L!LogsExpire
  <2>1. /\ logs' = FALSE /\ UNCHANGED <<there, kind, calls, page, todo, handed, result, steady, moved>>
        /\ at' = at
    BY <1>3 DEF L!LogsExpire, L!history
  <2>2. at = "located" => L!Going
    BY DEF L!Going
  <2>3. QED
    BY <1>1, <2>1, <2>2, NothingIsRead
<1>4. CASE L!Fail
  <2>1. /\ at' = "failed" /\ UNCHANGED <<there, logs, kind, calls, page, todo, handed, result, steady, moved>>
    BY <1>4 DEF L!Fail, L!server, L!history
  <2>2. QED
    BY <1>1, <2>1, NothingIsRead DEF Steps
<1>5. CASE L!LocateLogs \/ L!ReadLogs
  <2>1. /\ UNCHANGED <<there, logs, kind, calls, page, todo, handed, result, steady, moved>>
        /\ at \in {"asking", "located"} /\ at' \in {"located", "done", "gone"}
    BY <1>5 DEF L!LocateLogs, L!ReadLogs, L!server, L!history
  <2>2. kind = "logs" \/ at' = "gone"
    <3>1. CASE L!LocateLogs
      BY <3>1 DEF L!LocateLogs
    <3>2. CASE L!ReadLogs
      BY <3>2 DEF L!ReadLogs, LookInv, KindInv
    <3>3. QED
      BY <1>5, <3>1, <3>2
  <2>3. L!Going
    BY <2>1 DEF L!Going
  <2>4. QED
    BY <1>1, <2>1, <2>2, <2>3, NothingIsRead DEF Steps
<1>6. CASE L!Caller
  BY <1>4, <1>5, <1>6, CallInv, ListPullsInv, FetchArtifactInv, OldFetchInv, DownloadInv, EachArtifactInv,
     GetInv DEF L!Caller
<1>7. CASE UNCHANGED L!vars
  <2>1. UNCHANGED <<there, logs, at, kind, calls, page, todo, handed, result, steady, moved>>
    BY <1>7 DEF L!vars
  <2>2. at = "located" => L!Going
    BY DEF L!Going
  <2>3. QED
    BY <1>1, <2>1, <2>2, NothingIsRead
<1>8. QED
  BY <1>2, <1>3, <1>6, <1>7 DEF L!Next

\* Nobody has called.
LEMMA InitLookInv ==
    ASSUME L!ConstantsAssumption
    PROVE  L!Init => LookInv
<1>1. SUFFICES ASSUME L!Init PROVE LookInv
  OBVIOUS
<1>2. LookTypes
  <2>1. calls \in 0 .. MaxCalls
    BY <1>1 DEF L!Init, L!ConstantsAssumption
  <2>2. page \in Nat \ {0} /\ page = 1
    BY <1>1 DEF L!Init
  <2>3. at \in Steps /\ moved \in BOOLEAN /\ kind \in L!Kinds /\ logs \in BOOLEAN
    BY <1>1 DEF L!Init, Steps
  <2>4. /\ there \in SUBSET Items /\ steady \subseteq Items /\ handed \subseteq Items
        /\ todo \subseteq Wanted /\ result \in Items \union {0, 1}
    BY <1>1 DEF L!Init
  <2>5. QED
    BY <2>1, <2>2, <2>3, <2>4 DEF LookTypes
<1>3. KindInv /\ ToCome /\ L!RightAnswer
  BY <1>1 DEF L!Init, KindInv, ToCome, L!Going, L!RightAnswer, L!NotFoundForReason, L!NewestWins,
              L!EachIsGiven, L!AnswerIsGitHubs
<1>4. QED
  BY <1>2, <1>3 DEF LookInv

\* What the invariant says of the look-ups.
LEMMA LookedUp ==
    ASSUME LookInv
    PROVE  L!RightAnswer /\ L!TypeOK
<1>1. L!TypeOK
  BY SameSets DEF LookInv, LookTypes, Steps, Before, L!TypeOK
<1>2. QED
  BY <1>1 DEF LookInv

LEMMA AlwaysLookInv == ASSUME L!ConstantsAssumption, KeepOptions = FALSE
                       PROVE  L!Spec => []LookInv
<1>1. L!Init => LookInv
  BY InitLookInv
<1>2. LookInv /\ [L!Next]_(L!vars) => LookInv'
  BY NextLookInv
<1>3. QED
  BY <1>1, <1>2, PTL DEF L!Spec

-----------------------------------------------------------------------------
\* What a call of the client finds, reports missing or hands on is right for all that was
\* there all along, unless something left a page that it had read (FetchWorkflowRunArtifact,
\* ListArtifactsFunc and GetWorkloadRunPullRequestNumber in github.go), where each call
\* has ListOptions of its own.
THEOREM LookUpsAreRight == ASSUME L!ConstantsAssumption, KeepOptions = FALSE
                           PROVE  L!Spec => []RightAnswer
<1>1. LookInv => RightAnswer
  BY LookedUp DEF RightAnswer
<1>2. QED
  BY <1>1, AlwaysLookInv, PTL

\* The types of a source and of the look-ups: whoever is inside of Token holds the mutex
\* of ReuseTokenSource, and no page is asked for beyond the last there can be.
THEOREM ClientTypes == ASSUME ConstantsAssumption, L!ConstantsAssumption, KeepOptions = FALSE
                       PROVE  Spec /\ L!Spec => []ClientTypeOK
<1>1. TokenInv => TypeOK
  <2> SUFFICES ASSUME TokenInv PROVE TypeOK
    OBVIOUS
  <2>1. minted \in 0 .. MaxTokens /\ MaxTokens \in Nat
    BY DEF TokenInv, Types, ConstantsAssumption
  <2>2. 0 .. minted = {t \in Tokens : t <= minted} \union {NoToken}
    BY <2>1 DEF Tokens, NoToken
  <2>3. tok \in Tokens \union {NoToken} /\ own \in [Callers -> Tokens \union {NoToken}]
    BY <2>2 DEF TokenInv, Types
  <2>4. QED
    BY <2>1, <2>3 DEF TokenInv, Types, HolderInv, States, Inside, TypeOK
<1>2. LookInv => L!TypeOK
  BY LookedUp
<1>3. QED
  BY <1>1, <1>2, AlwaysTokenInv, AlwaysLookInv, PTL DEF ClientTypeOK
=============================================================================
