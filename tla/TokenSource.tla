----------------------------- MODULE TokenSource -----------------------------
(***************************************************************************)
(* The tokens of a GitHubClient (modules/github-bots/sdk/github.go).       *)
(*                                                                         *)
(* Every request, and Close, asks an oauth2.ReuseTokenSource for a token.  *)
(* That source holds a mutex while it answers: with the token it has, or,  *)
(* when that one is stale, with the answer of tokenSource.Token, which     *)
(* mints a token at Octo STS and revokes the one before.  What the caller  *)
(* does with its token happens outside of the mutex.                       *)
(*                                                                         *)
(* A token is fresh until the Expiry tokenSource gives it (45 minutes),    *)
(* then stale, then expired at GitHub (an hour).  Tokens are numbered in   *)
(* the order they are minted.                                              *)
(***************************************************************************)
EXTENDS Integers

CONSTANTS Requests,   \* requests, and uses of GitAuth
          Clones,     \* calls of CloneRepo
          Closers,    \* calls of Close
          MaxTokens   \* bound: tokens minted

ConstantsAssumption == /\ Requests \intersect Closers = {}
                       /\ Clones \intersect (Requests \union Closers) = {}
                       /\ "nobody" \notin Requests \union Clones \union Closers
                       /\ MaxTokens \in Nat

Callers == Requests \union Clones \union Closers
Tokens  == 1 .. MaxTokens
NoToken == 0

VARIABLES
    cached,   \* the token ReuseTokenSource has
    tok,      \* ts.tok: the token tokenSource minted last
    mu,       \* who holds the mutex of ReuseTokenSource, or "nobody"
    pc,       \* where each caller is
    own,      \* the token each caller has, or is installing
    minted,   \* how many tokens there are
    age,      \* "fresh", "stale" or "expired"
    revoked,  \* tokens GitHub has revoked
    excused,  \* history: tokens whose minting or revocation was answered by an error
    later     \* history, per caller: tokens minted after it got its own

vars == <<cached, tok, mu, pc, own, minted, age, revoked, excused, later>>

Init == /\ cached = NoToken
        /\ tok = NoToken
        /\ mu = "nobody"
        /\ pc = [c \in Callers |-> "start"]
        /\ own = [c \in Callers |-> NoToken]
        /\ minted = 0
        /\ age = [t \in Tokens |-> "fresh"]
        /\ revoked = {}
        /\ excused = {}
        /\ later = [c \in Callers |-> {}]

\* GitHub accepts it.
Live(t) == t \in 1 .. minted /\ age[t] # "expired" /\ t \notin revoked

-----------------------------------------------------------------------------
(***************************************************************************)
(* Token: ReuseTokenSource and tokenSource                                 *)
(***************************************************************************)

\* The source has a token that has not come to its Expiry.
Valid == \E t \in Tokens : t = cached /\ age[t] = "fresh"

Reuse(c) ==
    /\ pc[c] = "start"
    /\ mu = "nobody"
    /\ Valid
    /\ own' = [own EXCEPT ![c] = cached]
    /\ pc' = [pc EXCEPT ![c] = "using"]
    /\ UNCHANGED <<cached, tok, mu, minted, age, revoked, excused, later>>

\* Mutant: nothing keeps two callers from refreshing at once.
Refresh_NoMutex(c) ==
    /\ pc[c] = "start"
    /\ ~Valid
    /\ mu' = c
    /\ pc' = [pc EXCEPT ![c] = "minting"]
    /\ UNCHANGED <<cached, tok, own, minted, age, revoked, excused, later>>

Refresh(c) ==
    /\ pc[c] = "start"
    /\ mu = "nobody"
    /\ ~Valid
    /\ mu' = c
    /\ pc' = [pc EXCEPT ![c] = "minting"]
    /\ UNCHANGED <<cached, tok, own, minted, age, revoked, excused, later>>

\* OctoTokenFunc makes a token.
NewToken ==
    /\ minted < MaxTokens
    /\ minted' = minted + 1
    /\ later' = [d \in Callers |->
           IF pc[d] \in {"using", "cloned", "closed"} THEN later[d] \union {minted'} ELSE later[d]]

Mint(c) ==
    /\ pc[c] = "minting"
    /\ NewToken
    /\ own' = [own EXCEPT ![c] = minted']
    /\ pc' = [pc EXCEPT ![c] = IF tok # NoToken THEN "revoking" ELSE "installing"]
    /\ UNCHANGED <<cached, tok, mu, age, revoked, excused>>

\* It returns an error, after a minute at the latest; a token may exist all the
\* same.  The caller gets the error.
MintFails(c) ==
    /\ pc[c] = "minting"
    /\ \/ UNCHANGED <<minted, later, excused>>
       \/ NewToken /\ excused' = excused \union {minted'}
    /\ mu' = "nobody"
    /\ pc' = [pc EXCEPT ![c] = "failed"]
    /\ UNCHANGED <<cached, tok, own, age, revoked>>

\* octosts.Revoke: GitHub revokes a token it accepts, and else, or when the call
\* fails, there is an error.
Revoke(t, ok) ==
    \/ Live(t) /\ ok /\ revoked' = revoked \union {t} /\ UNCHANGED excused
    \/ ~ok /\ excused' = excused \union {t} /\ revoked' \in {revoked, revoked \union {t}}

\* Mutant: ts.tok is set before the token it has is revoked.
RevokePrevious_TheNew(c) ==
    /\ pc[c] = "revoking"
    /\ \E ok \in BOOLEAN : Revoke(own[c], ok)
    /\ pc' = [pc EXCEPT ![c] = "installing"]
    /\ UNCHANGED <<cached, tok, mu, own, minted, age, later>>

\* The token before is revoked; an error is only logged.
RevokePrevious(c) ==
    /\ pc[c] = "revoking"
    /\ \E ok \in BOOLEAN : Revoke(tok, ok)
    /\ pc' = [pc EXCEPT ![c] = "installing"]
    /\ UNCHANGED <<cached, tok, mu, own, minted, age, later>>

\* Mutant: ReuseTokenSource is left out.
Install_NoReuse(c) ==
    /\ pc[c] = "installing"
    /\ tok' = own[c]
    /\ mu' = "nobody"
    /\ pc' = [pc EXCEPT ![c] = "using"]
    /\ UNCHANGED <<cached, own, minted, age, revoked, excused, later>>

\* tokenSource.Token returns, ReuseTokenSource keeps the token.
Install(c) ==
    /\ pc[c] = "installing"
    /\ tok' = own[c]
    /\ cached' = own[c]
    /\ mu' = "nobody"
    /\ pc' = [pc EXCEPT ![c] = "using"]
    /\ UNCHANGED <<own, minted, age, revoked, excused, later>>

-----------------------------------------------------------------------------
(***************************************************************************)
(* What callers do with their token                                        *)
(***************************************************************************)

\* The request gets to GitHub.
Send(c) ==
    /\ c \in Requests
    /\ pc[c] = "using"
    /\ pc' = [pc EXCEPT ![c] = IF Live(own[c]) THEN "accepted" ELSE "refused"]
    /\ UNCHANGED <<cached, tok, mu, own, minted, age, revoked, excused, later>>

\* CloneRepo asks for its token once (GitAuth) and sends it twice: with the clone,
\* and when that has come to its end with the fetch of the ref.
SendClone(c) ==
    /\ c \in Clones
    /\ pc[c] \in {"using", "cloned"}
    /\ pc' = [pc EXCEPT ![c] = CASE ~Live(own[c])                    -> "refused"
                                 [] Live(own[c]) /\ pc[c] = "using" -> "cloned"
                                 [] OTHER                           -> "accepted"]
    /\ UNCHANGED <<cached, tok, mu, own, minted, age, revoked, excused, later>>

\* Close revokes its token, and leaves it to ReuseTokenSource.
Close(c) ==
    /\ c \in Closers
    /\ pc[c] = "using"
    /\ \E ok \in BOOLEAN :
           /\ Revoke(own[c], ok)
           /\ pc' = [pc EXCEPT ![c] = IF ok THEN "closed" ELSE "failed"]
    /\ UNCHANGED <<cached, tok, mu, own, minted, age, later>>

\* Time passes for token t; tokens before it are older.
GrowOld(t) ==
    /\ t <= minted
    /\ \/ age[t] = "fresh" /\ age' = [age EXCEPT ![t] = "stale"]
       \/ /\ age[t] = "stale"
          /\ \A u \in 1 .. t - 1 : age[u] = "expired"
          /\ age' = [age EXCEPT ![t] = "expired"]
    /\ UNCHANGED <<cached, tok, mu, pc, own, minted, revoked, excused, later>>

Caller(c) == \/ Reuse(c) \/ Refresh(c) \/ Mint(c) \/ MintFails(c)
             \/ RevokePrevious(c) \/ Install(c) \/ Send(c) \/ SendClone(c) \/ Close(c)

Next == (\E c \in Callers : Caller(c)) \/ (\E t \in Tokens : GrowOld(t))

Spec == Init /\ [][Next]_vars

-----------------------------------------------------------------------------
(***************************************************************************)
(* Properties                                                              *)
(***************************************************************************)

\* Only the holder of the mutex is inside of Token.
TypeOK == /\ cached \in Tokens \union {NoToken}
          /\ tok \in Tokens \union {NoToken}
          /\ mu \in Callers \union {"nobody"}
          /\ pc \in [Callers -> {"start", "minting", "revoking", "installing", "using",
                                 "cloned", "accepted", "refused", "closed", "failed"}]
          /\ \A c \in Callers : pc[c] \in {"minting", "revoking", "installing"} <=> mu = c
          /\ own \in [Callers -> Tokens \union {NoToken}]
          /\ minted \in 0 .. MaxTokens
          /\ age \in [Tokens -> {"fresh", "stale", "expired"}]
          /\ revoked \subseteq Tokens
          /\ excused \subseteq Tokens
          /\ later \in [Callers -> SUBSET Tokens]

\* No token is left to live on its own: one that GitHub accepts is the token the
\* source has, or the one that is about to take its place, or an error came back
\* when it was minted or revoked.
NothingForgotten ==
    \A t \in Tokens : Live(t) =>
        t \in {cached, tok} \union excused \/ \E c \in Callers : mu = c /\ own[c] = t

\* "It can be revoked with Close": when Close returns without an error, no token
\* works that was minted before Close got its own, errors apart.
CloseRevokes ==
    \A c \in Closers : pc[c] = "closed" =>
        \A t \in Tokens : Live(t) => t \in excused \union later[c]

\* Neither a refresh, nor Close, nor both at a time leave a token behind.
NoTokenIsLeft == NothingForgotten /\ CloseRevokes

\* The source does not take a token away from a request before its time, nor from
\* a clone between its clone and its fetch: a token that GitHub refuses has come
\* to its Expiry, or Close was called.
RefusedForReason ==
    \A c \in Requests \union Clones : pc[c] = "refused" =>
        \/ age[own[c]] # "fresh"
        \/ \E d \in Closers : own[d] = own[c] /\ pc[d] \in {"closed", "failed"}
=============================================================================
