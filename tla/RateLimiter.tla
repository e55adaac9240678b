----------------------------- MODULE RateLimiter -----------------------------
(***************************************************************************)
(* SecondaryRateLimitWaiter (modules/github-bots/sdk/ratelimit.go): every  *)
(* request of one GitHub client goes through RoundTrip, which waits while  *)
(* the client is paused, sends, and when GitHub answers 403 or 429 pauses  *)
(* the client for everyone and sends again.  A pause is a channel that the *)
(* timer goroutine of that pause closes, or a later and longer pause.      *)
(*                                                                         *)
(* A critical section of limiter.mu is one action.  Time is a counter that *)
(* runs while a timer is pending; nothing else in this code reads it.      *)
(***************************************************************************)
EXTENDS Integers

CONSTANTS Requests,           \* concurrent RoundTrip calls of one client
          Start,              \* the instant the client is made
          RetryAfters,        \* Retry-After values (0: absent or unparsable)
          Remainings,         \* X-Ratelimit-Remaining (0: absent, unparsable or 0)
          Resets,             \* X-Ratelimit-Reset instants (NoReset: absent)
          DefaultRetryAfter,  \* one minute in the code
          MaxLimited          \* bound: 403/429 answers in a behaviour

Zero    == 0    \* time.Time{}
NoReset == 0    \* reset.IsZero()
NilCh   == 0    \* pauseCh == nil

ASSUME ConstantsAssumption ==
    /\ Start \in Nat \ {0}
    /\ RetryAfters \subseteq Int
    /\ Remainings \subseteq Int
    /\ Resets \subseteq Nat
    /\ DefaultRetryAfter \in Nat \ {0}
    /\ MaxLimited \in Nat

VARIABLES
    now,        \* the clock
    pauseUntil, \* limiter.pauseUntil
    pauseCh,    \* limiter.pauseCh: NilCh or the number of a channel
    made,       \* channels are numbered 1..made in the order they are made
    closed,     \* the channels that are closed
    timers,     \* timer goroutines not yet run: channel and instant
    reclosed,   \* channels closed a second time, which panics
    pc,         \* where each request is
    waitCh,     \* the channel a request read in Wait
    delay,      \* the pause processLimit worked out for a request
    cancelled,  \* requests whose context is done
    limited,    \* counts 403/429 answers, up to MaxLimited
    retryAt     \* history: the instant GitHub asked a request to wait for, Zero
                \* once it is sent

limiterVars == <<pauseUntil, pauseCh, made, closed, timers, reclosed>>
requestVars == <<pc, waitCh, delay, retryAt>>
vars == <<now, limiterVars, requestVars, cancelled, limited>>

Timer == [ch : Nat, at : Int]

Init == /\ now = Start
        /\ pauseUntil = Zero
        /\ pauseCh = NilCh
        /\ made = 0
        /\ closed = {}
        /\ timers = {}
        /\ reclosed = {}
        /\ pc = [r \in Requests |-> "wait"]
        /\ waitCh = [r \in Requests |-> NilCh]
        /\ delay = [r \in Requests |-> 0]
        /\ retryAt = [r \in Requests |-> Zero]
        /\ cancelled = {}
        /\ limited = 0

-----------------------------------------------------------------------------
(***************************************************************************)
(* Mutants: plausible bugs, each in place of one definition below.         *)
(***************************************************************************)

\* The timer goroutine does not ask whether its pause is still the current one.
TimerFires_AnyPause(t) ==
    /\ t.at <= now
    /\ timers' = timers \ {t}
    /\ reclosed' = reclosed \union (closed \intersect {t.ch})
    /\ closed' = closed \union {t.ch}
    /\ pauseCh' = NilCh
    /\ pauseUntil' = Zero
    /\ UNCHANGED <<now, made, requestVars, cancelled, limited>>

\* PauseFor does not ask whether there is a channel to close.
PauseFor_ClosesNil(r) ==
    LET until == now + delay[r]
        ch    == made + 1
    IN  /\ pc[r] = "limited"
        /\ IF until > pauseUntil
             THEN /\ pauseUntil' = until
                  /\ closed' = closed \union {pauseCh}
                  /\ made' = ch
                  /\ pauseCh' = ch
                  /\ timers' = timers \union {[ch |-> ch, at |-> until]}
                  /\ UNCHANGED reclosed
             ELSE UNCHANGED limiterVars
        /\ pc' = [pc EXCEPT ![r] = "wait"]
        /\ UNCHANGED <<now, waitCh, delay, retryAt, cancelled, limited>>

\* PauseFor replaces the channel when cond, and closes the old one when wake.
PauseFor_With(r, cond, wake) ==
    LET until == now + delay[r]
        ch    == made + 1
    IN  /\ pc[r] = "limited"
        /\ IF cond
             THEN /\ pauseUntil' = until
                  /\ reclosed' = reclosed \union {c \in closed : wake /\ c = pauseCh}
                  /\ closed' = IF ~wake \/ pauseCh = NilCh THEN closed
                               ELSE closed \union {pauseCh}
                  /\ made' = ch
                  /\ pauseCh' = ch
                  /\ timers' = timers \union {[ch |-> ch, at |-> until]}
             ELSE UNCHANGED limiterVars
        /\ pc' = [pc EXCEPT ![r] = "wait"]
        /\ delay' = [delay EXCEPT ![r] = 0]
        /\ UNCHANGED <<now, waitCh, retryAt, cancelled, limited>>

\* The old channel is dropped without being closed.
PauseFor_DropsChannel(r) == PauseFor_With(r, now + delay[r] > pauseUntil, FALSE)

\* Any answer replaces the pause, a shorter one too.
PauseFor_Shortens(r) == PauseFor_With(r, TRUE, TRUE)

\* A pause that is running is not extended.
PauseFor_FirstWins(r) == PauseFor_With(r, pauseCh = NilCh, TRUE)

-----------------------------------------------------------------------------
(***************************************************************************)
(* limiter.Wait                                                            *)
(***************************************************************************)

\* The mutex is held only while pauseCh is read.
ReadPause(r) ==
    /\ pc[r] = "wait"
    /\ pc' = [pc EXCEPT ![r] = IF pauseCh = NilCh THEN "send" ELSE "paused"]
    /\ waitCh' = [waitCh EXCEPT ![r] = pauseCh]
    /\ UNCHANGED <<now, limiterVars, delay, retryAt, cancelled, limited>>

\* The select of Wait, when the channel it read has been closed.
Resume(r) ==
    /\ pc[r] = "paused"
    /\ waitCh[r] \in closed
    /\ pc' = [pc EXCEPT ![r] = "send"]
    /\ waitCh' = [waitCh EXCEPT ![r] = NilCh]
    /\ UNCHANGED <<now, limiterVars, delay, retryAt, cancelled, limited>>

\* The other arm of the select, and base.Wait, which with an infinite rate
\* only looks at the context: RoundTrip returns the context's error.
Abandon(r) ==
    /\ pc[r] \in {"paused", "send"}
    /\ r \in cancelled
    /\ pc' = [pc EXCEPT ![r] = "failed"]
    /\ UNCHANGED <<now, limiterVars, waitCh, delay, retryAt, cancelled, limited>>

-----------------------------------------------------------------------------
(***************************************************************************)
(* RoundTrip and processLimit                                              *)
(***************************************************************************)

Send(r) ==
    /\ pc[r] = "send"
    /\ r \notin cancelled
    /\ pc' = [pc EXCEPT ![r] = "inflight"]
    /\ retryAt' = [retryAt EXCEPT ![r] = Zero]
    /\ UNCHANGED <<now, limiterVars, waitCh, delay, cancelled, limited>>

\* A status other than 403 and 429, or a transport error: RoundTrip returns.
Answer(r) ==
    /\ pc[r] = "inflight"
    /\ \E out \in {"returned", "failed"} : pc' = [pc EXCEPT ![r] = out]
    /\ UNCHANGED <<now, limiterVars, waitCh, delay, retryAt, cancelled, limited>>

\* How long processLimit pauses for: Retry-After if it is positive, else the
\* time to the reset when nothing remains (which an absent or unparsable
\* header also says), else the default.  A reset in the past is a pause of
\* zero or less.
PauseLength(retryAfter, remaining, reset) ==
    IF retryAfter > 0 THEN retryAfter
    ELSE IF remaining = 0 /\ reset # NoReset THEN reset - now
    ELSE DefaultRetryAfter

Limit(r, d) ==
    /\ pc[r] = "inflight"
    /\ limited < MaxLimited
    /\ limited' = limited + 1
    /\ pc' = [pc EXCEPT ![r] = "limited"]
    /\ delay' = [delay EXCEPT ![r] = d]
    /\ retryAt' = [retryAt EXCEPT ![r] = now + d]
    /\ UNCHANGED <<now, limiterVars, waitCh, cancelled>>

\* limiter.PauseFor, then RoundTrip calls itself.  Only a later deadline
\* replaces the pause: those waiting on the old channel are let go, and the
\* new channel gets a timer goroutine.
PauseFor(r) ==
    LET until == now + delay[r]
        ch    == made + 1
    IN  /\ pc[r] = "limited"
        /\ IF until > pauseUntil
             THEN /\ pauseUntil' = until
                  /\ reclosed' = reclosed \union (closed \intersect {pauseCh})
                  /\ closed' = IF pauseCh = NilCh THEN closed
                               ELSE closed \union {pauseCh}
                  /\ made' = ch
                  /\ pauseCh' = ch
                  /\ timers' = timers \union {[ch |-> ch, at |-> until]}
             ELSE UNCHANGED limiterVars
        /\ pc' = [pc EXCEPT ![r] = "wait"]
        /\ delay' = [delay EXCEPT ![r] = 0]
        /\ UNCHANGED <<now, waitCh, retryAt, cancelled, limited>>

\* The timer goroutine of a pause, once its timer has fired and it holds the
\* mutex.  It ends the pause only if that is still the current one.
TimerFires(t) ==
    /\ t.at <= now
    /\ timers' = timers \ {t}
    /\ IF t.ch = pauseCh
         THEN /\ reclosed' = reclosed \union (closed \intersect {t.ch})
              /\ closed' = closed \union {t.ch}
              /\ pauseCh' = NilCh
              /\ pauseUntil' = Zero
         ELSE UNCHANGED <<reclosed, closed, pauseCh, pauseUntil>>
    /\ UNCHANGED <<now, made, requestVars, cancelled, limited>>

-----------------------------------------------------------------------------
(***************************************************************************)
(* The environment                                                         *)
(***************************************************************************)

Cancel(r) ==
    /\ r \notin cancelled
    /\ pc[r] \notin {"returned", "failed"}
    /\ cancelled' = cancelled \union {r}
    /\ UNCHANGED <<now, limiterVars, requestVars, limited>>

Tick ==
    /\ \E t \in timers : t.at > now
    /\ now' = now + 1
    /\ UNCHANGED <<limiterVars, requestVars, cancelled, limited>>

Delays == {PauseLength(a, b, c) : a \in RetryAfters, b \in Remainings, c \in Resets}

Step(r) == ReadPause(r) \/ Resume(r) \/ Abandon(r) \/ Send(r) \/ PauseFor(r)

Next == \/ \E r \in Requests : \/ Step(r) \/ Answer(r) \/ Cancel(r)
                               \/ \E d \in Delays : Limit(r, d)
        \/ \E t \in timers : TimerFires(t)
        \/ Tick

Spec == Init /\ [][Next]_vars

\* Goroutines are scheduled, timers fire, the clock runs and GitHub answers.
\* Nothing makes GitHub stop limiting but the bound MaxLimited, and nothing
\* makes a context end.
Fairness == /\ \A r \in Requests : /\ WF_vars(Step(r))
                                   /\ WF_vars(Answer(r) \/ \E d \in Delays : Limit(r, d))
            /\ WF_vars(\E t \in timers : TimerFires(t))
            /\ WF_vars(Tick)

FairSpec == Spec /\ Fairness
-----------------------------------------------------------------------------
(***************************************************************************)
(* Properties                                                              *)
(***************************************************************************)

\* The types of the variables; only channels that were made are read, waited on
\* or closed (closing the nil channel would panic too).
TypeOK == /\ now \in Nat
          /\ pauseUntil \in Nat
          /\ made \in Nat
          /\ pauseCh \in 0 .. made
          /\ closed \subseteq 1 .. made
          /\ timers \subseteq Timer
          /\ reclosed \subseteq Nat
          /\ pc \in [Requests -> {"wait", "paused", "send", "inflight",
                                  "limited", "returned", "failed"}]
          /\ waitCh \in [Requests -> 0 .. made]
          /\ delay \in [Requests -> Int]
          /\ retryAt \in [Requests -> Int]
          /\ cancelled \subseteq Requests
          /\ limited \in Nat

\* No channel is closed twice, which would panic: PauseFor and any number of
\* old and new timer goroutines all close channels.
NoDoubleClose == reclosed = {}

\* No request waits on a channel nobody will close: what it read under the
\* mutex and waits on outside it is closed already, or is the current pause
\* and that pause still has its timer goroutine.
NoOrphan ==
    \A r \in Requests : pc[r] = "paused" =>
        \/ waitCh[r] \in closed
        \/ /\ waitCh[r] = pauseCh
           /\ [ch |-> pauseCh, at |-> pauseUntil] \in timers

\* The end of the pause never moves back before it is reached: neither an old
\* timer goroutine nor a shorter answer cuts a pause short.
PauseRunsItsCourse == [][pauseUntil' < pauseUntil => pauseUntil <= now]_vars

\* When a request that GitHub limited goes back to wait, the client is paused
\* at least until the instant GitHub gave it.
PauseCoversAnswer ==
    [][\A r \in Requests : pc[r] = "limited" /\ pc'[r] = "wait"
                              => pauseUntil' >= retryAt[r]]_vars

\* A request is blocked while it waits on a channel that is open.
Blocked == {r \in Requests : pc[r] = "paused" /\ waitCh[r] \notin closed}

Gate == INSTANCE PauseGate WITH until <- pauseUntil, blocked <- Blocked

\* The channels and timer goroutines implement the gate: requests go through it
\* all together, and only when its time has come or has been put off.
ImplementsGate == Gate!Spec

\* Once GitHub stops limiting, every RoundTrip returns.
EveryRequestReturns == \A r \in Requests : <>(pc[r] \in {"returned", "failed"})

\* What the steps preserve.  The current channel, if there is one, is open and
\* has a timer goroutine for the end of the pause; every other channel is
\* closed; a waiter's channel was made.
PauseState ==
    /\ pauseCh = NilCh <=> pauseUntil = Zero
    /\ pauseCh # NilCh => /\ pauseCh \notin closed
                          /\ [ch |-> pauseCh, at |-> pauseUntil] \in timers
    /\ \A c \in 1 .. made : c # pauseCh => c \in closed
    /\ \A t \in timers : /\ t.ch \in 1 .. made
                         /\ t.ch = pauseCh => t.at = pauseUntil

RequestState ==
    \A r \in Requests : /\ pc[r] = "paused" => waitCh[r] # NilCh
                        /\ pc[r] = "limited" => retryAt[r] <= now + delay[r]

IInv == TypeOK /\ NoDoubleClose /\ PauseState /\ RequestState

\* The comment in processLimit, "don't retry until after the time specified":
\* a request is not sent again before the instant its own answer gave.
NoEarlyRetry ==
    [][\A r \in Requests : pc[r] = "send" /\ pc'[r] = "inflight"
                              => now >= retryAt[r]]_vars
=============================================================================
