-------------------------- MODULE RateLimiterProofs --------------------------
(***************************************************************************)
(* Proofs about the secondary rate limit waiter, for any number of         *)
(* requests, any header values and any number of answers.                  *)
(***************************************************************************)
EXTENDS RateLimiter, TLAPS

\* The delay a limited request carries is an integer.
LEMMA DelayType ==
    ASSUME TypeOK
    PROVE  Delays \subseteq Int
BY ConstantsAssumption DEF Delays, PauseLength, TypeOK

\* The client starts with no pause, no channel and no timer.
LEMMA InitIInv == Init => IInv
<1> SUFFICES ASSUME Init
             PROVE  IInv
  OBVIOUS
<1> USE DEF Init, Zero, NilCh
<1>1. TypeOK
  BY ConstantsAssumption DEF TypeOK, Timer
<1>2. NoDoubleClose /\ PauseState /\ RequestState
  BY DEF NoDoubleClose, PauseState, RequestState
<1>3. QED
  BY <1>1, <1>2 DEF IInv

\* A critical section of PauseFor keeps the current channel open and timed and
\* closes the one it replaces, once.
LEMMA PauseForIInv ==
    ASSUME IInv, NEW r \in Requests, PauseFor(r)
    PROVE  IInv'
<1> DEFINE until == now + delay[r]
           ch    == made + 1
<1>1. TypeOK /\ NoDoubleClose /\ PauseState /\ RequestState /\ until \in Int
  BY DEF IInv, TypeOK
<1>2. CASE until > pauseUntil
  <2>1. /\ pauseUntil' = until /\ made' = ch /\ pauseCh' = ch
        /\ reclosed' = reclosed \union (closed \intersect {pauseCh})
        /\ closed' = IF pauseCh = NilCh THEN closed ELSE closed \union {pauseCh}
        /\ timers' = timers \union {[ch |-> ch, at |-> until]}
        /\ pc' = [pc EXCEPT ![r] = "wait"]
        /\ delay' = [delay EXCEPT ![r] = 0]
        /\ UNCHANGED <<now, waitCh, retryAt, cancelled, limited>>
    BY <1>2 DEF PauseFor
  <2>2. pauseCh \notin closed
    BY <1>1 DEF PauseState, TypeOK, NilCh
  <2>3. until \in Nat /\ until # Zero /\ ch \in Nat /\ ch # NilCh
    BY <1>1, <1>2 DEF TypeOK, Zero, NilCh
  <2>4. TypeOK'
    BY <1>1, <2>1, <2>2, <2>3 DEF TypeOK, Timer, NilCh, NoDoubleClose
  <2>5. NoDoubleClose'
    BY <1>1, <2>1, <2>2 DEF NoDoubleClose
  <2>6. PauseState'
    <3>1. ch \notin closed'
      BY <1>1, <2>1 DEF TypeOK
    <3>2. \A c \in 1 .. made' : c # pauseCh' => c \in closed'
      BY <1>1, <2>1 DEF TypeOK, PauseState, NilCh
    <3>3. \A t \in timers' : /\ t.ch \in 1 .. made'
                             /\ t.ch = pauseCh' => t.at = pauseUntil'
      <4>1. TAKE t \in timers'
      <4>2. CASE t \in timers
        BY <1>1, <2>1, <4>2 DEF TypeOK, PauseState, Timer
      <4>3. CASE t = [ch |-> ch, at |-> until]
        BY <1>1, <2>1, <4>3 DEF TypeOK
      <4>4. QED
        BY <2>1, <4>2, <4>3
    <3>4. QED
      BY <2>1, <2>3, <3>1, <3>2, <3>3 DEF PauseState
  <2>7. RequestState'
    BY <1>1, <2>1 DEF RequestState, TypeOK
  <2>8. QED
    BY <2>4, <2>5, <2>6, <2>7 DEF IInv
<1>3. CASE ~(until > pauseUntil)
  <2>1. /\ UNCHANGED <<now, limiterVars, waitCh, retryAt, cancelled, limited>>
        /\ pc' = [pc EXCEPT ![r] = "wait"]
        /\ delay' = [delay EXCEPT ![r] = 0]
    BY <1>3 DEF PauseFor
  <2>2. QED
    BY <1>1, <2>1
    DEF IInv, TypeOK, NoDoubleClose, PauseState, RequestState, limiterVars
<1>4. QED
  BY <1>2, <1>3

\* A timer goroutine closes its channel only while it is the current one.
LEMMA TimerFiresIInv ==
    ASSUME IInv, NEW t \in timers, TimerFires(t)
    PROVE  IInv'
<1>1. TypeOK /\ NoDoubleClose /\ PauseState /\ RequestState
  BY DEF IInv
<1>2. CASE t.ch = pauseCh
  <2>1. /\ timers' = timers \ {t}
        /\ reclosed' = reclosed \union (closed \intersect {t.ch})
        /\ closed' = closed \union {t.ch}
        /\ pauseCh' = NilCh /\ pauseUntil' = Zero
        /\ UNCHANGED <<now, made, pc, waitCh, delay, retryAt, cancelled, limited>>
    BY <1>2 DEF TimerFires, requestVars
  <2>2. t.ch \in 1 .. made /\ t.ch \notin closed
    BY <1>1, <1>2 DEF PauseState, TypeOK, NilCh
  <2>3. reclosed' = {}
    BY <1>1, <2>1, <2>2 DEF NoDoubleClose
  <2>4. NoDoubleClose' /\ TypeOK'
    <3>1. closed' \subseteq 1 .. made' /\ timers' \subseteq Timer
      BY <1>1, <2>1, <2>2 DEF TypeOK
    <3>2. pauseUntil' \in Nat
      BY <2>1 DEF Zero
    <3>3. pauseCh' \in 0 .. made'
      BY <1>1, <2>1 DEF TypeOK, NilCh
    <3>4. QED
      BY <1>1, <2>1, <2>3, <3>1, <3>2, <3>3 DEF NoDoubleClose, TypeOK
  <2>5. PauseState'
    BY <1>1, <1>2, <2>1, <2>2 DEF TypeOK, PauseState, NilCh, Zero
  <2>6. RequestState'
    BY <1>1, <2>1 DEF RequestState
  <2>7. QED
    BY <2>4, <2>5, <2>6 DEF IInv
<1>3. CASE t.ch # pauseCh
  <2>1. /\ timers' = timers \ {t}
        /\ UNCHANGED <<reclosed, closed, pauseCh, pauseUntil, now, made,
                       pc, waitCh, delay, retryAt, cancelled, limited>>
    BY <1>3 DEF TimerFires, requestVars
  <2>2. pauseCh # NilCh => [ch |-> pauseCh, at |-> pauseUntil] \in timers'
    BY <1>1, <1>3, <2>1 DEF PauseState
  <2>3. QED
    BY <1>1, <2>1, <2>2 DEF IInv, TypeOK, NoDoubleClose, PauseState, RequestState
<1>4. QED
  BY <1>2, <1>3

\* Every step of the specification preserves the inductive invariant.
LEMMA NextIInv == IInv /\ [Next]_vars => IInv'
<1> SUFFICES ASSUME IInv, [Next]_vars
             PROVE  IInv'
  OBVIOUS
<1> USE DEF limiterVars
<1>1. ASSUME NEW r \in Requests, ReadPause(r)
      PROVE  IInv'
  BY <1>1 DEF ReadPause, IInv, TypeOK, NoDoubleClose, PauseState, RequestState, NilCh
<1>2. ASSUME NEW r \in Requests, Resume(r)
      PROVE  IInv'
  BY <1>2 DEF Resume, IInv, TypeOK, NoDoubleClose, PauseState, RequestState, NilCh
<1>3. ASSUME NEW r \in Requests, Abandon(r)
      PROVE  IInv'
  BY <1>3 DEF Abandon, IInv, TypeOK, NoDoubleClose, PauseState, RequestState
<1>4. ASSUME NEW r \in Requests, Send(r)
      PROVE  IInv'
  BY <1>4 DEF Send, IInv, TypeOK, NoDoubleClose, PauseState, RequestState, Zero
<1>5. ASSUME NEW r \in Requests, Answer(r)
      PROVE  IInv'
  BY <1>5 DEF Answer, IInv, TypeOK, NoDoubleClose, PauseState, RequestState
<1>6. ASSUME NEW r \in Requests, NEW d \in Delays, Limit(r, d)
      PROVE  IInv'
  <2>1. d \in Int
    BY DelayType DEF IInv
  <2>2. QED
    BY <1>6, <2>1 DEF Limit, IInv, TypeOK, NoDoubleClose, PauseState, RequestState
<1>7. ASSUME NEW r \in Requests, PauseFor(r)
      PROVE  IInv'
  BY <1>7, PauseForIInv
<1>8. ASSUME NEW r \in Requests, Cancel(r)
      PROVE  IInv'
  BY <1>8 DEF Cancel, requestVars, IInv, TypeOK, NoDoubleClose, PauseState, RequestState
<1>9. ASSUME NEW t \in timers, TimerFires(t)
      PROVE  IInv'
  BY <1>9, TimerFiresIInv
<1>10. CASE Tick
  BY <1>10 DEF Tick, requestVars, IInv, TypeOK, NoDoubleClose, PauseState, RequestState
<1>11. CASE UNCHANGED vars
  BY <1>11 DEF vars, requestVars, IInv, TypeOK, NoDoubleClose, PauseState, RequestState
<1>12. QED
  BY <1>1, <1>2, <1>3, <1>4, <1>5, <1>6, <1>7, <1>8, <1>9, <1>10, <1>11 DEF Next, Step

\* The invariant holds of every behaviour.
THEOREM Invariance == Spec => []IInv
BY InitIInv, NextIInv, PTL DEF Spec

\* What the invariant says of waiting requests.
LEMMA InvariantMeansNoOrphan == IInv => NoOrphan
BY DEF IInv, TypeOK, PauseState, RequestState, NoOrphan, NilCh

\* The channels, the timers and what the requests remember are what the code says
\* they are: a channel a request waits on was made, an end of pause is an instant.
THEOREM LimiterTypes == Spec => []TypeOK
<1>1. IInv => TypeOK
  BY DEF IInv
<1>2. QED
  BY Invariance, <1>1, PTL

\* No channel is closed twice by PauseFor and the timer goroutines.
THEOREM NeverClosedTwice == Spec => []NoDoubleClose
<1>1. IInv => NoDoubleClose
  BY DEF IInv
<1>2. QED
  BY Invariance, <1>1, PTL

\* A waiting request always has someone to close its channel.
THEOREM NeverOrphaned == Spec => []NoOrphan
BY Invariance, InvariantMeansNoOrphan, PTL

\* A step that moves the end of the pause back is a timer that fired for it.
LEMMA PauseEndStep ==
    ASSUME IInv, [Next]_vars
    PROVE  [pauseUntil' < pauseUntil => pauseUntil <= now]_vars
<1> SUFFICES ASSUME pauseUntil' < pauseUntil
             PROVE  pauseUntil <= now
  OBVIOUS
<1> USE DEF IInv, TypeOK, PauseState
<1>1. ASSUME NEW r \in Requests, PauseFor(r)
      PROVE  pauseUntil <= now
  BY <1>1 DEF PauseFor, limiterVars
<1>2. ASSUME NEW t \in timers, TimerFires(t)
      PROVE  pauseUntil <= now
  BY <1>2 DEF TimerFires, Timer
<1>3. CASE UNCHANGED pauseUntil
  BY <1>3
<1>4. QED
  BY <1>1, <1>2, <1>3
  DEF Next, Step, vars, limiterVars, ReadPause, Resume, Abandon, Send, Answer,
      Cancel, Limit, Tick

\* No pause is cut short, whatever answers and timers come in whatever order.
THEOREM PausesRunTheirCourse == Spec => PauseRunsItsCourse
BY Invariance, PauseEndStep, PTL DEF Spec, PauseRunsItsCourse

\* A request leaves PauseFor with the client paused at least as long as asked.
LEMMA CoverStep ==
    ASSUME IInv, [Next]_vars
    PROVE  [\A r \in Requests : pc[r] = "limited" /\ pc'[r] = "wait"
                                  => pauseUntil' >= retryAt[r]]_vars
<1> SUFFICES ASSUME NEW r \in Requests, pc[r] = "limited", pc'[r] = "wait"
             PROVE  pauseUntil' >= retryAt[r]
  OBVIOUS
<1> USE DEF IInv, TypeOK, RequestState
<1>1. CASE PauseFor(r)
  BY <1>1 DEF PauseFor, limiterVars
<1>2. QED
  <2>1. ASSUME NEW q \in Requests, q # r, Step(q)
        PROVE  FALSE
    BY <2>1 DEF Step, ReadPause, Resume, Abandon, Send, PauseFor
  <2>2. ASSUME NEW q \in Requests, Answer(q) \/ Cancel(q) \/ \E d \in Delays : Limit(q, d)
        PROVE  FALSE
    BY <2>2 DEF Answer, Cancel, Limit, requestVars
  <2>3. ASSUME NEW t \in timers, TimerFires(t)
        PROVE  FALSE
    BY <2>3 DEF TimerFires, requestVars
  <2>4. ASSUME Tick \/ UNCHANGED vars
        PROVE  FALSE
    BY <2>4 DEF Tick, vars, requestVars
  <2>5. ASSUME Step(r), ~PauseFor(r)
        PROVE  FALSE
    BY <2>5 DEF Step, ReadPause, Resume, Abandon, Send
  <2>6. QED
    BY <1>1, <2>1, <2>2, <2>3, <2>4, <2>5 DEF Next

\* Every limited request is covered by the pause it goes back to wait for.
THEOREM PausesCoverAnswers == Spec => PauseCoversAnswer
BY Invariance, CoverStep, PTL DEF Spec, PauseCoversAnswer

-----------------------------------------------------------------------------
(***************************************************************************)
(* The limiter implements the gate.                                        *)
(***************************************************************************)

\* Once the channels made so far are closed nobody is blocked.
LEMMA NobodyBlocked ==
    ASSUME IInv, IInv', UNCHANGED waitCh, 1 .. made \subseteq closed',
           \A r \in Requests : pc'[r] = "paused" => pc[r] = "paused"
    PROVE  Blocked' = {}
BY DEF IInv, TypeOK, RequestState, Blocked, NilCh

\* Steps that leave the limiter's state alone block or release one request.
LEMMA RequestStepSimulates ==
    ASSUME IInv, NEW r \in Requests,
           \/ ReadPause(r) \/ Resume(r) \/ Abandon(r) \/ Send(r)
           \/ Answer(r) \/ Cancel(r) \/ \E d \in Delays : Limit(r, d)
    PROVE  [Gate!Next]_Gate!vars
<1> USE DEF IInv, TypeOK, Blocked, limiterVars, requestVars
<1>1. CASE ReadPause(r)
  <2>1. CASE pauseCh = NilCh
    <3>1. Blocked' = Blocked /\ UNCHANGED <<now, pauseUntil>>
      BY <1>1, <2>1 DEF ReadPause
    <3>2. QED
      BY <3>1 DEF Gate!vars
  <2>2. CASE pauseCh # NilCh
    <3>1. Blocked' = Blocked \union {r} /\ UNCHANGED <<now, pauseUntil>>
      BY <1>1, <2>2 DEF ReadPause, PauseState
    <3>2. pauseUntil # Zero
      BY <2>2 DEF PauseState
    <3>3. QED
      BY <3>1, <3>2 DEF Gate!Next, Gate!Arrive
  <2>3. QED
    BY <2>1, <2>2
<1>2. CASE Abandon(r)
  <2>1. Blocked' = Blocked \ {r} /\ UNCHANGED <<now, pauseUntil>>
    BY <1>2 DEF Abandon
  <2>2. QED
    BY <2>1 DEF Gate!Next, Gate!GiveUp
<1>3. CASE \/ Resume(r) \/ Send(r) \/ Answer(r) \/ Cancel(r)
           \/ \E d \in Delays : Limit(r, d)
  <2>1. Blocked' = Blocked /\ UNCHANGED <<now, pauseUntil>>
    BY <1>3 DEF Resume, Send, Answer, Cancel, Limit
  <2>2. QED
    BY <2>1 DEF Gate!vars
<1>4. QED
  BY <1>1, <1>2, <1>3

\* PauseFor shuts the gate until later, or changes nothing at the gate.
LEMMA PauseForSimulates ==
    ASSUME IInv, IInv', NEW r \in Requests, PauseFor(r)
    PROVE  [Gate!Next]_Gate!vars
<1>1. CASE now + delay[r] > pauseUntil
  <2>1. 1 .. made \subseteq closed'
    BY <1>1 DEF PauseFor, IInv, TypeOK, PauseState, NilCh
  <2>2. \A q \in Requests : pc'[q] = "paused" => pc[q] = "paused"
    BY DEF PauseFor, IInv, TypeOK
  <2>3. pauseUntil' > pauseUntil /\ UNCHANGED <<now, waitCh>>
    BY <1>1 DEF PauseFor
  <2>4. QED
    BY <2>1, <2>2, <2>3, NobodyBlocked DEF Gate!Next, Gate!Shut
<1>2. CASE ~(now + delay[r] > pauseUntil)
  <2>1. Blocked' = Blocked /\ UNCHANGED <<now, pauseUntil>>
    BY <1>2 DEF PauseFor, limiterVars, Blocked, IInv, TypeOK
  <2>2. QED
    BY <2>1 DEF Gate!vars
<1>3. QED
  BY <1>1, <1>2

\* A timer goroutine opens the gate, or comes too late to matter: whoever waited
\* on its channel has been let through already.
LEMMA TimerFiresSimulates ==
    ASSUME IInv, IInv', NEW t \in timers, TimerFires(t)
    PROVE  [Gate!Next]_Gate!vars
<1>1. CASE t.ch = pauseCh
  <2>1. 1 .. made \subseteq closed'
    BY <1>1 DEF TimerFires, IInv, TypeOK, PauseState, NilCh
  <2>2. \A q \in Requests : pc'[q] = "paused" => pc[q] = "paused"
    BY DEF TimerFires, requestVars
  <2>3. pauseUntil # Zero /\ now >= pauseUntil /\ pauseUntil' = Zero
    BY <1>1 DEF TimerFires, IInv, TypeOK, PauseState, NilCh, Timer
  <2>4. UNCHANGED <<now, waitCh>>
    BY DEF TimerFires, requestVars
  <2>5. QED
    BY <2>1, <2>2, <2>3, <2>4, NobodyBlocked DEF Gate!Next, Gate!Open
<1>2. CASE t.ch # pauseCh
  <2>1. Blocked' = Blocked /\ UNCHANGED <<now, pauseUntil>>
    BY <1>2 DEF TimerFires, requestVars, Blocked
  <2>2. QED
    BY <2>1 DEF Gate!vars
<1>3. QED
  BY <1>1, <1>2

\* Every step of the limiter is a step of the gate or leaves it alone.
LEMMA StepSimulates == IInv /\ IInv' /\ [Next]_vars => [Gate!Next]_Gate!vars
<1> SUFFICES ASSUME IInv, IInv', [Next]_vars
             PROVE  [Gate!Next]_Gate!vars
  OBVIOUS
<1>1. CASE Tick
  <2>1. now' = now + 1 /\ UNCHANGED pauseUntil /\ Blocked' = Blocked
    BY <1>1 DEF Tick, limiterVars, requestVars, Blocked
  <2>2. QED
    BY <2>1 DEF Gate!Next, Gate!Tick
<1>2. CASE UNCHANGED vars
  <2>1. UNCHANGED <<now, pauseUntil>> /\ Blocked' = Blocked
    BY <1>2 DEF vars, limiterVars, requestVars, Blocked
  <2>2. QED
    BY <2>1 DEF Gate!vars
<1>3. QED
  BY <1>1, <1>2, RequestStepSimulates, PauseForSimulates, TimerFiresSimulates
  DEF Next, Step

\* The channels and goroutines of the limiter implement the abstract gate.
THEOREM Implementation == Spec => ImplementsGate
<1>1. Init => Gate!Init
  <2>1. ASSUME Init
        PROVE  now \in Int /\ pauseUntil = Zero /\ Blocked = {}
    BY <2>1, ConstantsAssumption DEF Init, Blocked
  <2>2. QED
    BY <2>1 DEF Gate!Init
<1>2. QED
  BY <1>1, StepSimulates, Invariance, PTL DEF Spec, ImplementsGate, Gate!Spec
=============================================================================
