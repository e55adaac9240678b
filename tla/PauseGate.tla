------------------------------ MODULE PauseGate ------------------------------
(***************************************************************************)
(* What the secondary rate limit waiter of the bots SDK promises, with its *)
(* channels, timer goroutines and mutex left out: a gate that is shut      *)
(* until some instant, the requests standing in front of it, and the two   *)
(* events that let them through together: the instant is reached, or a     *)
(* later instant replaces it.                                              *)
(***************************************************************************)
EXTENDS Integers

CONSTANTS Requests,   \* the RoundTrip calls that share one client
          Zero        \* the zero time.Time: "not paused"

VARIABLES now,      \* the clock
          until,    \* the instant the gate opens, Zero when it is open
          blocked   \* the requests standing at the gate

vars == <<now, until, blocked>>

Init == /\ now \in Int
        /\ until = Zero
        /\ blocked = {}

Tick == /\ now' = now + 1
        /\ UNCHANGED <<until, blocked>>

\* A request comes to a shut gate.
Arrive(r) == /\ until # Zero
             /\ blocked' = blocked \union {r}
             /\ UNCHANGED <<now, until>>

\* A request gives up: its context is done.
GiveUp(r) == /\ blocked' = blocked \ {r}
             /\ UNCHANGED <<now, until>>

\* The gate is shut until an instant later than it was; whoever stood at it
\* goes through.
Shut == /\ until' > until
        /\ blocked' = {}
        /\ UNCHANGED now

\* The gate opens, never before its time, and lets everyone through.
Open == /\ until # Zero
        /\ now >= until
        /\ until' = Zero
        /\ blocked' = {}
        /\ UNCHANGED now

Next == \/ Tick
        \/ \E r \in Requests : Arrive(r) \/ GiveUp(r)
        \/ Shut
        \/ Open

Spec == Init /\ [][Next]_vars
=============================================================================
