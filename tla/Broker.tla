------------------------------- MODULE Broker -------------------------------
(***************************************************************************)
(* What the broker promises to whoever sends it an event: only an event    *)
(* that may be sent is kept, and what is answered with success is kept.    *)
(* Nothing more: an event may be kept that was answered with an error, or  *)
(* whose sender did not wait, and be kept then or later.                   *)
(*                                                                         *)
(* Ingress implements it, and Trampoline sends to it.                      *)
(***************************************************************************)
CONSTANTS Events,
          Admitted  \* the events whose sender is who it has to be

VARIABLES answer,   \* to the last request for each event: "new" before there is
                    \* one, "open" while there is none, "200", "401" or "500"
          kept      \* the events the broker has, for ever

Init == /\ answer = [e \in Events |-> "new"]
        /\ kept = {}

\* An event is sent, for the first time or after an error.
Ask(e) == /\ answer[e] \in {"new", "500"}
          /\ e \in Admitted
          /\ answer' = [answer EXCEPT ![e] = "open"]
          /\ UNCHANGED kept

Refuse(e) == /\ answer[e] = "new"
             /\ e \notin Admitted
             /\ answer' = [answer EXCEPT ![e] = "401"]
             /\ UNCHANGED kept

\* As long as the sender waits, and after that.
Keep(e) == /\ answer[e] \notin {"new", "401"}
           /\ kept' = kept \union {e}
           /\ UNCHANGED answer

Accept(e) == /\ answer[e] = "open"
             /\ e \in kept
             /\ answer' = [answer EXCEPT ![e] = "200"]
             /\ UNCHANGED kept

\* Whether or not the event is kept.
Fail(e) == /\ answer[e] = "open"
           /\ answer' = [answer EXCEPT ![e] = "500"]
           /\ UNCHANGED kept

Next == \E e \in Events : Ask(e) \/ Refuse(e) \/ Keep(e) \/ Accept(e) \/ Fail(e)

Spec == Init /\ [][Next]_<<answer, kept>>
=============================================================================
