------------------------------ MODULE LabelBot ------------------------------
(***************************************************************************)
(* A bot that keeps a label of a pull request (modules/github-bots/sdk:    *)
(* Serve in bot.go, AddLabel and RemoveLabel in github.go), the use the    *)
(* README of the module gives for it: the label is there if and only if    *)
(* the title asks for it.                                                  *)
(*                                                                         *)
(* The handler works on what its event says of the pull request, title and *)
(* labels as they were when the event was made, and events are delivered   *)
(* late, out of order, more than once and several at a time.  Every change *)
(* of the pull request, those of the bot included, makes an event.         *)
(***************************************************************************)
EXTENDS Integers, Sequences, FiniteSets

CONSTANTS Workers,      \* deliveries that are handled at one time
          Strays,       \* kinds of the events in the subscription from the start
          MaxAttempts,  \* deliveries of an event before it is a dead letter
          MaxEdits,     \* bound: changes of the pull request by people
          MaxFaults,    \* bound: failed or lost calls, deliveries that run out of time
          MaxPanics     \* bound: panics in a handler

ConstantsAssumption ==
    /\ Strays \in Seq({"unhandled", "malformed"})
    /\ MaxAttempts \in Nat \ {0}
    /\ {MaxEdits, MaxFaults, MaxPanics} \subseteq Nat
    /\ Workers \intersect {"queued", "acked", "dead"} = {}

VARIABLES
    title,     \* the title asks for the label
    label,     \* the pull request has the label
    events,    \* events in the order they were made: kind, title and label
    held,      \* per event: "queued", "acked", "dead", or the worker that has it
    attempts,  \* per event: its deliveries
    pc,        \* what each worker is doing
    at,        \* the event each worker is handling
    edits,     \* changes made by people
    faults,    \* faults there have been
    panicked,  \* history: events whose handler panicked
    failed     \* history: events an attempt of which met with a fault

vars == <<title, label, events, held, attempts, pc, at, edits, faults, panicked, failed>>

Snapshot(t, l) == [kind |-> "pull_request", title |-> t, label |-> l]

Init == /\ title \in BOOLEAN
        /\ label = FALSE
        /\ events = [i \in DOMAIN Strays |-> [kind |-> Strays[i], title |-> FALSE, label |-> FALSE]]
                    \o <<Snapshot(title, label)>>
        /\ held = [i \in DOMAIN events |-> "queued"]
        /\ attempts = [i \in DOMAIN events |-> 0]
        /\ pc = [w \in Workers |-> "idle"]
        /\ at = [w \in Workers |-> 0]
        /\ edits = 0
        /\ faults = 0
        /\ panicked = {}
        /\ failed = {}

-----------------------------------------------------------------------------
(***************************************************************************)
(* GitHub and Pub/Sub                                                      *)
(***************************************************************************)

\* The pull request changes, and there is an event that says so.
Change(t, l) ==
    /\ title' = t
    /\ label' = l
    /\ events' = Append(events, Snapshot(t, l))
    /\ held' = Append(held, "queued")
    /\ attempts' = Append(attempts, 0)

NoChange == UNCHANGED <<title, label, events, held, attempts>>

\* Somebody edits the title, or puts the label on or takes it off.
Edit ==
    /\ edits < MaxEdits
    /\ edits' = edits + 1
    /\ Change(~title, label) \/ Change(title, ~label)
    /\ UNCHANGED <<pc, at, faults, panicked, failed>>

Fault(i) ==
    /\ faults < MaxFaults
    /\ faults' = faults + 1
    /\ failed' = failed \union {i}

\* An event that is not accepted is delivered again, up to a limit.
GiveBack(i) ==
    held' = [held EXCEPT ![i] = IF attempts[i] < MaxAttempts THEN "queued" ELSE "dead"]

\* A delivery runs out of time, and the worker does not know.
Expire(i) ==
    /\ held[i] \in Workers
    /\ Fault(i)
    /\ GiveBack(i)
    /\ UNCHANGED <<title, label, events, attempts, pc, at, edits, panicked>>

\* A worker is stopped.
Crash(w) ==
    /\ pc[w] # "idle"
    /\ Fault(at[w])
    /\ pc' = [pc EXCEPT ![w] = "idle"]
    /\ IF held[at[w]] = w THEN GiveBack(at[w]) ELSE UNCHANGED held
    /\ UNCHANGED <<title, label, events, attempts, at, edits, panicked>>

-----------------------------------------------------------------------------
(***************************************************************************)
(* Serve                                                                   *)
(***************************************************************************)

\* Mutant: RemoveLabel does not look at the labels of the event.
Dispatch_Unchecked(e) ==
    CASE e.kind = "unhandled" -> "ok"
      [] e.kind = "malformed" -> "error"
      [] e.kind = "pull_request" -> IF ~e.title THEN "removing" ELSE IF e.label THEN "ok" ELSE "adding"

\* What the callback does with an event: no handler for its type and it is
\* accepted, one that cannot be decoded is not; else the handler calls
\* AddLabel or RemoveLabel, which leave when the event has the label, or not.
Dispatch(e) ==
    CASE e.kind = "unhandled" -> "ok"
      [] e.kind = "malformed" -> "error"
      [] e.kind = "pull_request" /\ e.title -> IF e.label THEN "ok" ELSE "adding"
      [] e.kind = "pull_request" /\ ~e.title -> IF e.label THEN "removing" ELSE "ok"

Deliver(w, i) ==
    /\ pc[w] = "idle"
    /\ held[i] = "queued"
    /\ held' = [held EXCEPT ![i] = w]
    /\ attempts' = [attempts EXCEPT ![i] = @ + 1]
    /\ pc' = [pc EXCEPT ![w] = Dispatch(events[i])]
    /\ at' = [at EXCEPT ![w] = i]
    /\ UNCHANGED <<title, label, events, edits, faults, panicked, failed>>

\* The call does not get to GitHub, or is answered with an error.
CallFails(w) ==
    /\ pc[w] \in {"adding", "removing"}
    /\ Fault(at[w])
    /\ pc' = [pc EXCEPT ![w] = "error"]
    /\ NoChange
    /\ UNCHANGED <<at, edits, panicked>>

\* AddLabelsToIssue, which GitHub accepts for a label that is there too.  The
\* answer may be lost.
AddLabel(w) ==
    /\ pc[w] = "adding"
    /\ IF label THEN NoChange ELSE Change(title, TRUE)
    /\ \/ pc' = [pc EXCEPT ![w] = "ok"] /\ UNCHANGED <<faults, failed>>
       \/ pc' = [pc EXCEPT ![w] = "error"] /\ Fault(at[w])
    /\ UNCHANGED <<at, edits, panicked>>

\* RemoveLabelForIssue, which GitHub answers 404 for a label that is not there:
\* an error for validateResponse.
RemoveLabel(w) ==
    /\ pc[w] = "removing"
    /\ IF label THEN Change(title, FALSE) ELSE NoChange
    /\ \/ pc' = [pc EXCEPT ![w] = IF label THEN "ok" ELSE "error"] /\ UNCHANGED <<faults, failed>>
       \/ label /\ pc' = [pc EXCEPT ![w] = "error"] /\ Fault(at[w])
    /\ UNCHANGED <<at, edits, panicked>>

\* The handler panics; the callback recovers and returns no error.
Panic(w) ==
    /\ pc[w] \in {"adding", "removing"}
    /\ Cardinality(panicked) < MaxPanics
    /\ panicked' = panicked \union {at[w]}
    /\ pc' = [pc EXCEPT ![w] = "ok"]
    /\ NoChange
    /\ UNCHANGED <<at, edits, faults, failed>>

\* Mutant: the callback logs the error and returns none.
Answer_Logged(w) ==
    /\ pc[w] \in {"ok", "error"}
    /\ pc' = [pc EXCEPT ![w] = "idle"]
    /\ held' = [held EXCEPT ![at[w]] = IF @ = w THEN "acked" ELSE @]
    /\ UNCHANGED <<title, label, events, attempts, at, edits, faults, panicked, failed>>

\* The callback returns: no error accepts the event, unless it is not this
\* worker's any more.
Answer(w) ==
    /\ pc[w] \in {"ok", "error"}
    /\ pc' = [pc EXCEPT ![w] = "idle"]
    /\ IF held[at[w]] # w THEN UNCHANGED held
       ELSE IF pc[w] = "ok" THEN held' = [held EXCEPT ![at[w]] = "acked"]
       ELSE GiveBack(at[w])
    /\ UNCHANGED <<title, label, events, attempts, at, edits, faults, panicked, failed>>

Step(w) == \/ \E i \in DOMAIN events : Deliver(w, i)
           \/ AddLabel(w) \/ RemoveLabel(w) \/ Answer(w)

Next == \/ Edit
        \/ \E i \in DOMAIN events : Expire(i)
        \/ \E w \in Workers : Step(w) \/ CallFails(w) \/ Panic(w) \/ Crash(w)

Spec == Init /\ [][Next]_vars

\* Pub/Sub delivers what is queued, and a handler that was called returns: each
\* call to GitHub has a deadline.
FairSpec == Spec /\ \A w \in Workers : WF_vars(Step(w))

-----------------------------------------------------------------------------
(***************************************************************************)
(* Properties                                                              *)
(***************************************************************************)

\* A worker calls GitHub only for an event that says the label is to change, and
\* no event is delivered more often than it may be.
TypeOK ==
    /\ {title, label} \subseteq BOOLEAN
    /\ events \in Seq([kind : {"pull_request", "unhandled", "malformed"},
                       title : BOOLEAN, label : BOOLEAN])
    /\ held \in [DOMAIN events -> Workers \union {"queued", "acked", "dead"}]
    /\ attempts \in [DOMAIN events -> 0 .. MaxAttempts]
    /\ pc \in [Workers -> {"idle", "adding", "removing", "ok", "error"}]
    /\ at \in [Workers -> 0 .. Len(events)]
    /\ \A w \in Workers : /\ pc[w] = "adding" => ~events[at[w]].label
                          /\ pc[w] = "removing" => events[at[w]].label
    /\ edits \in 0 .. MaxEdits
    /\ faults \in 0 .. MaxFaults
    /\ panicked \subseteq DOMAIN events
    /\ failed \subseteq DOMAIN events

Latest == Len(events)

\* Late, repeated and concurrent events leave a wrong label only for the time
\* being: while label and title differ, the event that says so is still to be
\* accepted, unless its handler panicked or it became a dead letter.
SomeoneWillFix ==
    label # title => held[Latest] # "acked" \/ Latest \in panicked

\* An event all of whose attempts went without a fault becomes a dead letter only
\* if it cannot be decoded, or the pull request has changed since.
OnlyStaleDies ==
    \A i \in DOMAIN events \ failed :
        held[i] = "dead" => events[i].kind = "malformed" \/ i # Latest

\* No change of the pull request is missed, neither by an event that comes late
\* nor by one that is given up.
NothingMissed == SomeoneWillFix /\ OnlyStaleDies

\* With fewer faults than attempts: once people leave the pull request alone, it
\* gets the label its title asks for, and keeps it, whatever order the events are
\* handled in; only a panic over the last of them is never made up for.
Settled           == label = title \/ Latest \in panicked
LabelFollowsTitle == <>[]Settled
=============================================================================
