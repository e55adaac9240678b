------------------------------- MODULE Replayer -------------------------------
(***************************************************************************)
(* The replayer (cmd/replayer): a job that publishes the messages of a     *)
(* pull subscription, such as that of a dead letter topic, to a topic, and *)
(* exits when it has received nothing for PollTimeout.                     *)
(*                                                                         *)
(* The exit is os.Exit from a goroutine of its own: it may fall between    *)
(* any two steps of the callbacks that are replaying messages.  The        *)
(* client library extends the lease of a message for an hour while its     *)
(* callback runs, so a message has one callback at a time here; it sends   *)
(* acknowledgements in the background.                                     *)
(***************************************************************************)
EXTENDS Integers

CONSTANTS Messages,
          Keyed,        \* messages with an ordering key
          PollTimeout,  \* in ticks
          MaxRuns,      \* bound: times the job is started
          MaxFaults     \* bound: failed calls and lost acknowledgements

ConstantsAssumption == /\ Keyed \subseteq Messages
                       /\ PollTimeout \in Nat
                       /\ MaxRuns \in Nat
                       /\ MaxFaults \in Nat

VARIABLES
    prog,    \* "off", "running" or, after SIGTERM, "stopping"
    idle,    \* ticks since lastReceived, up to PollTimeout + 1
    sub,     \* the subscription: "absent" before a message comes, then "available",
             \* "leased", "acking" or "acked"
    hpc,     \* where the callback of each message is
    copies,  \* copies of each message in the topic
    runs,    \* counts starts, up to MaxRuns
    faults,  \* counts faults, up to MaxFaults
    excused  \* history: messages stored by a publish that was not acknowledged

vars == <<prog, idle, sub, hpc, copies, runs, faults, excused>>

Init == /\ prog = "off"
        /\ idle = 0
        /\ sub = [m \in Messages |-> "absent"]
        /\ hpc = [m \in Messages |-> "none"]
        /\ copies = [m \in Messages |-> 0]
        /\ runs = 0
        /\ faults = 0
        /\ excused = {}

Fault == faults < MaxFaults /\ faults' = faults + 1

-----------------------------------------------------------------------------
(***************************************************************************)
(* The job                                                                 *)
(***************************************************************************)

\* Someone runs the job: lastReceived is now.
Start == /\ prog = "off"
         /\ runs < MaxRuns
         /\ prog' = "running"
         /\ idle' = 0
         /\ runs' = runs + 1
         /\ UNCHANGED <<sub, hpc, copies, faults, excused>>

Tick == /\ prog = "running"
        /\ idle' = IF idle > PollTimeout THEN idle ELSE idle + 1
        /\ UNCHANGED <<prog, sub, hpc, copies, runs, faults, excused>>

\* The process is gone: what it held, or was about to acknowledge, is available
\* again.
Terminate ==
    /\ prog' = "off"
    /\ hpc' = [m \in Messages |-> "none"]
    /\ sub' = [m \in Messages |-> IF sub[m] \in {"absent", "acked"} THEN sub[m] ELSE "available"]
    /\ excused' = excused \union {m \in Messages : copies[m] > 0 /\ sub[m] # "acked"}
    /\ UNCHANGED <<idle, copies, runs, faults>>

\* Mutant: the time must be equal to the timeout.
ExitOnIdling_Equal ==
    /\ prog = "running"
    /\ idle = PollTimeout
    /\ Terminate

\* exitOnIdling, in a goroutine of its own.
ExitOnIdling ==
    /\ prog = "running"
    /\ idle > PollTimeout
    /\ Terminate

\* The context of main is done: Receive pulls no more.
Sigterm == /\ prog = "running"
           /\ prog' = "stopping"
           /\ UNCHANGED <<idle, sub, hpc, copies, runs, faults, excused>>

\* Receive returns when its callbacks have, and so does main.
Return == /\ prog = "stopping"
          /\ \A m \in Messages : hpc[m] = "none" /\ sub[m] # "acking"
          /\ Terminate

-----------------------------------------------------------------------------
(***************************************************************************)
(* The callback                                                            *)
(***************************************************************************)

To(m, pc) == hpc' = [hpc EXCEPT ![m] = pc]

\* A message comes to the subscription, before the job runs or while it does.
Arrive(m) ==
    /\ sub[m] = "absent"
    /\ sub' = [sub EXCEPT ![m] = "available"]
    /\ UNCHANGED <<prog, idle, hpc, copies, runs, faults, excused>>

Receive(m) ==
    /\ prog = "running"
    /\ sub[m] = "available"
    /\ sub' = [sub EXCEPT ![m] = "leased"]
    /\ idle' = 0
    /\ To(m, "received")
    /\ UNCHANGED <<prog, copies, runs, faults, excused>>

\* Publish: the publisher of main does not enable message ordering, and refuses
\* a message that has a key.
Publish(m) ==
    /\ hpc[m] = "received"
    /\ To(m, IF m \in Keyed THEN "error" ELSE "publishing")
    /\ UNCHANGED <<prog, idle, sub, copies, runs, faults, excused>>

\* Pub/Sub stores the message.
Store(m) ==
    /\ hpc[m] = "publishing"
    /\ copies' = [copies EXCEPT ![m] = @ + 1]
    /\ To(m, "stored")
    /\ UNCHANGED <<prog, idle, sub, runs, faults, excused>>

\* Mutant: the message is negatively acknowledged in any case.
Ack_Nacks(m) ==
    /\ hpc[m] = "stored"
    /\ sub' = [sub EXCEPT ![m] = "available"]
    /\ To(m, "none")
    /\ UNCHANGED <<prog, idle, copies, runs, faults, excused>>

\* Get returns without an error: the message is acknowledged.
Ack(m) ==
    /\ hpc[m] = "stored"
    /\ sub' = [sub EXCEPT ![m] = "acking"]
    /\ To(m, "none")
    /\ UNCHANGED <<prog, idle, copies, runs, faults, excused>>

\* Get returns an error: the call failed, before or after the message was
\* stored, or the context is done.
PublishFails(m) ==
    /\ hpc[m] \in {"publishing", "stored"}
    /\ IF prog = "stopping" THEN UNCHANGED faults ELSE Fault
    /\ excused' = excused \union {x \in {m} : hpc[x] = "stored"}
    /\ To(m, "error")
    /\ UNCHANGED <<prog, idle, sub, copies, runs>>

\* Mutant: the error is printed and the message acknowledged.
Nack_Acks(m) ==
    /\ hpc[m] = "error"
    /\ sub' = [sub EXCEPT ![m] = "acking"]
    /\ To(m, "none")
    /\ UNCHANGED <<prog, idle, copies, runs, faults, excused>>

\* The subscription has no retry policy: it is available again at once.
Nack(m) ==
    /\ hpc[m] = "error"
    /\ sub' = [sub EXCEPT ![m] = "available"]
    /\ To(m, "none")
    /\ UNCHANGED <<prog, idle, copies, runs, faults, excused>>

\* The acknowledgement gets to Pub/Sub, or is lost.
AckArrives(m) ==
    /\ sub[m] = "acking"
    /\ sub' = [sub EXCEPT ![m] = "acked"]
    /\ UNCHANGED <<prog, idle, hpc, copies, runs, faults, excused>>

AckLost(m) ==
    /\ Fault
    /\ sub[m] = "acking"
    /\ sub' = [sub EXCEPT ![m] = "available"]
    /\ excused' = excused \union {m}
    /\ UNCHANGED <<prog, idle, hpc, copies, runs>>

Callback(m) == Receive(m) \/ Publish(m) \/ Store(m) \/ Ack(m) \/ Nack(m) \/ AckArrives(m)

-----------------------------------------------------------------------------
Next == \/ Start \/ Tick \/ ExitOnIdling \/ Sigterm \/ Return
        \/ \E m \in Messages : Arrive(m) \/ Callback(m) \/ PublishFails(m) \/ AckLost(m)

Spec == Init /\ [][Next]_vars

\* Time passes, the ticker is served, and Pub/Sub delivers and answers.
FairSpec == /\ Spec
            /\ WF_vars(Tick)
            /\ WF_vars(ExitOnIdling)
            /\ WF_vars(Return)
            /\ \A m \in Messages : WF_vars(Callback(m))

-----------------------------------------------------------------------------
(***************************************************************************)
(* Properties                                                              *)
(***************************************************************************)

\* idle and the counters keep within their bounds, and so does copies: a message
\* is stored once for each start of the job, and once more for each fault.
TypeOK == /\ prog \in {"off", "running", "stopping"}
          /\ idle \in 0 .. PollTimeout + 1
          /\ sub \in [Messages -> {"absent", "available", "leased", "acking", "acked"}]
          /\ hpc \in [Messages -> {"none", "received", "publishing", "stored", "error"}]
          /\ copies \in [Messages -> 0 .. MaxRuns + MaxFaults]
          /\ runs \in 0 .. MaxRuns
          /\ faults \in 0 .. MaxFaults
          /\ excused \subseteq Messages

\* A message leaves the subscription only if it is in the topic, whenever the
\* job exits or is stopped.
NothingLost == \A m \in Messages : sub[m] \in {"acking", "acked"} => copies[m] > 0

\* A message is in the topic twice only if an earlier publish of it was cut
\* short: by an error, a lost acknowledgement or the end of the job.
NoUnexcusedCopy == \A m \in Messages : copies[m] > 1 => m \in excused

\* Each message goes over, and once, whenever the job stops.
OnceEach == NothingLost /\ NoUnexcusedCopy

\* A job that is running ends, unless messages with an ordering key come again
\* and again.
JobEnds == (\A m \in Keyed : <>[](hpc[m] # "received"))
               => (prog = "running" ~> prog = "off")

\* "Pulls messages from a pull subscription and replays them to a topic": a
\* message that is received again and again is published some day.
Replays == \A m \in Messages : []<>(hpc[m] = "received") => <>(copies[m] > 0)
=============================================================================
