---------------------------- MODULE ReplaysProofs ----------------------------
(***************************************************************************)
(* Proofs about what is sent again: for any messages, keys, timeout, runs  *)
(* and faults of the replayer; any rows, pages, retries and errors of      *)
(* dejavu-bq.                                                              *)
(***************************************************************************)
EXTENDS Replays, TLAPS

-----------------------------------------------------------------------------
(***************************************************************************)
(* Replayer: each message goes over, and once                              *)
(***************************************************************************)

Types == /\ sub \in [Messages -> {"absent", "available", "leased", "acking", "acked"}]
         /\ hpc \in [Messages -> {"none", "received", "publishing", "stored", "error"}]
         /\ copies \in [Messages -> Nat]
         /\ excused \subseteq Messages

\* The message is out of the subscription, or about to be.
Gone(m) == sub[m] \in {"acking", "acked"}

\* A callback has the lease of its message; what is acknowledged was stored before.
\* A copy either has its message gone or at its callback, and then it is the only
\* one, or the message is excused: the copy to come will be the second.
MessageInv(m) ==
    /\ hpc[m] # "none" => sub[m] = "leased"
    /\ hpc[m] = "stored" \/ Gone(m) => copies[m] > 0
    /\ copies[m] > 0 => m \in excused \/ (copies[m] = 1 /\ (hpc[m] = "stored" \/ Gone(m)))

ReplayInv == Types /\ \A m \in Messages : MessageInv(m)

-----------------------------------------------------------------------------
\* A step of one callback disturbs no other message.
LEMMA OneMessage ==
    ASSUME ReplayInv, NEW m \in Messages, Types', MessageInv(m)',
           \A n \in Messages \ {m} : /\ sub'[n] = sub[n] /\ hpc'[n] = hpc[n]
                                     /\ copies'[n] = copies[n]
                                     /\ n \in excused' <=> n \in excused
    PROVE  ReplayInv'
BY DEF ReplayInv, MessageInv, Gone

\* The end of the process excuses what was stored and is not out of the subscription.
LEMMA TerminateInv ==
    ASSUME ReplayInv, Terminate
    PROVE  ReplayInv'
<1>1. Types /\ \A m \in Messages : MessageInv(m)
  BY DEF ReplayInv
<1>2. Types'
  BY <1>1 DEF Terminate, Types
<1>3. ASSUME NEW m \in Messages
      PROVE  MessageInv(m)'
  <2>1. hpc'[m] = "none" /\ copies'[m] = copies[m]
    BY DEF Terminate
  <2>2. CASE sub[m] = "acked"
    <3>1. sub'[m] = "acked" /\ excused \subseteq excused'
      BY <2>2 DEF Terminate
    <3>2. hpc[m] # "stored"
      BY <1>1, <2>2 DEF MessageInv
    <3>3. QED
      BY <1>1, <2>1, <2>2, <3>1, <3>2 DEF MessageInv, Gone
  <2>3. CASE sub[m] # "acked"
    <3>1. sub'[m] \in {"absent", "available"} /\ (copies[m] > 0 => m \in excused')
      BY <2>3 DEF Terminate
    <3>2. QED
      BY <2>1, <3>1 DEF MessageInv, Gone
  <2>4. QED
    BY <2>2, <2>3
<1>4. QED
  BY <1>2, <1>3 DEF ReplayInv

\* Each step of the callback and of Pub/Sub.
LEMMA MessageStep ==
    ASSUME ReplayInv, NEW m \in Messages,
           Arrive(m) \/ Callback(m) \/ PublishFails(m) \/ AckLost(m)
    PROVE  ReplayInv'
<1>1. Types /\ MessageInv(m)
  BY DEF ReplayInv
<1>2. CASE Arrive(m)
  BY <1>1, <1>2, OneMessage DEF Arrive, Types, MessageInv, Gone
<1>3. CASE Receive(m)
  BY <1>1, <1>3, OneMessage DEF Receive, To, Types, MessageInv, Gone
<1>4. CASE Publish(m)
  BY <1>1, <1>4, OneMessage DEF Publish, To, Types, MessageInv, Gone
<1>5. CASE Store(m)
  <2>1. /\ hpc[m] = "publishing" /\ hpc' = [hpc EXCEPT ![m] = "stored"]
        /\ copies' = [copies EXCEPT ![m] = @ + 1] /\ UNCHANGED <<sub, excused>>
    BY <1>5 DEF Store, To
  <2>2. Types'
    BY <1>1, <2>1 DEF Types
  <2>3. MessageInv(m)'
    <3>1. copies[m] \in Nat /\ copies'[m] = copies[m] + 1 /\ hpc'[m] = "stored"
      BY <1>1, <2>1 DEF Types
    <3>2. copies[m] > 0 => m \in excused
      BY <1>1, <2>1 DEF MessageInv, Gone
    <3>3. sub'[m] = "leased"
      BY <1>1, <2>1 DEF MessageInv
    <3>4. QED
      BY <2>1, <3>1, <3>2, <3>3 DEF MessageInv, Gone
  <2>4. QED
    BY <1>1, <2>1, <2>2, <2>3, OneMessage DEF Types
<1>6. CASE Ack(m)
  BY <1>1, <1>6, OneMessage DEF Ack, To, Types, MessageInv, Gone
<1>7. CASE Nack(m)
  BY <1>1, <1>7, OneMessage DEF Nack, To, Types, MessageInv, Gone
<1>8. CASE AckArrives(m)
  BY <1>1, <1>8, OneMessage DEF AckArrives, Types, MessageInv, Gone
<1>9. CASE PublishFails(m)
  <2>1. /\ hpc[m] \in {"publishing", "stored"} /\ hpc' = [hpc EXCEPT ![m] = "error"]
        /\ excused' = excused \union {x \in {m} : hpc[x] = "stored"}
        /\ UNCHANGED <<sub, copies>>
    BY <1>9 DEF PublishFails, To
  <2>2. Types'
    BY <1>1, <2>1 DEF Types
  <2>3. MessageInv(m)'
    BY <1>1, <2>1 DEF Types, MessageInv, Gone
  <2>4. QED
    BY <1>1, <2>1, <2>2, <2>3, OneMessage DEF Types
<1>10. CASE AckLost(m)
  BY <1>1, <1>10, OneMessage DEF AckLost, Types, MessageInv, Gone
<1>11. QED
  BY <1>2, <1>3, <1>4, <1>5, <1>6, <1>7, <1>8, <1>9, <1>10 DEF Callback

LEMMA ReplayInvInit ==
    ASSUME Init
    PROVE  ReplayInv
BY DEF Init, ReplayInv, Types, MessageInv, Gone

LEMMA ReplayInvNext ==
    ASSUME ReplayInv, [Next]_vars
    PROVE  ReplayInv'
<1>1. CASE Start \/ Tick \/ Sigterm \/ UNCHANGED vars
  <2>1. UNCHANGED <<sub, hpc, copies, excused>>
    BY <1>1 DEF Start, Tick, Sigterm, vars
  <2>2. QED
    BY <2>1 DEF ReplayInv, Types, MessageInv, Gone
<1>2. CASE ExitOnIdling \/ Return
  BY <1>2, TerminateInv DEF ExitOnIdling, Return
<1>3. ASSUME NEW m \in Messages, Arrive(m) \/ Callback(m) \/ PublishFails(m) \/ AckLost(m)
      PROVE  ReplayInv'
  BY <1>3, MessageStep
<1>4. QED
  BY <1>1, <1>2, <1>3 DEF Next

\* However the job ends and is started again, and whichever calls and
\* acknowledgements fail, a message that is out of the subscription is in the
\* topic, and it is there twice only if a publish of it was cut short (the
\* callback of Receive, exitOnIdling).
THEOREM EachOnce == Spec => []OnceEach
<1>1. ReplayInv => OnceEach
  BY DEF ReplayInv, Types, MessageInv, Gone, OnceEach, NothingLost, NoUnexcusedCopy
<1>2. QED
  BY ReplayInvInit, ReplayInvNext, <1>1, PTL DEF Spec

-----------------------------------------------------------------------------
(***************************************************************************)
(* Replayer: how many copies there may be                                  *)
(***************************************************************************)

\* The message may be stored with no start of the job and no fault in between.
Open(m) == /\ prog # "off"
           /\ ~Gone(m)
           /\ hpc[m] # "stored"
           /\ prog = "stopping" => hpc[m] \in {"received", "publishing"}

\* A message is stored once for each start and each fault, and what is open is
\* still to use one of them.
Room(m) == copies[m] + (IF Open(m) THEN 1 ELSE 0) <= runs + faults

\* Callbacks are of a job that runs.
CountInv == /\ prog \in {"off", "running", "stopping"}
            /\ idle \in 0 .. PollTimeout + 1
            /\ runs \in 0 .. MaxRuns
            /\ faults \in 0 .. MaxFaults
            /\ \A m \in Messages : Room(m) /\ (prog = "off" => hpc[m] = "none")

\* A step of one callback leaves the room of the others, or makes some.
LEMMA OthersRoom ==
    ASSUME ReplayInv, CountInv, UNCHANGED <<prog, runs>>,
           idle' \in {idle, 0}, PollTimeout \in Nat,
           faults' \in {faults, faults + 1}, faults' \in 0 .. MaxFaults,
           NEW m \in Messages, Room(m)', prog = "off" => hpc'[m] = "none",
           \A n \in Messages \ {m} : /\ sub'[n] = sub[n] /\ hpc'[n] = hpc[n]
                                     /\ copies'[n] = copies[n]
    PROVE  CountInv'
<1>1. /\ runs \in Nat /\ faults \in Nat
      /\ \A n \in Messages : copies[n] \in Nat
  BY DEF ReplayInv, Types, CountInv
<1>2. ASSUME NEW n \in Messages \ {m}
      PROVE  Room(n)' /\ (prog = "off" => hpc'[n] = "none")
  <2>1. Open(n)' <=> Open(n)
    BY <1>2 DEF Open, Gone
  <2>2. Room(n) /\ copies'[n] = copies[n] /\ (prog = "off" => hpc[n] = "none")
    BY <1>2 DEF CountInv
  <2>3. QED
    BY <1>1, <1>2, <2>1, <2>2 DEF Room
<1>3. QED
  BY <1>2 DEF CountInv

\* Each step of the callback and of Pub/Sub.
LEMMA MessageRoom ==
    ASSUME ReplayInv, CountInv, ConstantsAssumption, NEW m \in Messages,
           Arrive(m) \/ Callback(m) \/ PublishFails(m) \/ AckLost(m)
    PROVE  CountInv'
<1>1. /\ Types /\ MessageInv(m) /\ Room(m) /\ (prog = "off" => hpc[m] = "none")
      /\ runs \in Nat /\ faults \in 0 .. MaxFaults /\ copies[m] \in Nat /\ MaxFaults \in Nat
      /\ prog \in {"off", "running", "stopping"} /\ PollTimeout \in Nat
  BY DEF ReplayInv, Types, CountInv, ConstantsAssumption
<1>2. CASE Arrive(m)
  <2>1. Open(m)' => Open(m)
    BY <1>1, <1>2 DEF Arrive, Types, Open, Gone
  <2>2. Room(m)'
    BY <1>1, <1>2, <2>1 DEF Arrive, Room
  <2>3. QED
    BY <1>1, <1>2, <2>2, OthersRoom DEF Arrive, Types
<1>3. CASE Receive(m)
  <2>1. Open(m)
    BY <1>1, <1>3 DEF Receive, Types, MessageInv, Open, Gone
  <2>2. Room(m)'
    BY <1>1, <1>3, <2>1 DEF Receive, Room
  <2>3. QED
    BY <1>1, <1>3, <2>2, OthersRoom DEF Receive, To, Types
<1>4. CASE Publish(m)
  <2>1. Open(m)
    BY <1>1, <1>4 DEF Publish, MessageInv, Open, Gone
  <2>2. Room(m)'
    BY <1>1, <1>4, <2>1 DEF Publish, Room
  <2>3. QED
    BY <1>1, <1>4, <2>2, OthersRoom DEF Publish, To, Types
<1>5. CASE Store(m)
  <2>1. Open(m)
    BY <1>1, <1>5 DEF Store, MessageInv, Open, Gone
  <2>2. ~Open(m)' /\ copies'[m] = copies[m] + 1
    BY <1>1, <1>5 DEF Store, To, Types, Open
  <2>3. Room(m)'
    BY <1>1, <1>5, <2>1, <2>2 DEF Store, Room
  <2>4. QED
    BY <1>1, <1>5, <2>3, OthersRoom DEF Store, To, Types
<1>6. CASE Ack(m)
  <2>1. ~Open(m)'
    BY <1>1, <1>6 DEF Ack, Types, Open, Gone
  <2>2. Room(m)'
    BY <1>1, <1>6, <2>1 DEF Ack, Room
  <2>3. QED
    BY <1>1, <1>6, <2>2, OthersRoom DEF Ack, To, Types
<1>7. CASE Nack(m)
  <2>1. Open(m)' => Open(m)
    BY <1>1, <1>7 DEF Nack, To, Types, MessageInv, Open, Gone
  <2>2. Room(m)'
    BY <1>1, <1>7, <2>1 DEF Nack, Room
  <2>3. QED
    BY <1>1, <1>7, <2>2, OthersRoom DEF Nack, To, Types
<1>8. CASE AckArrives(m)
  <2>1. ~Open(m)'
    BY <1>1, <1>8 DEF AckArrives, Types, Open, Gone
  <2>2. Room(m)'
    BY <1>1, <1>8, <2>1 DEF AckArrives, Room
  <2>3. QED
    BY <1>1, <1>8, <2>2, OthersRoom DEF AckArrives, Types
<1>9. CASE PublishFails(m)
  <2>1. /\ hpc[m] \in {"publishing", "stored"} /\ hpc' = [hpc EXCEPT ![m] = "error"]
        /\ UNCHANGED <<prog, idle, sub, copies, runs>>
        /\ IF prog = "stopping" THEN faults' = faults ELSE faults' = faults + 1
        /\ faults' \in 0 .. MaxFaults
    BY <1>1, <1>9 DEF PublishFails, To, Fault
  <2>2. prog = "stopping" => ~Open(m)'
    BY <1>1, <2>1 DEF Types, Open
  <2>3. Room(m)'
    BY <1>1, <2>1, <2>2 DEF Room
  <2>4. QED
    BY <1>1, <2>1, <2>3, OthersRoom DEF Types
<1>10. CASE AckLost(m)
  <2>1. /\ faults' = faults + 1 /\ faults' \in 0 .. MaxFaults
        /\ sub' = [sub EXCEPT ![m] = "available"] /\ UNCHANGED <<prog, idle, hpc, copies, runs>>
    BY <1>1, <1>10 DEF AckLost, Fault
  <2>2. Room(m)'
    BY <1>1, <2>1 DEF Room
  <2>3. QED
    BY <1>1, <2>1, <2>2, OthersRoom DEF Types
<1>11. QED
  BY <1>2, <1>3, <1>4, <1>5, <1>6, <1>7, <1>8, <1>9, <1>10 DEF Callback

LEMMA CountInvNext ==
    ASSUME ReplayInv, CountInv, ConstantsAssumption, [Next]_vars
    PROVE  CountInv'
<1>1. /\ runs \in 0 .. MaxRuns /\ faults \in 0 .. MaxFaults /\ MaxRuns \in Nat /\ MaxFaults \in Nat
      /\ \A m \in Messages : /\ copies[m] \in Nat /\ Room(m)
                             /\ prog = "off" => hpc[m] = "none"
  BY DEF ReplayInv, Types, CountInv, ConstantsAssumption
<1>2. CASE Start
  <2>1. ASSUME NEW m \in Messages
        PROVE  Room(m)'
    BY <1>1, <1>2 DEF Start, Room, Open
  <2>2. QED
    BY <1>1, <1>2, <2>1 DEF Start, CountInv, ConstantsAssumption
<1>3. CASE Tick
  <2>1. idle' \in 0 .. PollTimeout + 1
    BY <1>3 DEF Tick, CountInv, ConstantsAssumption
  <2>2. UNCHANGED <<prog, sub, hpc, copies, runs, faults>>
    BY <1>3 DEF Tick
  <2>3. QED
    BY <2>1, <2>2 DEF CountInv, Room, Open, Gone
<1>4. CASE Sigterm
  <2>1. ASSUME NEW m \in Messages
        PROVE  Room(m)'
    <3>1. Open(m)' => Open(m)
      BY <1>4 DEF Sigterm, Open, Gone
    <3>2. QED
      BY <1>1, <1>4, <3>1 DEF Sigterm, Room
  <2>2. QED
    BY <1>4, <2>1 DEF Sigterm, CountInv
<1>5. CASE ExitOnIdling \/ Return
  <2>1. Terminate
    BY <1>5 DEF ExitOnIdling, Return
  <2>2. ASSUME NEW m \in Messages
        PROVE  Room(m)' /\ hpc'[m] = "none"
    BY <1>1, <2>1 DEF Terminate, Room, Open
  <2>3. QED
    BY <2>1, <2>2 DEF Terminate, CountInv
<1>6. CASE UNCHANGED vars
  BY <1>6 DEF vars, CountInv, Room, Open, Gone
<1>7. ASSUME NEW m \in Messages, Arrive(m) \/ Callback(m) \/ PublishFails(m) \/ AckLost(m)
      PROVE  CountInv'
  BY <1>7, MessageRoom
<1>8. QED
  BY <1>2, <1>3, <1>4, <1>5, <1>6, <1>7 DEF Next

\* A message is stored at most once for each start of the job, and once more for each
\* call or acknowledgement that fails.
LEMMA ReplayerTypes ==
    ASSUME ConstantsAssumption
    PROVE  Spec => []TypeOK
<1>1. Init => CountInv
  BY DEF Init, CountInv, Room, Open, ConstantsAssumption
<1>2. ReplayInv /\ CountInv => TypeOK
  <2> SUFFICES ASSUME ReplayInv, CountInv
               PROVE  TypeOK
    OBVIOUS
  <2>1. ASSUME NEW m \in Messages
        PROVE  copies[m] \in 0 .. MaxRuns + MaxFaults
    <3>1. copies[m] \in Nat /\ Room(m) /\ runs \in 0 .. MaxRuns /\ faults \in 0 .. MaxFaults
      BY DEF ReplayInv, Types, CountInv
    <3>2. QED
      BY <3>1 DEF Room, ConstantsAssumption
  <2>2. copies \in [Messages -> 0 .. MaxRuns + MaxFaults]
    BY <2>1 DEF ReplayInv, Types
  <2>3. QED
    BY <2>2 DEF ReplayInv, Types, CountInv, TypeOK
<1>3. QED
  BY ReplayInvInit, ReplayInvNext, CountInvNext, <1>1, <1>2, PTL DEF Spec

-----------------------------------------------------------------------------
(***************************************************************************)
(* DejaVu: each row is sent, and once                                      *)
(***************************************************************************)

\* The row that is being sent is the one given or none, and has an attempt left;
\* before the query has run nothing is given.
Sending == /\ pc = "send" => row \in {given, D!Null} /\ tries <= MaxRetry
           /\ pc = "query" => given = 0

RowInv == /\ D!TypeOK
          /\ Sending
          /\ D!EachRowOnce

\* Only the row that is sent is accepted.
LEMMA OnlyTheRow ==
    ASSUME D!TypeOK, D!Accept
    PROVE  /\ got' \in [D!Row \union {D!Null} -> Nat]
           /\ \A r \in D!Row \ {row} : got'[r] = got[r]
           /\ row \in D!Row => got'[row] = got[row] + 1
<1>1. row \in D!Row \union {D!Null} /\ got \in [D!Row \union {D!Null} -> Nat]
  BY DEF D!TypeOK
<1>2. row \in D!Row => row # D!Null
  BY DEF D!Row, D!Null
<1>3. QED
  BY <1>1, <1>2 DEF D!Accept

\* The query gives nothing.
LEMMA QueryInv ==
    ASSUME D!ConstantsAssumption, RowInv, D!Query \/ D!QueryFails
    PROVE  RowInv'
<1>1. /\ pc = "query" /\ pc' \in {"next", "ended"} /\ broken' \in BOOLEAN
      /\ UNCHANGED <<unfit, row, read, given, sigterm, tries, got, failures, failed>>
  BY DEF D!Query, D!QueryFails, RowInv, D!TypeOK
<1>2. errors' \in 0 .. MaxReadErrors
  BY DEF D!Query, D!QueryFails, RowInv, D!TypeOK, D!ConstantsAssumption
<1>3. D!TypeOK'
  BY <1>1, <1>2 DEF RowInv, D!TypeOK
<1>4. Sending'
  BY <1>1 DEF Sending
<1>5. \A r \in D!Row : ~(given >= r)
  BY <1>1 DEF RowInv, Sending, D!Row
<1>6. D!EachRowOnce'
  <2>1. \A r \in unfit : ~(given >= r)
    BY <1>5 DEF RowInv, D!TypeOK
  <2>2. \A r \in D!Row \ failed : got[r] = IF r > given \/ r \in unfit THEN 0 ELSE 1
    BY <1>1 DEF RowInv, D!EachRowOnce
  <2>3. QED
    BY <1>1, <2>1, <2>2 DEF D!EachRowOnce
<1>7. QED
  BY <1>3, <1>4, <1>6 DEF RowInv

LEMMA NextRowInv ==
    ASSUME D!ConstantsAssumption, RowInv, D!NextRow
    PROVE  RowInv'
<1>1. /\ pc = "next" /\ given < Rows /\ given' = given + 1 /\ row' = given + 1
      /\ tries' = 0 /\ pc' = IF given + 1 \in unfit THEN "ended" ELSE "send"
      /\ UNCHANGED <<unfit, broken, sigterm, got, failures, errors, failed>>
      /\ read' = IF D!MustRead THEN (IF read + PageSize < Rows THEN read + PageSize ELSE Rows) ELSE read
  BY DEF D!NextRow, D!Send
<1>2. /\ read \in 0 .. Rows /\ given \in 0 .. read /\ unfit \subseteq D!Row
      /\ Rows \in Nat /\ MaxRetry \in Nat /\ PageSize \in Nat \ {0}
  BY DEF RowInv, D!TypeOK, D!ConstantsAssumption
<1>3. read' \in 0 .. Rows /\ given' \in 0 .. read'
  <2>1. CASE D!MustRead
    <3>1. given = read /\ read' = IF read + PageSize < Rows THEN read + PageSize ELSE Rows
      BY <1>1, <2>1 DEF D!MustRead
    <3>2. QED
      BY <1>1, <1>2, <3>1
  <2>2. CASE ~D!MustRead
    <3>1. read' = read /\ (given = read => ~(read < Rows))
      BY <1>1, <2>2 DEF D!MustRead
    <3>2. QED
      BY <1>1, <1>2, <3>1
  <2>3. QED
    BY <2>1, <2>2
<1>4. row' \in D!Row
  BY <1>1, <1>2 DEF D!Row
<1>5. D!TypeOK'
  <2>1. tries' \in 0 .. MaxRetry + 1 /\ pc' \in {"query", "next", "send", "ended"}
    BY <1>1, <1>2
  <2>2. QED
    BY <1>1, <1>3, <1>4, <2>1 DEF RowInv, D!TypeOK
<1>6. Sending'
  BY <1>1, <1>2 DEF Sending
<1>7. ASSUME NEW r \in D!Row \ failed'
      PROVE  got'[r] = IF r > given' \/ (pc' = "send" /\ row' = r) \/ r \in unfit' THEN 0 ELSE 1
  <2>1. got[r] = IF r > given \/ r \in unfit THEN 0 ELSE 1
    BY <1>1, <1>7 DEF RowInv, D!EachRowOnce
  <2>2. r \in Nat /\ given \in Nat
    BY <1>2 DEF D!Row
  <2>3. QED
    BY <1>1, <2>1, <2>2
<1>8. ASSUME NEW r \in unfit', given' >= r
      PROVE  given' = r /\ pc' = "ended"
  <2>1. r \in unfit /\ r \in Nat /\ given \in Nat
    BY <1>1, <1>2, <1>8 DEF D!Row
  <2>2. ~(given >= r)
    BY <1>1, <2>1 DEF RowInv, D!EachRowOnce
  <2>3. r = given + 1
    BY <1>1, <1>8, <2>1, <2>2
  <2>4. QED
    BY <1>1, <2>1, <2>3
<1>9. D!EachRowOnce'
  BY <1>7, <1>8 DEF D!EachRowOnce
<1>10. QED
  BY <1>5, <1>6, <1>9 DEF RowInv

LEMMA ReadFailsInv ==
    ASSUME D!ConstantsAssumption, RowInv, D!ReadFails
    PROVE  RowInv'
<1>1. D!Null \notin unfit
  BY DEF RowInv, D!TypeOK, D!Row, D!Null
<1>2. /\ pc = "next" /\ broken' = TRUE /\ row' = D!Null /\ tries' = 0 /\ pc' = "send"
      /\ UNCHANGED <<unfit, read, given, sigterm, got, failures, failed>>
  BY <1>1 DEF D!ReadFails, D!Send
<1>3. /\ read \in 0 .. Rows /\ given \in 0 .. read /\ MaxRetry \in Nat
      /\ errors' \in 0 .. MaxReadErrors
  BY DEF RowInv, D!TypeOK, D!ConstantsAssumption, D!ReadFails
<1>4. D!TypeOK'
  BY <1>2, <1>3 DEF RowInv, D!TypeOK
<1>5. Sending'
  BY <1>2, <1>3 DEF Sending
<1>6. D!EachRowOnce'
  BY <1>2 DEF RowInv, D!EachRowOnce, D!Row, D!Null
<1>7. QED
  BY <1>4, <1>5, <1>6 DEF RowInv

LEMMA DeliveredInv ==
    ASSUME D!ConstantsAssumption, RowInv, D!Delivered
    PROVE  RowInv'
<1>1. /\ pc = "send" /\ D!Accept /\ tries' = tries + 1 /\ pc' = "next"
      /\ UNCHANGED <<unfit, row, read, given, broken, sigterm, failures, errors, failed>>
  BY DEF D!Delivered
<1>2. /\ got' \in [D!Row \union {D!Null} -> Nat]
      /\ \A r \in D!Row \ {row} : got'[r] = got[r]
      /\ row \in D!Row => got'[row] = got[row] + 1
  BY <1>1, OnlyTheRow DEF RowInv
<1>3. /\ row \in {given, D!Null} /\ tries <= MaxRetry /\ MaxRetry \in Nat
      /\ given \in Nat /\ \A r \in unfit : ~(given >= r)
  BY <1>1 DEF RowInv, Sending, D!TypeOK, D!EachRowOnce, D!ConstantsAssumption
<1>4. D!TypeOK'
  BY <1>1, <1>2, <1>3 DEF RowInv, D!TypeOK
<1>5. Sending'
  BY <1>1 DEF Sending
<1>6. ASSUME NEW r \in D!Row \ failed'
      PROVE  got'[r] = IF r > given' \/ (pc' = "send" /\ row' = r) \/ r \in unfit' THEN 0 ELSE 1
  <2>1. got[r] = IF r > given \/ row = r \/ r \in unfit THEN 0 ELSE 1
    BY <1>1, <1>6 DEF RowInv, D!EachRowOnce
  <2>2. CASE r = row
    <3>1. ~(r > given) /\ r \notin unfit
      BY <1>3, <1>6, <2>2 DEF D!Row, D!Null
    <3>2. QED
      BY <1>1, <1>2, <2>1, <2>2, <3>1
  <2>3. CASE r # row
    BY <1>1, <1>2, <2>1, <2>3
  <2>4. QED
    BY <2>2, <2>3
<1>7. D!EachRowOnce'
  BY <1>1, <1>3, <1>6 DEF D!EachRowOnce
<1>8. QED
  BY <1>4, <1>5, <1>7 DEF RowInv

LEMMA FailedInv ==
    ASSUME D!ConstantsAssumption, RowInv, D!Failed
    PROVE  RowInv'
<1>1. /\ pc = "send" /\ (D!Accept \/ UNCHANGED got)
      /\ tries' = tries + 1 /\ failed' = failed \union {row}
      /\ pc' = "next" \/ (pc' = "send" /\ tries < MaxRetry)
      /\ UNCHANGED <<unfit, row, read, given, broken, sigterm, errors>>
  BY DEF D!Failed
<1>2. /\ row \in {given, D!Null} /\ tries \in 0 .. MaxRetry + 1 /\ tries <= MaxRetry /\ MaxRetry \in Nat
      /\ failures' \in 0 .. MaxFaults
  BY <1>1 DEF RowInv, Sending, D!TypeOK, D!ConstantsAssumption, D!Failed
<1>3. /\ got' \in [D!Row \union {D!Null} -> Nat]
      /\ \A r \in D!Row \ {row} : got'[r] = got[r]
  BY <1>1, OnlyTheRow DEF RowInv, D!TypeOK
<1>4. D!TypeOK'
  BY <1>1, <1>2, <1>3 DEF RowInv, D!TypeOK
<1>5. Sending'
  BY <1>1, <1>2 DEF Sending
<1>6. D!EachRowOnce'
  BY <1>1, <1>3 DEF RowInv, D!EachRowOnce
<1>7. QED
  BY <1>4, <1>5, <1>6 DEF RowInv

\* Whatever the query, the pages and the errors, and whichever attempts fail, a row
\* that was given is accepted once, unless an attempt of its own failed or no event
\* can be made of it; the first of those is the last row given (the loop of main,
\* Publish).
THEOREM EachRowIsSentOnce ==
    ASSUME D!ConstantsAssumption
    PROVE  D!Spec => [](D!TypeOK /\ EachRowOnce)
<1>1. D!Init => RowInv
  <2> SUFFICES ASSUME D!Init
               PROVE  RowInv
    OBVIOUS
  <2>1. /\ Rows \in Nat /\ MaxRetry \in Nat /\ MaxFaults \in Nat /\ MaxReadErrors \in Nat
        /\ D!Null \in D!Row \union {D!Null} /\ \A r \in D!Row : r > 0
    BY DEF D!ConstantsAssumption, D!Row
  <2>2. /\ unfit \subseteq D!Row /\ pc = "query" /\ row = D!Null /\ read = 0 /\ given = 0 /\ broken = FALSE
        /\ sigterm = FALSE /\ tries = 0 /\ got = [r \in D!Row \union {D!Null} |-> 0]
        /\ failures = 0 /\ errors = 0 /\ failed = {}
    BY DEF D!Init
  <2>3. D!TypeOK
    <3>1. /\ read \in 0 .. Rows /\ given \in 0 .. read /\ tries \in 0 .. MaxRetry + 1
          /\ failures \in 0 .. MaxFaults /\ errors \in 0 .. MaxReadErrors
      BY <2>1, <2>2
    <3>2. got \in [D!Row \union {D!Null} -> Nat]
      BY <2>2
    <3>3. QED
      BY <2>1, <2>2, <3>1, <3>2 DEF D!TypeOK
  <2>4. D!EachRowOnce
    <3>1. ASSUME NEW r \in D!Row
          PROVE  r > given /\ got[r] = 0 /\ ~(given >= r)
      BY <2>1, <2>2 DEF D!Row
    <3>2. QED
      BY <2>2, <3>1 DEF D!EachRowOnce
  <2>5. QED
    BY <2>2, <2>3, <2>4 DEF RowInv, Sending
<1>2. RowInv /\ [D!Next]_(D!vars) => RowInv'
  <2> SUFFICES ASSUME RowInv, [D!Next]_(D!vars)
               PROVE  RowInv'
    OBVIOUS
  <2>1. CASE D!NextRow
    BY <2>1, NextRowInv
  <2>2. CASE D!ReadFails
    BY <2>2, ReadFailsInv
  <2>3. CASE D!Delivered
    BY <2>3, DeliveredInv
  <2>4. CASE D!Failed
    BY <2>4, FailedInv
  <2>5. CASE D!Query \/ D!QueryFails
    BY <2>5, QueryInv
  <2>6. CASE D!End
    BY <2>6 DEF D!End, RowInv, D!TypeOK, Sending, D!EachRowOnce
  <2>7. CASE D!Sigterm
    BY <2>7 DEF D!Sigterm, RowInv, D!TypeOK, Sending, D!EachRowOnce
  <2>8. CASE UNCHANGED D!vars
    BY <2>8 DEF D!vars, RowInv, D!TypeOK, Sending, D!EachRowOnce
  <2>9. QED
    BY <2>1, <2>2, <2>3, <2>4, <2>5, <2>6, <2>7, <2>8 DEF D!Next, D!Step
<1>3. RowInv => D!TypeOK /\ EachRowOnce
  BY DEF RowInv, EachRowOnce
<1>4. QED
  BY <1>1, <1>2, <1>3, PTL DEF D!Spec

\* For every value of the constants: a message is stored once for each start of the
\* replayer and once more for each fault; dejavu-bq tries an event MaxRetry + 1 times
\* at most and never gives a row it has not read.
THEOREM ReplaysTypes ==
    ASSUME ConstantsAssumption, D!ConstantsAssumption
    PROVE  Spec /\ D!Spec => []ReplaysTypeOK
<1>1. TypeOK /\ D!TypeOK /\ EachRowOnce => ReplaysTypeOK
  BY DEF ReplaysTypeOK
<1>2. QED
  BY ReplayerTypes, EachRowIsSentOnce, <1>1, PTL
=============================================================================
