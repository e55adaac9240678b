---------------------------- MODULE BotSdkProofs ----------------------------
(***************************************************************************)
(* Proofs about what bots do with modules/github-bots/sdk: for any bytes,  *)
(* pieces, message and length that GitHub takes; any workers, events,      *)
(* attempts and faults; any bots, calls and comments.                      *)
(***************************************************************************)
EXTENDS BotSdk, SequenceTheorems, FiniteSetTheorems, WellFoundedInduction, TLAPS

-----------------------------------------------------------------------------
(***************************************************************************)
(* CheckBuilder: the text of a check run is whole                          *)
(***************************************************************************)

\* The first bytes of a text are the first of any that begins with it.
LEMMA FirstOfBoth ==
    ASSUME NEW s \in Seq(Byte), NEW t \in Seq(Byte), NEW n \in Nat, n <= Len(s)
    PROVE  SubSeq(s \o t, 1, n) = SubSeq(s, 1, n)
OBVIOUS

\* A text that is cut is a text, of the length that GitHub takes.
LEMMA CutLength ==
    ASSUME ConstantsAssumption, NEW s \in Seq(Byte), Len(s) > MaxLength
    PROVE  /\ Cut(s) \in Seq(Byte)
           /\ Len(Cut(s)) = MaxLength
<1> DEFINE room == MaxLength - Len(Message)
<1>1. room \in Nat /\ room <= Len(s) /\ Message \in Seq(Byte)
  BY DEF ConstantsAssumption
<1>2. SubSeq(s, 1, room) \in Seq(Byte) /\ Len(SubSeq(s, 1, room)) = room
  BY <1>1
<1>3. QED
  BY <1>1, <1>2 DEF Cut, ConstantsAssumption

\* What is written to a text that was cut is cut off again.
LEMMA CutAgain ==
    ASSUME ConstantsAssumption, NEW s \in Seq(Byte), NEW t \in Seq(Byte), Len(s) > MaxLength
    PROVE  Cut(Cut(s) \o t) = Cut(s) /\ Cut(s \o t) = Cut(s)
<1> DEFINE room  == MaxLength - Len(Message)
           first == SubSeq(s, 1, room)
<1>1. room \in Nat /\ room <= Len(s) /\ Message \in Seq(Byte)
  BY DEF ConstantsAssumption
<1>2. SubSeq(s \o t, 1, room) = first
  BY <1>1, FirstOfBoth
<1>3. first \in Seq(Byte) /\ Len(first) = room
  BY <1>1
<1>4. SubSeq((first \o Message) \o t, 1, room) = first
  <2>1. first \o Message \in Seq(Byte) /\ room <= Len(first \o Message)
    BY <1>1, <1>3
  <2>2. SubSeq((first \o Message) \o t, 1, room) = SubSeq(first \o Message, 1, room)
    BY <1>1, <2>1, FirstOfBoth
  <2>3. SubSeq(first \o Message, 1, room) = SubSeq(first, 1, room)
    BY <1>1, <1>3, FirstOfBoth
  <2>4. SubSeq(first, 1, room) = first
    BY <1>1, <1>3
  <2>5. QED
    BY <2>2, <2>3, <2>4
<1>5. QED
  BY <1>2, <1>4 DEF Cut

-----------------------------------------------------------------------------
\* The text and all that was written are sequences of bytes, and the one is what
\* is left of the other: this is inductive.
TextInv == /\ md \in Seq(Byte)
           /\ written \in Seq(Byte)
           /\ TextIsWhole

LEMMA WritefTextInv ==
    ASSUME ConstantsAssumption, TextInv, NEW piece \in Pieces, Writef(piece)
    PROVE  TextInv'
<1>1. piece \in Seq(Byte) /\ Len(piece) > 0 /\ MaxLength \in Nat
  BY DEF ConstantsAssumption
<1>2. md \in Seq(Byte) /\ written \in Seq(Byte) /\ written' = written \o piece
  BY DEF TextInv, Writef
<1>3. written' \in Seq(Byte) /\ Len(written') = Len(written) + Len(piece)
  BY <1>1, <1>2
<1>4. CASE Len(written) <= MaxLength
  <2>1. md = written /\ md' = Truncate(written \o piece)
    BY <1>4 DEF TextInv, TextIsWhole, Writef
  <2>2. md' = IF Len(written') <= MaxLength THEN written' ELSE Cut(written')
    BY <1>1, <1>2, <1>3, <2>1 DEF Truncate
  <2>3. md' \in Seq(Byte)
    BY <1>1, <1>3, <2>2, CutLength
  <2>4. QED
    BY <1>3, <2>2, <2>3 DEF TextInv, TextIsWhole
<1>5. CASE Len(written) > MaxLength
  <2>1. md = Cut(written) /\ Len(md) = MaxLength
    BY <1>1, <1>2, <1>5, CutLength DEF TextInv, TextIsWhole
  <2>2. md' = Truncate(md \o piece) /\ Len(md \o piece) > MaxLength
    BY <1>1, <1>2, <2>1 DEF Writef
  <2>3. md' = Cut(written) /\ Cut(written') = Cut(written)
    BY <1>1, <1>2, <1>5, <2>1, <2>2, CutAgain DEF Truncate
  <2>4. QED
    BY <1>1, <1>2, <1>3, <1>5, <2>3, CutLength DEF TextInv, TextIsWhole
<1>6. QED
  BY <1>1, <1>2, <1>4, <1>5

LEMMA TextInvInit ==
    ASSUME ConstantsAssumption, Init
    PROVE  TextInv
BY DEF Init, TextInv, TextIsWhole, ConstantsAssumption

LEMMA TextInvNext ==
    ASSUME ConstantsAssumption, TextInv, [Next]_vars
    PROVE  TextInv'
<1>1. CASE \E piece \in Pieces : Writef(piece)
  BY <1>1, WritefTextInv
<1>2. CASE Set
  BY <1>2 DEF Set, TextInv, TextIsWhole
<1>3. CASE CheckRun
  BY <1>3 DEF CheckRun, TextInv, TextIsWhole
<1>4. CASE UNCHANGED vars
  BY <1>4 DEF vars, TextInv, TextIsWhole
<1>5. QED
  BY <1>1, <1>2, <1>3, <1>4 DEF Next

\* Whatever is written and whenever it is sent, the text GitHub gets is all of it,
\* or the first of it and one message, of the length that GitHub takes.
THEOREM TextIsAlwaysWhole ==
    ASSUME ConstantsAssumption
    PROVE  Spec => []TextIsWhole
<1>1. TextInv => TextIsWhole
  BY DEF TextInv
<1>2. QED
  BY TextInvInit, TextInvNext, <1>1, PTL DEF Spec

-----------------------------------------------------------------------------
(***************************************************************************)
(* LabelBot: no change of the pull request is missed                       *)
(***************************************************************************)

Kinds  == {"pull_request", "unhandled", "malformed"}
Event  == [kind : Kinds, title : BOOLEAN, label : BOOLEAN]
Holder == Workers \union {"queued", "acked", "dead"}

\* A worker that is not idle has an event; one that is queued may be delivered.
AtWork == /\ \A w \in Workers : pc[w] # "idle" => at[w] \in DOMAIN events
          /\ \A i \in DOMAIN events : held[i] = "queued" => attempts[i] < MaxAttempts

\* The last event says what is the case.
LatestSaysSo == Len(events) > 0 /\ events[L!Latest] = L!Snapshot(title, label)

\* A worker calls GitHub for an event that asks for it.
CallsAsked ==
    \A w \in Workers :
        /\ pc[w] = "adding" => events[at[w]].title /\ ~events[at[w]].label
        /\ pc[w] = "removing" => ~events[at[w]].title /\ events[at[w]].label

\* A worker that is about to accept the last event has nothing left to do ...
AcceptsDone(w) ==
    pc[w] = "ok" /\ at[w] = L!Latest => label = title \/ L!Latest \in panicked

\* ... and one that is about to refuse an event has a reason.
RefusesForReason(w) ==
    pc[w] = "error" => \/ at[w] \in failed
                       \/ events[at[w]].kind = "malformed"
                       \/ at[w] # L!Latest

LabelInv == /\ L!TypeOK
            /\ AtWork
            /\ LatestSaysSo
            /\ CallsAsked
            /\ \A w \in Workers : AcceptsDone(w) /\ RefusesForReason(w)
            /\ L!SomeoneWillFix
            /\ L!OnlyStaleDies

\* A function on the first numbers that gets another value at its end.
LEMMA Longer ==
    ASSUME NEW S, NEW f \in Seq(S), NEW x \in S
    PROVE  /\ Append(f, x) \in Seq(S) /\ Len(Append(f, x)) = Len(f) + 1
           /\ Append(f, x) \in [1 .. Len(f) + 1 -> S]
           /\ Append(f, x)[Len(f) + 1] = x
           /\ \A i \in 1 .. Len(f) : Append(f, x)[i] = f[i]
<1> DEFINE g == Append(f, x)
           n == Len(f)
<1>1. /\ g \in Seq(S) /\ Len(g) = n + 1 /\ g[n + 1] = x
      /\ \A i \in 1 .. n : g[i] = f[i]
  BY AppendProperties
<1> HIDE DEF g, n
<1>2. g \in [1 .. n + 1 -> S]
  BY <1>1, LenProperties
<1>3. QED
  BY <1>1, <1>2 DEF g, n

\* A change of the pull request is an event more, and disturbs no other.
LEMMA Changed ==
    ASSUME L!ConstantsAssumption, LabelInv,
           NEW t \in BOOLEAN, NEW l \in BOOLEAN, L!Change(t, l)
    PROVE  /\ title' = t /\ label' = l
           /\ events' \in Seq(Event) /\ Len(events') = Len(events) + 1
           /\ DOMAIN events = 1 .. Len(events) /\ DOMAIN events' = 1 .. Len(events) + 1
           /\ held' \in [DOMAIN events' -> Holder]
           /\ attempts' \in [DOMAIN events' -> 0 .. MaxAttempts]
           /\ events'[Len(events')] = L!Snapshot(t, l)
           /\ held'[Len(events')] = "queued" /\ attempts'[Len(events')] = 0
           /\ \A i \in DOMAIN events : /\ events'[i] = events[i]
                                       /\ held'[i] = held[i]
                                       /\ attempts'[i] = attempts[i]
<1> DEFINE n == Len(events)
<1>1. /\ events \in Seq(Event) /\ n \in Nat /\ DOMAIN events = 1 .. n
      /\ held \in [1 .. n -> Holder] /\ attempts \in [1 .. n -> 0 .. MaxAttempts]
  BY DEF LabelInv, L!TypeOK, Event, Kinds, Holder
<1>2. /\ title' = t /\ label' = l
      /\ events' = Append(events, L!Snapshot(t, l))
      /\ held' = Append(held, "queued") /\ attempts' = Append(attempts, 0)
  BY DEF L!Change
<1>3. L!Snapshot(t, l) \in Event /\ "queued" \in Holder /\ 0 \in 0 .. MaxAttempts
  BY DEF L!Snapshot, Event, Kinds, Holder, L!ConstantsAssumption
<1>4. /\ events' \in Seq(Event) /\ Len(events') = n + 1
      /\ events'[n + 1] = L!Snapshot(t, l)
      /\ \A i \in 1 .. n : events'[i] = events[i]
  BY <1>1, <1>2, <1>3, Longer
<1>5. /\ held' \in [1 .. n + 1 -> Holder] /\ held'[n + 1] = "queued"
      /\ \A i \in 1 .. n : held'[i] = held[i]
  <2>1. held \in Seq(Holder) /\ Len(held) = n
    BY <1>1
  <2>2. QED
    BY <1>2, <1>3, <2>1, Longer
<1>6. /\ attempts' \in [1 .. n + 1 -> 0 .. MaxAttempts] /\ attempts'[n + 1] = 0
      /\ \A i \in 1 .. n : attempts'[i] = attempts[i]
  <2> DEFINE S == 0 .. MaxAttempts
  <2>1. attempts \in [1 .. n -> S] /\ 0 \in S
    BY <1>1, <1>3
  <2> HIDE DEF S
  <2>2. attempts \in Seq(S) /\ Len(attempts) = n
    BY <1>1, <2>1
  <2>3. /\ attempts' \in [1 .. n + 1 -> S] /\ attempts'[n + 1] = 0
        /\ \A i \in 1 .. n : attempts'[i] = attempts[i]
    BY <1>2, <2>1, <2>2, Longer
  <2>4. QED
    BY <2>3 DEF S
<1>7. DOMAIN events' = 1 .. n + 1
  BY <1>4
<1>8. QED
  BY <1>1, <1>2, <1>4, <1>5, <1>6, <1>7

\* What a worker did or was about to do stands when the pull request changes: its
\* event is not the last one any more.
LEMMA ChangeInv ==
    ASSUME L!ConstantsAssumption, LabelInv,
           NEW t \in BOOLEAN, NEW l \in BOOLEAN, L!Change(t, l),
           at' = at, pc' \in [Workers -> {"idle", "adding", "removing", "ok", "error"}],
           \A w \in Workers : /\ pc'[w] # "idle" => pc[w] # "idle"
                              /\ pc'[w] \in {"adding", "removing"} => pc'[w] = pc[w],
           edits' \in 0 .. MaxEdits, faults' \in 0 .. MaxFaults,
           panicked' = panicked, failed \subseteq failed', failed' \subseteq DOMAIN events
    PROVE  LabelInv'
<1> DEFINE n == Len(events)
<1>1. /\ title' = t /\ label' = l
      /\ events' \in Seq(Event) /\ Len(events') = n + 1
      /\ DOMAIN events = 1 .. n /\ DOMAIN events' = 1 .. n + 1
      /\ held' \in [DOMAIN events' -> Holder]
      /\ attempts' \in [DOMAIN events' -> 0 .. MaxAttempts]
      /\ events'[n + 1] = L!Snapshot(t, l)
      /\ held'[n + 1] = "queued" /\ attempts'[n + 1] = 0
      /\ \A i \in 1 .. n : /\ events'[i] = events[i]
                           /\ held'[i] = held[i]
                           /\ attempts'[i] = attempts[i]
  BY Changed
<1>2. n \in Nat /\ L!Latest' = n + 1 /\ at \in [Workers -> 0 .. n]
  BY <1>1 DEF LabelInv, L!TypeOK, L!Latest
<1>3. \A w \in Workers : pc'[w] # "idle" => at[w] \in 1 .. n
  BY <1>1 DEF LabelInv, AtWork
<1>4. AtWork'
  <2>1. \A i \in 1 .. n : held'[i] = "queued" => attempts'[i] < MaxAttempts
    BY <1>1 DEF LabelInv, AtWork
  <2>2. attempts'[n + 1] < MaxAttempts
    BY <1>1 DEF L!ConstantsAssumption
  <2>3. \A i \in 1 .. n + 1 : i \in 1 .. n \/ i = n + 1
    BY <1>2
  <2>4. QED
    BY <1>1, <1>2, <1>3, <2>1, <2>2, <2>3 DEF AtWork
<1>5. LatestSaysSo'
  BY <1>1, <1>2 DEF LatestSaysSo, L!Snapshot
<1>6. CallsAsked'
  BY <1>1, <1>3 DEF LabelInv, CallsAsked
<1>7. L!TypeOK'
  <2>1. \A w \in Workers : /\ pc'[w] = "adding" => ~events'[at'[w]].label
                           /\ pc'[w] = "removing" => events'[at'[w]].label
    BY <1>6 DEF CallsAsked
  <2>2. at' \in [Workers -> 0 .. n + 1]
    BY <1>2
  <2>3. panicked' \subseteq DOMAIN events' /\ failed' \subseteq DOMAIN events'
    BY <1>1, <1>2 DEF LabelInv, L!TypeOK
  <2>4. QED
    BY <1>1, <2>1, <2>2, <2>3 DEF L!TypeOK, Event, Kinds, Holder
<1>8. \A w \in Workers : AcceptsDone(w)' /\ RefusesForReason(w)'
  BY <1>2, <1>3 DEF AcceptsDone, RefusesForReason
<1>9. L!SomeoneWillFix'
  BY <1>1, <1>2 DEF L!SomeoneWillFix
<1>10. L!OnlyStaleDies'
  BY <1>1, <1>2 DEF L!OnlyStaleDies, LabelInv
<1>11. QED
  BY <1>4, <1>5, <1>6, <1>7, <1>8, <1>9, <1>10 DEF LabelInv

\* A call that is over, or that failed, leaves its worker with an answer it has a
\* reason for.
LEMMA CalledInv ==
    ASSUME L!ConstantsAssumption, LabelInv, NEW w \in Workers,
           UNCHANGED <<title, label, events, held, attempts, at, edits>>,
           NEW x \in {"ok", "error"}, pc[w] # "idle", pc' = [pc EXCEPT ![w] = x],
           faults' \in 0 .. MaxFaults,
           panicked \subseteq panicked', panicked' \subseteq panicked \union {at[w]},
           failed \subseteq failed', failed' \subseteq failed \union {at[w]},
           x = "ok" => \/ at[w] # L!Latest \/ label = title \/ at[w] \in panicked',
           x = "error" => at[w] # L!Latest \/ at[w] \in failed'
    PROVE  LabelInv'
<1>1. at[w] \in DOMAIN events
  BY DEF LabelInv, AtWork
<1>2. pc \in [Workers -> {"idle", "adding", "removing", "ok", "error"}]
  BY DEF LabelInv, L!TypeOK
<1>3. L!Latest' = L!Latest
  BY DEF L!Latest
<1>4. L!TypeOK'
  BY <1>1, <1>2 DEF LabelInv, L!TypeOK
<1>5. AtWork' /\ LatestSaysSo' /\ CallsAsked'
  BY <1>2, <1>3 DEF LabelInv, AtWork, LatestSaysSo, CallsAsked
<1>6. \A v \in Workers : AcceptsDone(v)' /\ RefusesForReason(v)'
  BY <1>2, <1>3 DEF LabelInv, AcceptsDone, RefusesForReason
<1>7. L!SomeoneWillFix' /\ L!OnlyStaleDies'
  BY <1>3 DEF LabelInv, L!SomeoneWillFix, L!OnlyStaleDies
<1>8. QED
  BY <1>4, <1>5, <1>6, <1>7 DEF LabelInv

\* An event is taken by a worker, accepted, or given back.
LEMMA HeldInv ==
    ASSUME L!ConstantsAssumption, LabelInv, NEW i \in DOMAIN events,
           UNCHANGED <<title, label, events, edits, panicked>>,
           faults' \in 0 .. MaxFaults, failed' \in {failed, failed \union {i}},
           NEW x \in Holder, held' = [held EXCEPT ![i] = x],
           attempts' \in [DOMAIN events -> 0 .. MaxAttempts],
           \A j \in DOMAIN events : held'[j] = "queued" => attempts'[j] < MaxAttempts,
           at' \in [Workers -> 0 .. Len(events)],
           pc' \in [Workers -> {"idle", "adding", "removing", "ok", "error"}],
           AtWork', CallsAsked',
           \A w \in Workers : AcceptsDone(w)' /\ RefusesForReason(w)',
           x = "acked" => i # L!Latest \/ label = title \/ i \in panicked,
           x = "dead" => \/ i \in failed'
                         \/ events[i].kind = "malformed"
                         \/ i # L!Latest
    PROVE  LabelInv'
<1>1. L!Latest' = L!Latest
  BY DEF L!Latest
<1>2. held \in [DOMAIN events -> Holder] /\ held' \in [DOMAIN events -> Holder]
  BY DEF LabelInv, L!TypeOK, Holder
<1>3. L!TypeOK'
  <2>1. failed' \subseteq DOMAIN events
    BY DEF LabelInv, L!TypeOK
  <2>2. QED
    BY <1>2, <2>1 DEF LabelInv, L!TypeOK, CallsAsked, Holder
<1>4. LatestSaysSo'
  BY <1>1 DEF LabelInv, LatestSaysSo
<1>5. L!SomeoneWillFix'
  BY <1>1, <1>2 DEF LabelInv, L!SomeoneWillFix
<1>6. L!OnlyStaleDies'
  BY <1>1, <1>2 DEF LabelInv, L!OnlyStaleDies
<1>7. QED
  BY <1>3, <1>4, <1>5, <1>6 DEF LabelInv

-----------------------------------------------------------------------------
\* Each step keeps it.

LEMMA EditLabelInv ==
    ASSUME L!ConstantsAssumption, LabelInv, L!Edit
    PROVE  LabelInv'
<1>1. /\ edits' \in 0 .. MaxEdits
      /\ UNCHANGED <<pc, at, faults, panicked, failed>>
      /\ L!Change(~title, label) \/ L!Change(title, ~label)
  BY DEF LabelInv, L!TypeOK, L!Edit, L!ConstantsAssumption
<1>2. /\ title \in BOOLEAN /\ label \in BOOLEAN /\ faults' \in 0 .. MaxFaults
      /\ pc' \in [Workers -> {"idle", "adding", "removing", "ok", "error"}]
      /\ failed \subseteq DOMAIN events
  BY <1>1 DEF LabelInv, L!TypeOK
<1>3. CASE L!Change(~title, label)
  BY <1>1, <1>2, <1>3, ChangeInv
<1>4. CASE L!Change(title, ~label)
  BY <1>1, <1>2, <1>4, ChangeInv
<1>5. QED
  BY <1>1, <1>3, <1>4

\* An event is given back only while it has attempts left.
LEMMA GivenBack ==
    ASSUME L!ConstantsAssumption, LabelInv, NEW i \in DOMAIN events, L!GiveBack(i)
    PROVE  \E x \in {"queued", "dead"} :
               /\ held' = [held EXCEPT ![i] = x]
               /\ \A j \in DOMAIN events : held'[j] = "queued" => attempts[j] < MaxAttempts
<1>1. held \in [DOMAIN events -> Holder]
  BY DEF LabelInv, L!TypeOK, Holder
<1>2. CASE attempts[i] < MaxAttempts
  <2>1. held' = [held EXCEPT ![i] = "queued"]
    BY <1>2 DEF L!GiveBack
  <2>2. QED
    BY <1>1, <1>2, <2>1 DEF LabelInv, AtWork
<1>3. CASE ~(attempts[i] < MaxAttempts)
  <2>1. held' = [held EXCEPT ![i] = "dead"]
    BY <1>3 DEF L!GiveBack
  <2>2. QED
    BY <1>1, <2>1 DEF LabelInv, AtWork
<1>4. QED
  BY <1>2, <1>3

LEMMA ExpireInv ==
    ASSUME L!ConstantsAssumption, LabelInv, NEW i \in DOMAIN events, L!Expire(i)
    PROVE  LabelInv'
<1>1. /\ UNCHANGED <<title, label, events, attempts, pc, at, edits, panicked>>
      /\ failed' = failed \union {i} /\ L!GiveBack(i)
  BY DEF L!Expire, L!Fault
<1>2. faults' \in 0 .. MaxFaults
  BY DEF LabelInv, L!TypeOK, L!Expire, L!Fault, L!ConstantsAssumption
<1>3. PICK x \in {"queued", "dead"} :
          /\ held' = [held EXCEPT ![i] = x]
          /\ \A j \in DOMAIN events : held'[j] = "queued" => attempts[j] < MaxAttempts
  BY <1>1, GivenBack
<1>4. AtWork' /\ CallsAsked'
  BY <1>1, <1>3 DEF LabelInv, AtWork, CallsAsked
<1>5. \A w \in Workers : AcceptsDone(w)' /\ RefusesForReason(w)'
  BY <1>1 DEF LabelInv, AcceptsDone, RefusesForReason, L!Latest
<1>6. /\ attempts' \in [DOMAIN events -> 0 .. MaxAttempts] /\ x \in Holder
      /\ at' \in [Workers -> 0 .. Len(events)]
      /\ pc' \in [Workers -> {"idle", "adding", "removing", "ok", "error"}]
      /\ i \in failed'
  BY <1>1 DEF LabelInv, L!TypeOK, Holder
<1>7. QED
  BY <1>1, <1>2, <1>3, <1>4, <1>5, <1>6, HeldInv

\* A worker that is idle again has nothing to answer.
LEMMA IdleAgain ==
    ASSUME LabelInv, NEW w \in Workers, pc' = [pc EXCEPT ![w] = "idle"],
           UNCHANGED <<title, label, events, at, panicked>>, failed \subseteq failed'
    PROVE  /\ pc' \in [Workers -> {"idle", "adding", "removing", "ok", "error"}]
           /\ \A v \in Workers : pc'[v] # "idle" => at'[v] \in DOMAIN events
           /\ CallsAsked'
           /\ \A v \in Workers : AcceptsDone(v)' /\ RefusesForReason(v)'
<1>1. /\ pc' \in [Workers -> {"idle", "adding", "removing", "ok", "error"}]
      /\ \A v \in Workers : pc'[v] = "idle" \/ pc'[v] = pc[v]
  BY DEF LabelInv, L!TypeOK
<1>2. \A v \in Workers : pc'[v] # "idle" => at'[v] \in DOMAIN events
  BY <1>1 DEF LabelInv, AtWork
<1>3. CallsAsked'
  BY <1>1 DEF LabelInv, CallsAsked
<1>4. ASSUME NEW v \in Workers
      PROVE  AcceptsDone(v)' /\ RefusesForReason(v)'
  BY <1>1 DEF LabelInv, AcceptsDone, RefusesForReason, L!Latest
<1>5. QED
  BY <1>1, <1>2, <1>3, <1>4

LEMMA CrashLabelInv ==
    ASSUME L!ConstantsAssumption, LabelInv, NEW w \in Workers, L!Crash(w)
    PROVE  LabelInv'
<1> DEFINE i == at[w]
<1>1. /\ UNCHANGED <<title, label, events, attempts, at, edits, panicked>>
      /\ pc' = [pc EXCEPT ![w] = "idle"] /\ failed' = failed \union {i}
      /\ i \in DOMAIN events
  BY DEF L!Crash, L!Fault, LabelInv, AtWork
<1>2. faults' \in 0 .. MaxFaults
  BY DEF LabelInv, L!TypeOK, L!Crash, L!Fault, L!ConstantsAssumption
<1>3. /\ pc' \in [Workers -> {"idle", "adding", "removing", "ok", "error"}]
      /\ \A v \in Workers : pc'[v] # "idle" => at'[v] \in DOMAIN events
      /\ CallsAsked'
      /\ \A v \in Workers : AcceptsDone(v)' /\ RefusesForReason(v)'
  BY <1>1, IdleAgain
<1>4. /\ attempts' \in [DOMAIN events -> 0 .. MaxAttempts]
      /\ at' \in [Workers -> 0 .. Len(events)] /\ i \in failed'
  BY <1>1 DEF LabelInv, L!TypeOK
<1>5. CASE held[i] = w
  <2>1. L!GiveBack(i)
    BY <1>5 DEF L!Crash
  <2>2. PICK x \in {"queued", "dead"} :
            /\ held' = [held EXCEPT ![i] = x]
            /\ \A j \in DOMAIN events : held'[j] = "queued" => attempts[j] < MaxAttempts
    BY <1>1, <2>1, GivenBack
  <2>3. AtWork' /\ x \in Holder
    BY <1>1, <1>3, <2>2 DEF AtWork, Holder
  <2> HIDE DEF i
  <2>4. QED
    BY <1>1, <1>2, <1>3, <1>4, <2>2, <2>3, HeldInv
<1>6. CASE held[i] # w
  <2>1. held' = held
    BY <1>6 DEF L!Crash
  <2>2. AtWork' /\ LatestSaysSo'
    BY <1>1, <1>3, <2>1 DEF LabelInv, AtWork, LatestSaysSo, L!Latest
  <2>3. L!TypeOK'
    BY <1>1, <1>2, <1>3, <1>4, <2>1 DEF LabelInv, L!TypeOK, CallsAsked
  <2>4. L!SomeoneWillFix' /\ L!OnlyStaleDies'
    BY <1>1, <2>1 DEF LabelInv, L!SomeoneWillFix, L!OnlyStaleDies, L!Latest
  <2>5. QED
    BY <1>3, <2>2, <2>3, <2>4 DEF LabelInv
<1>7. QED
  BY <1>5, <1>6

LEMMA DeliverInv ==
    ASSUME L!ConstantsAssumption, LabelInv, NEW w \in Workers, NEW i \in DOMAIN events,
           L!Deliver(w, i)
    PROVE  LabelInv'
<1> DEFINE x == L!Dispatch(events[i])
<1>1. /\ UNCHANGED <<title, label, events, edits, faults, panicked, failed>>
      /\ held[i] = "queued" /\ held' = [held EXCEPT ![i] = w]
      /\ attempts' = [attempts EXCEPT ![i] = @ + 1]
      /\ pc' = [pc EXCEPT ![w] = x] /\ at' = [at EXCEPT ![w] = i]
  BY DEF L!Deliver
<1>2. /\ events \in Seq(Event) /\ i \in 1 .. Len(events) /\ events[i] \in Event
      /\ held \in [DOMAIN events -> Holder]
      /\ attempts \in [DOMAIN events -> 0 .. MaxAttempts]
      /\ pc \in [Workers -> {"idle", "adding", "removing", "ok", "error"}]
      /\ at \in [Workers -> 0 .. Len(events)]
      /\ faults' \in 0 .. MaxFaults
  <2>1. /\ events \in Seq(Event) /\ i \in 1 .. Len(events)
        /\ held \in [DOMAIN events -> Holder]
        /\ attempts \in [DOMAIN events -> 0 .. MaxAttempts]
        /\ pc \in [Workers -> {"idle", "adding", "removing", "ok", "error"}]
        /\ at \in [Workers -> 0 .. Len(events)]
        /\ faults' \in 0 .. MaxFaults
    <3>1. events \in Seq(Event) /\ i \in 1 .. Len(events)
      BY DEF LabelInv, L!TypeOK, Event, Kinds
    <3>2. QED
      BY <1>1, <3>1 DEF LabelInv, L!TypeOK, Holder
  <2>2. events[i] \in Event
    BY <2>1, ElementOfSeq
  <2>3. QED
    BY <2>1, <2>2
<1>3. /\ x \in {"adding", "removing", "ok", "error"}
      /\ x = "adding" => events[i].title /\ ~events[i].label
      /\ x = "removing" => ~events[i].title /\ events[i].label
      /\ x = "ok" => events[i].kind = "unhandled" \/ events[i].title = events[i].label
      /\ x = "error" => events[i].kind = "malformed"
  BY <1>2 DEF L!Dispatch, Event, Kinds
<1> HIDE DEF x
<1>4. /\ pc' \in [Workers -> {"idle", "adding", "removing", "ok", "error"}]
      /\ at' \in [Workers -> 0 .. Len(events)]
      /\ pc'[w] = x /\ at'[w] = i
      /\ \A v \in Workers \ {w} : pc'[v] = pc[v] /\ at'[v] = at[v]
  BY <1>1, <1>2, <1>3
<1>5. /\ attempts' \in [DOMAIN events -> 0 .. MaxAttempts]
      /\ \A j \in DOMAIN events : held'[j] = "queued" => attempts'[j] < MaxAttempts
  <2>1. w # "queued" /\ MaxAttempts \in Nat
    BY DEF L!ConstantsAssumption
  <2>2. attempts[i] < MaxAttempts
    BY <1>1, <1>2 DEF LabelInv, AtWork
  <2>3. attempts'[i] = attempts[i] + 1 /\ \A j \in DOMAIN events \ {i} : attempts'[j] = attempts[j]
    BY <1>1, <1>2
  <2>4. held'[i] = w /\ \A j \in DOMAIN events \ {i} : held'[j] = held[j]
    BY <1>1, <1>2
  <2>5. \A j \in DOMAIN events : held'[j] = "queued" => attempts'[j] < MaxAttempts
    BY <2>1, <2>3, <2>4 DEF LabelInv, AtWork
  <2>6. attempts[i] + 1 \in 0 .. MaxAttempts
    BY <1>2, <2>1, <2>2
  <2>7. QED
    BY <1>1, <1>2, <2>5, <2>6
<1>6. AtWork'
  BY <1>1, <1>2, <1>4, <1>5 DEF LabelInv, AtWork
<1>7. CallsAsked'
  BY <1>1, <1>3, <1>4 DEF LabelInv, CallsAsked
<1>8. ASSUME NEW v \in Workers
      PROVE  AcceptsDone(v)' /\ RefusesForReason(v)'
  <2>1. CASE v = w
    <3>1. i = L!Latest => events[i].kind = "pull_request" /\ events[i].title = title
                          /\ events[i].label = label
      BY DEF LabelInv, LatestSaysSo, L!Snapshot
    <3>2. QED
      BY <1>1, <1>3, <1>4, <2>1, <3>1 DEF AcceptsDone, RefusesForReason, L!Latest
  <2>2. CASE v # w
    BY <1>1, <1>4, <2>2 DEF LabelInv, AcceptsDone, RefusesForReason, L!Latest
  <2>3. QED
    BY <2>1, <2>2
<1>9. w \in Holder /\ w \notin {"acked", "dead"}
  BY DEF Holder, L!ConstantsAssumption
<1>10. QED
  BY <1>1, <1>2, <1>4, <1>5, <1>6, <1>7, <1>8, <1>9, HeldInv

LEMMA CallFailsInv ==
    ASSUME L!ConstantsAssumption, LabelInv, NEW w \in Workers, L!CallFails(w)
    PROVE  LabelInv'
<1>1. /\ UNCHANGED <<title, label, events, held, attempts, at, edits, panicked>>
      /\ pc' = [pc EXCEPT ![w] = "error"] /\ pc[w] # "idle"
      /\ failed' = failed \union {at[w]}
  BY DEF L!CallFails, L!Fault, L!NoChange
<1>2. faults' \in 0 .. MaxFaults
  BY DEF LabelInv, L!TypeOK, L!CallFails, L!Fault, L!ConstantsAssumption
<1>3. QED
  BY <1>1, <1>2, CalledInv

LEMMA PanicInv ==
    ASSUME L!ConstantsAssumption, LabelInv, NEW w \in Workers, L!Panic(w)
    PROVE  LabelInv'
<1>1. /\ UNCHANGED <<title, label, events, held, attempts, at, edits, faults, failed>>
      /\ pc' = [pc EXCEPT ![w] = "ok"] /\ pc[w] # "idle"
      /\ panicked' = panicked \union {at[w]}
  BY DEF L!Panic, L!NoChange
<1>2. faults' \in 0 .. MaxFaults
  BY <1>1 DEF LabelInv, L!TypeOK
<1>3. QED
  BY <1>1, <1>2, CalledInv

\* An answer of GitHub is there, or it is lost and that is a fault.
Answered(w, x) ==
    \/ x = "ok" /\ UNCHANGED <<faults, failed>>
    \/ x = "error" /\ L!Fault(at[w])

\* The worker of the last event: its call is the one that the state asks for.
LEMMA LastCall ==
    ASSUME LabelInv, NEW w \in Workers, at[w] = L!Latest
    PROVE  /\ pc[w] = "adding" => title /\ ~label
           /\ pc[w] = "removing" => ~title /\ label
BY DEF LabelInv, CallsAsked, LatestSaysSo, L!Snapshot

\* A call that changes the label: the event of its worker is not the last any more.
LEMMA CallChanges ==
    ASSUME L!ConstantsAssumption, LabelInv, NEW w \in Workers, pc[w] # "idle",
           NEW l \in BOOLEAN, L!Change(title, l), UNCHANGED <<at, edits, panicked>>,
           NEW x \in {"ok", "error"}, pc' = [pc EXCEPT ![w] = x], Answered(w, x)
    PROVE  LabelInv'
<1>1. /\ title \in BOOLEAN /\ edits' \in 0 .. MaxEdits
      /\ pc \in [Workers -> {"idle", "adding", "removing", "ok", "error"}]
      /\ failed \subseteq DOMAIN events /\ at[w] \in DOMAIN events
  BY DEF LabelInv, L!TypeOK, AtWork
<1>2. /\ pc' \in [Workers -> {"idle", "adding", "removing", "ok", "error"}]
      /\ \A v \in Workers : /\ pc'[v] # "idle" => pc[v] # "idle"
                            /\ pc'[v] \in {"adding", "removing"} => pc'[v] = pc[v]
  BY <1>1
<1>3. /\ faults' \in 0 .. MaxFaults
      /\ failed \subseteq failed' /\ failed' \subseteq DOMAIN events
  BY <1>1 DEF Answered, L!Fault, LabelInv, L!TypeOK, L!ConstantsAssumption
<1>4. QED
  BY <1>1, <1>2, <1>3, ChangeInv

LEMMA AddLabelInv ==
    ASSUME L!ConstantsAssumption, LabelInv, NEW w \in Workers, L!AddLabel(w)
    PROVE  LabelInv'
<1>1. PICK x \in {"ok", "error"} : pc' = [pc EXCEPT ![w] = x] /\ Answered(w, x)
  BY DEF L!AddLabel, Answered
<1>2. pc[w] = "adding" /\ UNCHANGED <<at, edits, panicked>>
  BY DEF L!AddLabel
<1>3. CASE label
  <2>1. UNCHANGED <<title, label, events, held, attempts>>
    BY <1>3 DEF L!AddLabel, L!NoChange
  <2>2. at[w] # L!Latest
    BY <1>2, <1>3, LastCall
  <2>3. /\ faults' \in 0 .. MaxFaults
        /\ failed \subseteq failed' /\ failed' \subseteq failed \union {at[w]}
    BY <1>1 DEF Answered, L!Fault, LabelInv, L!TypeOK, L!ConstantsAssumption
  <2>4. QED
    BY <1>1, <1>2, <2>1, <2>2, <2>3, CalledInv
<1>4. CASE ~label
  <2>1. L!Change(title, TRUE)
    BY <1>4 DEF L!AddLabel
  <2>2. QED
    BY <1>1, <1>2, <2>1, CallChanges
<1>5. QED
  BY <1>3, <1>4

LEMMA RemoveLabelInv ==
    ASSUME L!ConstantsAssumption, LabelInv, NEW w \in Workers, L!RemoveLabel(w)
    PROVE  LabelInv'
<1>1. pc[w] = "removing" /\ UNCHANGED <<at, edits, panicked>>
  BY DEF L!RemoveLabel
<1>2. CASE label
  <2>1. PICK x \in {"ok", "error"} : pc' = [pc EXCEPT ![w] = x] /\ Answered(w, x)
    BY <1>2 DEF L!RemoveLabel, Answered
  <2>2. L!Change(title, FALSE)
    BY <1>2 DEF L!RemoveLabel
  <2>3. QED
    BY <1>1, <2>1, <2>2, CallChanges
<1>3. CASE ~label
  <2>1. /\ UNCHANGED <<title, label, events, held, attempts>>
        /\ pc' = [pc EXCEPT ![w] = "error"] /\ UNCHANGED <<faults, failed>>
    BY <1>3 DEF L!RemoveLabel, L!NoChange
  <2>2. at[w] # L!Latest
    BY <1>1, <1>3, LastCall
  <2>3. faults' \in 0 .. MaxFaults
    BY <2>1 DEF LabelInv, L!TypeOK
  <2>4. QED
    BY <1>1, <2>1, <2>2, <2>3, CalledInv
<1>4. QED
  BY <1>2, <1>3

LEMMA AnswerInv ==
    ASSUME L!ConstantsAssumption, LabelInv, NEW w \in Workers, L!Answer(w)
    PROVE  LabelInv'
<1> DEFINE i == at[w]
<1>1. /\ UNCHANGED <<title, label, events, attempts, at, edits, faults, panicked, failed>>
      /\ pc[w] \in {"ok", "error"} /\ pc' = [pc EXCEPT ![w] = "idle"]
      /\ i \in DOMAIN events
  BY DEF L!Answer, LabelInv, AtWork
<1>2. /\ pc' \in [Workers -> {"idle", "adding", "removing", "ok", "error"}]
      /\ \A v \in Workers : pc'[v] # "idle" => at'[v] \in DOMAIN events
      /\ CallsAsked'
      /\ \A v \in Workers : AcceptsDone(v)' /\ RefusesForReason(v)'
  BY <1>1, IdleAgain
<1>3. /\ faults' \in 0 .. MaxFaults /\ attempts' \in [DOMAIN events -> 0 .. MaxAttempts]
      /\ at' \in [Workers -> 0 .. Len(events)]
      /\ held \in [DOMAIN events -> Holder]
  BY <1>1 DEF LabelInv, L!TypeOK, Holder
<1>4. AcceptsDone(w) /\ RefusesForReason(w)
  BY DEF LabelInv
<1>5. CASE held[i] # w
  <2>1. held' = held
    BY <1>5 DEF L!Answer
  <2>2. AtWork' /\ LatestSaysSo'
    BY <1>1, <1>2, <2>1 DEF LabelInv, AtWork, LatestSaysSo, L!Latest
  <2>3. L!TypeOK'
    BY <1>1, <1>2, <1>3, <2>1 DEF LabelInv, L!TypeOK, CallsAsked
  <2>4. L!SomeoneWillFix' /\ L!OnlyStaleDies'
    BY <1>1, <2>1 DEF LabelInv, L!SomeoneWillFix, L!OnlyStaleDies, L!Latest
  <2>5. QED
    BY <1>2, <2>2, <2>3, <2>4 DEF LabelInv
<1>6. CASE held[i] = w /\ pc[w] = "ok"
  <2>1. held' = [held EXCEPT ![i] = "acked"]
    BY <1>6 DEF L!Answer
  <2>2. \A j \in DOMAIN events : held'[j] = "queued" => attempts'[j] < MaxAttempts
    BY <1>1, <1>3, <2>1 DEF LabelInv, AtWork
  <2>3. i # L!Latest \/ label = title \/ i \in panicked
    BY <1>4, <1>6 DEF AcceptsDone
  <2>4. AtWork' /\ "acked" \in Holder
    BY <1>1, <1>2, <2>2 DEF AtWork, Holder
  <2> HIDE DEF i
  <2>5. QED
    BY <1>1, <1>2, <1>3, <2>1, <2>2, <2>3, <2>4, HeldInv
<1>7. CASE held[i] = w /\ pc[w] = "error"
  <2>1. L!GiveBack(i)
    BY <1>7 DEF L!Answer
  <2>2. PICK x \in {"queued", "dead"} :
            /\ held' = [held EXCEPT ![i] = x]
            /\ \A j \in DOMAIN events : held'[j] = "queued" => attempts[j] < MaxAttempts
    BY <1>1, <2>1, GivenBack
  <2>3. i \in failed \/ events[i].kind = "malformed" \/ i # L!Latest
    BY <1>4, <1>7 DEF RefusesForReason
  <2>4. AtWork' /\ x \in Holder
    BY <1>1, <1>2, <2>2 DEF AtWork, Holder
  <2> HIDE DEF i
  <2>5. QED
    BY <1>1, <1>2, <1>3, <2>2, <2>3, <2>4, HeldInv
<1>8. QED
  BY <1>1, <1>5, <1>6, <1>7

\* The subscription starts with the strays and one event that says what is the case.
LEMMA LabelInvInit ==
    ASSUME L!ConstantsAssumption, L!Init
    PROVE  LabelInv
<1> DEFINE strays == [i \in DOMAIN Strays |-> [kind |-> Strays[i], title |-> FALSE, label |-> FALSE]]
           now    == L!Snapshot(title, label)
           n      == Len(Strays)
<1>1. /\ n \in Nat /\ DOMAIN Strays = 1 .. n
      /\ \A i \in 1 .. n : Strays[i] \in {"unhandled", "malformed"}
  BY DEF L!ConstantsAssumption
<1>2. strays \in Seq(Event) /\ Len(strays) = n
  BY <1>1 DEF Event, Kinds
<1>3. title \in BOOLEAN /\ label = FALSE /\ now \in Event /\ events = strays \o <<now>>
  BY DEF L!Init, L!Snapshot, Event, Kinds
<1> HIDE DEF strays, now, n
<1>4. events \in Seq(Event) /\ Len(events) = n + 1 /\ events[n + 1] = now
  BY <1>1, <1>2, <1>3
<1>5. DOMAIN events = 1 .. n + 1
  BY <1>4
<1>6. /\ held = [i \in DOMAIN events |-> "queued"]
      /\ attempts = [i \in DOMAIN events |-> 0]
      /\ pc = [w \in Workers |-> "idle"] /\ at = [w \in Workers |-> 0]
      /\ edits = 0 /\ faults = 0 /\ panicked = {} /\ failed = {}
  BY DEF L!Init
<1>7. L!TypeOK
  <2>1. /\ held \in [DOMAIN events -> Workers \union {"queued", "acked", "dead"}]
        /\ attempts \in [DOMAIN events -> 0 .. MaxAttempts]
        /\ pc \in [Workers -> {"idle", "adding", "removing", "ok", "error"}]
        /\ at \in [Workers -> 0 .. Len(events)]
        /\ edits \in 0 .. MaxEdits /\ faults \in 0 .. MaxFaults
    BY <1>1, <1>4, <1>6 DEF L!ConstantsAssumption
  <2>2. \A w \in Workers : pc[w] = "idle"
    BY <1>6
  <2>3. QED
    BY <1>3, <1>4, <1>6, <2>1, <2>2 DEF L!TypeOK, Event, Kinds
<1>8. AtWork /\ CallsAsked
  BY <1>6 DEF AtWork, CallsAsked, L!ConstantsAssumption
<1>9. LatestSaysSo
  BY <1>1, <1>4 DEF LatestSaysSo, L!Latest, now
<1>10. \A w \in Workers : AcceptsDone(w) /\ RefusesForReason(w)
  BY <1>6 DEF AcceptsDone, RefusesForReason
<1>11. L!SomeoneWillFix /\ L!OnlyStaleDies
  BY <1>1, <1>4, <1>5, <1>6 DEF L!SomeoneWillFix, L!OnlyStaleDies, L!Latest
<1>12. QED
  BY <1>7, <1>8, <1>9, <1>10, <1>11 DEF LabelInv

LEMMA LabelInvNext ==
    ASSUME L!ConstantsAssumption, LabelInv, [L!Next]_(L!vars)
    PROVE  LabelInv'
<1>1. CASE L!Edit
  BY <1>1, EditLabelInv
<1>2. CASE \E i \in DOMAIN events : L!Expire(i)
  BY <1>2, ExpireInv
<1>3. CASE \E w \in Workers : L!Step(w)
  BY <1>3, DeliverInv, AddLabelInv, RemoveLabelInv, AnswerInv DEF L!Step
<1>4. CASE \E w \in Workers : L!CallFails(w)
  BY <1>4, CallFailsInv
<1>5. CASE \E w \in Workers : L!Panic(w)
  BY <1>5, PanicInv
<1>6. CASE \E w \in Workers : L!Crash(w)
  BY <1>6, CrashLabelInv
<1>7. CASE UNCHANGED L!vars
  BY <1>7 DEF L!vars, LabelInv, L!TypeOK, AtWork, LatestSaysSo, CallsAsked, AcceptsDone,
              RefusesForReason, L!SomeoneWillFix, L!OnlyStaleDies, L!Latest
<1>8. QED
  BY <1>1, <1>2, <1>3, <1>4, <1>5, <1>6, <1>7 DEF L!Next

\* For any workers, events, attempts and faults, a label that is not what the title
\* asks for has an event that is still to be accepted, or whose handler panicked;
\* and an event that met with no fault dies only when it is malformed or stale.
THEOREM NoChangeIsMissed ==
    ASSUME L!ConstantsAssumption
    PROVE  L!Spec => []NothingMissed
<1>1. LabelInv => NothingMissed
  BY DEF LabelInv, NothingMissed, L!NothingMissed
<1>2. QED
  BY LabelInvInit, LabelInvNext, <1>1, PTL DEF L!Spec

-----------------------------------------------------------------------------
(***************************************************************************)
(* BotComments: a bot has one comment of its own and changes no other      *)
(***************************************************************************)

Remark == [author : Bots \union {C!People}, bots : SUBSET Bots, live : BOOLEAN]
Places == {"start", "listed", "failed", "done"}

\* What a call has found has a marker, and is no other bot's.
Pointed(c) ==
    target[c] # 0 =>
        /\ comments[target[c]].bots # {}
        /\ comments[target[c]].author \in Bots => comments[target[c]].author = BotOf[c]

\* Where a bot is not excused: one of its calls has listed at a time ...
Listed(b) == {c \in Sets : BotOf[c] = b /\ calls[c] = "listed"}

OneAtATime(b) == \A c, d \in Listed(b) : c = d

\* ... and if that found nothing, there still is no comment of the bot ...
NoneYet(b) == \A c \in Listed(b) : target[c] = 0 => C!Of(b) = {}

\* ... which has no two comments.
NoTwo(b) == \A i, j \in C!Of(b) : i = j

CommentInv == /\ C!TypeOK
              /\ C!NotOfOthers
              /\ \A c \in Sets : calls[c] = "listed" => Pointed(c)
              /\ \A b \in Bots \ excused : OneAtATime(b) /\ NoneYet(b) /\ NoTwo(b)

\* A set of places in the list of comments that is not empty has a first.
LEMMA HasFirst ==
    ASSUME NEW S \in SUBSET Nat, S # {}
    PROVE  \E i \in S : \A j \in S : i <= j
<1> DEFINE R == OpToRel(<, Nat)
<1>1. IsWellFoundedOn(R, Nat)
  BY NatLessThanWellFounded
<1> HIDE DEF R
<1>2. PICK i \in S : \A j \in S : <<j, i>> \notin R
  BY <1>1, WFMin
<1>3. \A j \in S : ~(j < i)
  BY <1>2 DEF R, OpToRel
<1>4. QED
  BY <1>2, <1>3

\* What is found is a comment with the marker; when nothing is, none on the page has it.
LEMMA FoundIsMarked ==
    ASSUME C!TypeOK, NEW b \in Bots
    PROVE  \/ C!Found(b) = 0 /\ \A i \in C!FirstPage : b \notin comments[i].bots
           \/ C!Found(b) \in C!FirstPage /\ b \in comments[C!Found(b)].bots
<1> DEFINE marked == {i \in C!FirstPage : b \in comments[i].bots}
<1>1. marked \subseteq Nat
  BY DEF C!FirstPage, C!Live, C!TypeOK
<1>2. C!Found(b) = IF marked = {} THEN 0 ELSE CHOOSE i \in marked : \A j \in marked : i <= j
  BY DEF C!Found
<1>3. CASE marked = {}
  BY <1>2, <1>3
<1>4. CASE marked # {}
  <2> HIDE DEF marked
  <2>1. \E i \in marked : \A j \in marked : i <= j
    BY <1>1, <1>4, HasFirst
  <2>2. C!Found(b) \in marked
    BY <1>2, <1>4, <2>1
  <2>3. QED
    BY <2>2 DEF marked
<1>5. QED
  BY <1>3, <1>4

-----------------------------------------------------------------------------
\* What each step does with the comments, and that it keeps the invariant.

\* A comment more is the last one, and changes no other.
LEMMA OneMore ==
    ASSUME C!TypeOK, NEW a \in Bots \union {C!People}, NEW bots \in SUBSET Bots,
           comments' = Append(comments, C!Comment(a, bots))
    PROVE  /\ comments' \in Seq(Remark) /\ Len(comments) \in Nat
           /\ DOMAIN comments = 1 .. Len(comments)
           /\ DOMAIN comments' = 1 .. Len(comments) + 1
           /\ Len(comments') = Len(comments) + 1
           /\ comments'[Len(comments) + 1] = C!Comment(a, bots)
           /\ \A i \in DOMAIN comments : comments'[i] = comments[i]
           /\ \A b : b # a => (C!Of(b))' = C!Of(b)
           /\ (C!Of(a))' = C!Of(a) \union {Len(comments) + 1}
<1> DEFINE n == Len(comments)
           m == C!Comment(a, bots)
<1>1. m \in Remark /\ m.author = a /\ m.live = TRUE
  BY DEF C!Comment, Remark
<1>2. comments \in Seq(Remark) /\ n \in Nat /\ DOMAIN comments = 1 .. n
  BY LenProperties DEF C!TypeOK, Remark
<1>3. /\ comments' \in Seq(Remark) /\ Len(comments') = n + 1
      /\ comments'[n + 1] = m
      /\ \A i \in 1 .. n : comments'[i] = comments[i]
  BY <1>1, <1>2, Longer
<1>4. DOMAIN comments' = 1 .. n + 1
  BY <1>3, LenProperties
<1> HIDE DEF n, m
<1>5. ASSUME NEW b
      PROVE  (C!Of(b))' = {i \in DOMAIN comments' : comments'[i].live /\ comments'[i].author = b}
  BY DEF C!Of, C!Live
<1>6. ASSUME NEW b
      PROVE  C!Of(b) = {i \in DOMAIN comments : comments[i].live /\ comments[i].author = b}
  BY DEF C!Of, C!Live
<1>7. ASSUME NEW b, b # a
      PROVE  (C!Of(b))' = C!Of(b)
  <2>1. \A i \in 1 .. n + 1 : comments'[i].author = b => i \in 1 .. n
    BY <1>1, <1>2, <1>3, <1>7
  <2>2. \A i \in 1 .. n : i \in 1 .. n + 1
    BY <1>2
  <2>3. ASSUME NEW i
        PROVE  i \in (C!Of(b))' <=> i \in C!Of(b)
    BY <1>2, <1>3, <1>4, <1>5, <1>6, <2>1, <2>2
  <2>4. QED
    BY <2>3
<1>8. (C!Of(a))' = C!Of(a) \union {n + 1}
  BY <1>1, <1>2, <1>3, <1>4, <1>5, <1>6
<1>9. QED
  BY <1>2, <1>3, <1>4, <1>7, <1>8 DEF n, m

LEMMA SayInv ==
    ASSUME C!ConstantsAssumption, CommentInv, C!Say
    PROVE  CommentInv'
<1>1. PICK bots \in SUBSET Bots : comments' = Append(comments, C!Comment(C!People, bots))
  BY DEF C!Say
<1>2. UNCHANGED <<calls, target, errors, excused>>
  BY DEF C!Say
<1> DEFINE n == Len(comments)
<1>3. /\ comments' \in Seq(Remark) /\ n \in Nat /\ DOMAIN comments = 1 .. n
      /\ DOMAIN comments' = 1 .. n + 1 /\ Len(comments') = n + 1
      /\ comments'[n + 1] = C!Comment(C!People, bots)
      /\ \A i \in DOMAIN comments : comments'[i] = comments[i]
      /\ \A b : b # C!People => (C!Of(b))' = C!Of(b)
  BY <1>1, OneMore DEF CommentInv
<1>4. C!People \notin Bots
  BY DEF C!ConstantsAssumption
<1> HIDE DEF n
<1>5. target \in [C!Calls -> 0 .. n] /\ Sets \subseteq C!Calls
  BY DEF CommentInv, C!TypeOK, C!Calls, n
<1>6. C!TypeOK'
  BY <1>2, <1>3, <1>5 DEF CommentInv, C!TypeOK, Remark, C!Calls
<1>7. C!NotOfOthers'
  BY <1>3, <1>4 DEF CommentInv, C!NotOfOthers, C!Comment
<1>8. ASSUME NEW c \in Sets, calls'[c] = "listed"
      PROVE  Pointed(c)'
  BY <1>2, <1>3, <1>5, <1>8 DEF CommentInv, Pointed
<1>9. ASSUME NEW b \in Bots \ excused'
      PROVE  OneAtATime(b)' /\ NoneYet(b)' /\ NoTwo(b)'
  <2>1. (C!Of(b))' = C!Of(b) /\ Listed(b)' = Listed(b) /\ b \in Bots \ excused
    BY <1>2, <1>3, <1>4 DEF Listed
  <2>2. QED
    BY <1>2, <2>1 DEF CommentInv, OneAtATime, NoneYet, NoTwo
<1>10. QED
  BY <1>6, <1>7, <1>8, <1>9 DEF CommentInv

LEMMA DeleteInv ==
    ASSUME C!ConstantsAssumption, CommentInv, NEW i \in DOMAIN comments, C!Delete(i)
    PROVE  CommentInv'
<1>1. /\ comments' = [comments EXCEPT ![i].live = FALSE]
      /\ UNCHANGED <<calls, target, errors, excused>>
  BY DEF C!Delete
<1>2. comments \in Seq(Remark)
  BY DEF CommentInv, C!TypeOK, Remark
<1>3. /\ comments' \in Seq(Remark) /\ DOMAIN comments' = DOMAIN comments
      /\ Len(comments') = Len(comments)
      /\ \A j \in DOMAIN comments : /\ comments'[j].author = comments[j].author
                                    /\ comments'[j].bots = comments[j].bots
                                    /\ comments'[j].live => comments[j].live
  <2>1. comments[i] \in Remark
    BY <1>2
  <2>2. [comments[i] EXCEPT !.live = FALSE] \in Remark
    BY <2>1 DEF Remark
  <2>3. comments' = [comments EXCEPT ![i] = [comments[i] EXCEPT !.live = FALSE]]
    BY <1>1
  <2>4. comments' \in Seq(Remark) /\ Len(comments') = Len(comments)
    BY <1>2, <2>2, <2>3, ExceptSeq
  <2>5. QED
    BY <1>1, <1>2, <2>1, <2>4 DEF Remark
<1>4. target \in [C!Calls -> 0 .. Len(comments)] /\ Sets \subseteq C!Calls
      /\ DOMAIN comments = 1 .. Len(comments)
  BY <1>2, LenProperties DEF CommentInv, C!TypeOK, C!Calls
<1>5. C!TypeOK'
  BY <1>1, <1>3 DEF CommentInv, C!TypeOK, Remark, C!Calls
<1>6. C!NotOfOthers'
  BY <1>3 DEF CommentInv, C!NotOfOthers
<1>7. ASSUME NEW c \in Sets, calls'[c] = "listed"
      PROVE  Pointed(c)'
  BY <1>1, <1>3, <1>4, <1>7 DEF CommentInv, Pointed
<1>8. ASSUME NEW b \in Bots \ excused'
      PROVE  OneAtATime(b)' /\ NoneYet(b)' /\ NoTwo(b)'
  <2>1. (C!Of(b))' \subseteq C!Of(b)
    BY <1>3 DEF C!Of, C!Live
  <2>2. Listed(b)' = Listed(b) /\ b \in Bots \ excused
    BY <1>1 DEF Listed
  <2>3. QED
    BY <1>1, <2>1, <2>2 DEF CommentInv, OneAtATime, NoneYet, NoTwo
<1>9. QED
  BY <1>5, <1>6, <1>7, <1>8 DEF CommentInv

\* A step that changes no comment, and after which no call has listed that had not.
LEMMA NoneListed ==
    ASSUME CommentInv, NEW c \in C!Calls, UNCHANGED <<comments, target, excused>>,
           NEW x \in {"start", "failed"}, calls' = [calls EXCEPT ![c] = x],
           errors' \in 0 .. MaxFaults
    PROVE  CommentInv'
<1>1. calls \in [C!Calls -> Places] /\ Sets \subseteq C!Calls /\ Adds \subseteq C!Calls
  BY DEF CommentInv, C!TypeOK, Places, C!Calls
<1>2. /\ calls' \in [C!Calls -> Places]
      /\ \A d \in C!Calls : calls'[d] = "listed" => calls[d] = "listed"
  BY <1>1 DEF Places
<1>3. C!TypeOK'
  BY <1>1, <1>2 DEF CommentInv, C!TypeOK, Places
<1>4. C!NotOfOthers' /\ \A d \in Sets : calls'[d] = "listed" => Pointed(d)'
  BY <1>1, <1>2 DEF CommentInv, C!NotOfOthers, Pointed
<1>5. ASSUME NEW b \in Bots \ excused'
      PROVE  OneAtATime(b)' /\ NoneYet(b)' /\ NoTwo(b)'
  <2>1. (C!Of(b))' = C!Of(b) /\ Listed(b)' \subseteq Listed(b)
    BY <1>1, <1>2 DEF C!Of, C!Live, Listed
  <2>2. QED
    BY <2>1 DEF CommentInv, OneAtATime, NoneYet, NoTwo
<1>6. QED
  BY <1>3, <1>4, <1>5 DEF CommentInv

LEMMA CallFailsCommentInv ==
    ASSUME C!ConstantsAssumption, CommentInv, NEW c \in C!Calls, C!CallFails(c)
    PROVE  CommentInv'
<1>1. UNCHANGED <<comments, target, excused>> /\ calls' = [calls EXCEPT ![c] = "failed"]
  BY DEF C!CallFails
<1>2. errors' \in 0 .. MaxFaults
  BY DEF C!CallFails, C!Fault, CommentInv, C!TypeOK, C!ConstantsAssumption
<1>3. QED
  BY <1>1, <1>2, NoneListed

LEMMA RetryInv ==
    ASSUME C!ConstantsAssumption, CommentInv, NEW c \in C!Calls, C!Retry(c)
    PROVE  CommentInv'
<1>1. UNCHANGED <<comments, target, excused>> /\ calls' = [calls EXCEPT ![c] = "start"]
  BY DEF C!Retry
<1>2. errors' \in 0 .. MaxFaults
  BY DEF C!Retry, CommentInv, C!TypeOK
<1>3. QED
  BY <1>1, <1>2, NoneListed

\* A call that lists while another of its bot has, or sees not all there is, excuses
\* its bot; else what it found is all there was to find.
LEMMA ListInv ==
    ASSUME C!ConstantsAssumption, CommentInv, NEW c \in C!Calls, C!List(c)
    PROVE  CommentInv'
<1> DEFINE b == BotOf[c]
           f == C!Found(b)
<1>1. /\ c \in Sets /\ calls[c] = "start"
      /\ calls' = [calls EXCEPT ![c] = "listed"] /\ target' = [target EXCEPT ![c] = f]
      /\ UNCHANGED <<comments, errors>>
      /\ excused \subseteq excused' /\ excused' \subseteq excused \union {b}
      /\ b \notin excused' => /\ C!FirstPage = C!Live
                              /\ \A d \in Sets \ {c} : BotOf[d] = b => calls[d] # "listed"
  BY DEF C!List
<1>2. /\ b \in Bots /\ Sets \subseteq C!Calls /\ c \notin Adds
  BY <1>1 DEF C!ConstantsAssumption, C!Calls
<1>3. /\ calls \in [C!Calls -> Places] /\ target \in [C!Calls -> 0 .. Len(comments)]
      /\ comments \in Seq(Remark) /\ DOMAIN comments = 1 .. Len(comments) /\ Len(comments) \in Nat
  BY LenProperties DEF CommentInv, C!TypeOK, Places, Remark
<1>4. \/ f = 0 /\ \A i \in C!FirstPage : b \notin comments[i].bots
      \/ f \in C!FirstPage /\ b \in comments[f].bots
  BY <1>2, FoundIsMarked DEF CommentInv
<1>5. C!FirstPage \subseteq C!Live /\ C!Live \subseteq DOMAIN comments
  BY DEF C!FirstPage, C!Live
<1> HIDE DEF b, f
<1>6. f \in 0 .. Len(comments)
  BY <1>3, <1>4, <1>5
<1>7. /\ calls' \in [C!Calls -> Places] /\ target' \in [C!Calls -> 0 .. Len(comments)]
      /\ calls'[c] = "listed" /\ target'[c] = f
      /\ \A d \in C!Calls \ {c} : calls'[d] = calls[d] /\ target'[d] = target[d]
  BY <1>1, <1>3, <1>6 DEF Places
<1>8. C!TypeOK'
  BY <1>1, <1>2, <1>7 DEF CommentInv, C!TypeOK, Places, C!Calls
<1>9. C!NotOfOthers'
  BY <1>1 DEF CommentInv, C!NotOfOthers
<1>10. ASSUME NEW d \in Sets, calls'[d] = "listed"
       PROVE  Pointed(d)'
  <2>1. CASE d = c
    <3>1. f # 0 => f \in DOMAIN comments /\ b \in comments[f].bots
      BY <1>3, <1>4, <1>5
    <3>2. f # 0 /\ comments[f].author \in Bots => comments[f].author = b
      BY <3>1 DEF CommentInv, C!NotOfOthers
    <3>3. target'[d] = f /\ comments' = comments /\ b = BotOf[d]
      BY <1>1, <1>7, <2>1 DEF b
    <3>4. QED
      BY <3>1, <3>2, <3>3 DEF Pointed
  <2>2. CASE d # c
    BY <1>1, <1>2, <1>7, <1>10, <2>2 DEF CommentInv, Pointed
  <2>3. QED
    BY <2>1, <2>2
<1>11. ASSUME NEW a \in Bots \ excused'
       PROVE  OneAtATime(a)' /\ NoneYet(a)' /\ NoTwo(a)'
  <2>1. (C!Of(a))' = C!Of(a) /\ a \in Bots \ excused
    BY <1>1 DEF C!Of, C!Live
  <2>2. OneAtATime(a) /\ NoneYet(a) /\ NoTwo(a)
    BY <2>1 DEF CommentInv
  <2>3. CASE a # b
    <3>1. Listed(a)' = Listed(a) /\ c \notin Listed(a)
      BY <1>1, <1>2, <1>7, <2>3 DEF Listed, b
    <3>2. \A d \in Listed(a) : d \in C!Calls \ {c}
      BY <1>2, <3>1 DEF Listed
    <3>3. QED
      BY <1>7, <2>1, <2>2, <3>1, <3>2 DEF OneAtATime, NoneYet, NoTwo
  <2>4. CASE a = b
    <3>1. C!FirstPage = C!Live /\ \A d \in Sets \ {c} : BotOf[d] = b => calls[d] # "listed"
      BY <1>1, <2>4
    <3>2. Listed(a)' \subseteq {c}
      BY <1>2, <1>7, <2>4, <3>1 DEF Listed
    <3>3. f = 0 => C!Of(a) = {}
      <4>1. \A i \in C!Of(a) : i \in C!Live /\ i \in DOMAIN comments /\ comments[i].author = a
        BY DEF C!Of, C!Live
      <4>2. \A i \in C!Of(a) : a \in comments[i].bots
        BY <4>1 DEF CommentInv, C!NotOfOthers
      <4>3. 0 \notin C!FirstPage
        BY <1>3, <1>5
      <4>4. QED
        BY <1>4, <2>4, <3>1, <4>1, <4>2, <4>3
    <3>4. QED
      BY <1>7, <2>1, <2>2, <3>2, <3>3 DEF OneAtATime, NoneYet, NoTwo
  <2>5. QED
    BY <2>3, <2>4
<1>12. QED
  BY <1>8, <1>9, <1>10, <1>11 DEF CommentInv

\* The comment that is edited keeps its author, who is the bot if it is any.
LEMMA EditCommentInv ==
    ASSUME C!ConstantsAssumption, CommentInv, NEW c \in C!Calls, C!EditComment(c)
    PROVE  CommentInv'
<1> DEFINE b == BotOf[c]
           k == target[c]
<1>1. /\ calls[c] = "listed" /\ k # 0 /\ UNCHANGED <<target, excused>>
      /\ b \in Bots /\ calls \in [C!Calls -> Places]
      /\ target \in [C!Calls -> 0 .. Len(comments)]
      /\ comments \in Seq(Remark) /\ DOMAIN comments = 1 .. Len(comments) /\ Len(comments) \in Nat
  BY LenProperties DEF C!EditComment, C!ConstantsAssumption, CommentInv, C!TypeOK, Places,
                       Remark, C!Calls
<1>2. c \in Sets /\ Pointed(c) /\ Sets \subseteq C!Calls
  BY <1>1 DEF CommentInv, C!TypeOK, C!Calls
<1>3. CASE k \notin C!Live
  <2>1. /\ calls' = [calls EXCEPT ![c] = "failed"] /\ UNCHANGED <<comments, errors>>
    BY <1>3 DEF C!EditComment
  <2>2. errors' \in 0 .. MaxFaults
    BY <2>1 DEF CommentInv, C!TypeOK
  <2>3. QED
    BY <1>1, <2>1, <2>2, NoneListed
<1>4. CASE k \in C!Live
  <2>1. comments' = [comments EXCEPT ![k].bots = {b}] /\ C!Done(c)
    BY <1>4 DEF C!EditComment
  <2>2. PICK x \in {"done", "failed"} : calls' = [calls EXCEPT ![c] = x]
    BY <2>1 DEF C!Done
  <2>3. errors' \in 0 .. MaxFaults
    BY <2>1 DEF C!Done, C!Fault, CommentInv, C!TypeOK, C!ConstantsAssumption
  <2>4. k \in 1 .. Len(comments) /\ comments[k] \in Remark
    BY <1>1, <1>4, ElementOfSeq DEF C!Live
  <2> HIDE DEF b, k
  <2>5. /\ comments' \in Seq(Remark) /\ Len(comments') = Len(comments)
        /\ DOMAIN comments' = DOMAIN comments
        /\ \A j \in DOMAIN comments : /\ comments'[j].author = comments[j].author
                                      /\ comments'[j].live = comments[j].live
                                      /\ comments'[j].bots = IF j = k THEN {b} ELSE comments[j].bots
    <3> DEFINE m == [comments[k] EXCEPT !.bots = {b}]
    <3>1. /\ m \in Remark /\ m.author = comments[k].author /\ m.live = comments[k].live
          /\ m.bots = {b}
      BY <1>1, <2>4 DEF Remark
    <3>2. comments' = [comments EXCEPT ![k] = m]
      BY <2>1
    <3> HIDE DEF m
    <3>3. /\ comments' \in Seq(Remark) /\ Len(comments') = Len(comments)
          /\ \A j \in 1 .. Len(comments) : comments'[j] = IF j = k THEN m ELSE comments[j]
      BY <1>1, <2>4, <3>1, <3>2, ExceptSeq
    <3>4. DOMAIN comments' = DOMAIN comments
      BY <1>1, <3>3, LenProperties
    <3>5. QED
      BY <1>1, <3>1, <3>3, <3>4
  <2>6. /\ calls' \in [C!Calls -> Places]
        /\ \A d \in C!Calls : calls'[d] = "listed" => calls[d] = "listed"
    BY <1>1, <2>2 DEF Places
  <2>7. comments[k].author \in Bots => comments[k].author = b
    BY <1>1, <1>2 DEF Pointed, k, b
  <2>8. C!TypeOK'
    BY <1>1, <2>3, <2>5, <2>6 DEF CommentInv, C!TypeOK, Places, Remark, C!Calls
  <2>9. C!NotOfOthers'
    BY <2>5, <2>7 DEF CommentInv, C!NotOfOthers
  <2>10. ASSUME NEW d \in Sets, calls'[d] = "listed"
         PROVE  Pointed(d)'
    <3>1. Pointed(d) /\ target'[d] = target[d] /\ target[d] \in 0 .. Len(comments)
      BY <1>1, <1>2, <2>6, <2>10 DEF CommentInv
    <3>2. target[d] # 0 => target[d] \in DOMAIN comments
      BY <1>1, <3>1
    <3>3. QED
      BY <2>5, <3>1, <3>2 DEF Pointed
  <2>11. ASSUME NEW a \in Bots \ excused'
         PROVE  OneAtATime(a)' /\ NoneYet(a)' /\ NoTwo(a)'
    <3>1. (C!Of(a))' = C!Of(a)
      BY <2>5 DEF C!Of, C!Live
    <3>2. Listed(a)' \subseteq Listed(a)
      BY <1>2, <2>6 DEF Listed
    <3>3. QED
      BY <1>1, <3>1, <3>2 DEF CommentInv, OneAtATime, NoneYet, NoTwo
  <2>12. QED
    BY <2>8, <2>9, <2>10, <2>11 DEF CommentInv
<1>5. QED
  BY <1>3, <1>4

\* A call of SetComment that creates a comment is the only one of its bot that has
\* listed, and there is no comment of the bot yet; else its bot is excused.
LEMMA CreateCommentInv ==
    ASSUME C!ConstantsAssumption, CommentInv, NEW c \in C!Calls, C!CreateComment(c)
    PROVE  CommentInv'
<1> DEFINE b == BotOf[c]
           n == Len(comments)
<1>1. /\ comments' = Append(comments, C!Comment(b, {b})) /\ C!Done(c)
      /\ UNCHANGED target /\ excused \subseteq excused' /\ excused' \subseteq excused \union {b}
      /\ b \notin excused' => c \in Sets /\ calls[c] = "listed" /\ target[c] = 0 /\ calls'[c] # "failed"
  BY DEF C!CreateComment, C!Calls
<1>2. /\ b \in Bots /\ Sets \subseteq C!Calls
      /\ calls \in [C!Calls -> Places] /\ target \in [C!Calls -> 0 .. n]
  BY DEF C!ConstantsAssumption, C!Calls, CommentInv, C!TypeOK, Places
<1>3. PICK x \in {"done", "failed"} : calls' = [calls EXCEPT ![c] = x]
  BY <1>1 DEF C!Done
<1>4. errors' \in 0 .. MaxFaults
  BY <1>1 DEF C!Done, C!Fault, CommentInv, C!TypeOK, C!ConstantsAssumption
<1> HIDE DEF b, n
<1>5. /\ comments' \in Seq(Remark) /\ n \in Nat /\ DOMAIN comments = 1 .. n
      /\ DOMAIN comments' = 1 .. n + 1 /\ Len(comments') = n + 1
      /\ comments'[n + 1] = C!Comment(b, {b})
      /\ \A i \in DOMAIN comments : comments'[i] = comments[i]
      /\ \A a : a # b => (C!Of(a))' = C!Of(a)
      /\ (C!Of(b))' = C!Of(b) \union {n + 1}
  BY <1>1, <1>2, OneMore DEF CommentInv, n
<1>6. /\ calls' \in [C!Calls -> Places] /\ calls'[c] = x
      /\ \A d \in C!Calls : calls'[d] = "listed" => calls[d] = "listed" /\ d # c
  BY <1>2, <1>3 DEF Places
<1>7. C!TypeOK'
  <2>1. \A d \in Adds : calls'[d] # "listed" /\ target'[d] = 0
    BY <1>1, <1>6 DEF CommentInv, C!TypeOK, C!Calls
  <2>2. target' \in [C!Calls -> 0 .. n + 1] /\ excused' \subseteq Bots
    BY <1>1, <1>2, <1>5 DEF CommentInv, C!TypeOK
  <2>3. QED
    BY <1>4, <1>5, <1>6, <2>1, <2>2 DEF C!TypeOK, Places, Remark
<1>8. C!NotOfOthers'
  <2>1. comments'[n + 1].author = b /\ comments'[n + 1].bots = {b}
    BY <1>5 DEF C!Comment
  <2>2. \A i \in 1 .. n + 1 : i \in 1 .. n \/ i = n + 1
    BY <1>5
  <2>3. QED
    BY <1>5, <2>1, <2>2 DEF CommentInv, C!NotOfOthers
<1>9. ASSUME NEW d \in Sets, calls'[d] = "listed"
      PROVE  Pointed(d)'
  <2>1. Pointed(d) /\ target'[d] = target[d] /\ target[d] \in 0 .. n
    BY <1>1, <1>2, <1>6, <1>9 DEF CommentInv
  <2>2. target[d] # 0 => target[d] \in DOMAIN comments
    BY <1>5, <2>1
  <2>3. QED
    BY <1>5, <2>1, <2>2 DEF Pointed
<1>10. ASSUME NEW a \in Bots \ excused'
       PROVE  OneAtATime(a)' /\ NoneYet(a)' /\ NoTwo(a)'
  <2>1. OneAtATime(a) /\ NoneYet(a) /\ NoTwo(a)
    BY <1>1, <1>10 DEF CommentInv
  <2>2. Listed(a)' \subseteq Listed(a)
    BY <1>2, <1>6 DEF Listed
  <2>3. CASE a # b
    BY <1>1, <1>5, <2>1, <2>2, <2>3 DEF OneAtATime, NoneYet, NoTwo
  <2>4. CASE a = b
    <3>1. c \in Listed(a) /\ target[c] = 0
      BY <1>1, <2>4 DEF Listed, b
    <3>2. C!Of(a) = {} /\ \A d \in Listed(a) : d = c
      BY <2>1, <3>1 DEF OneAtATime, NoneYet
    <3>3. Listed(a)' = {}
      BY <1>2, <1>6, <2>2, <3>2 DEF Listed
    <3>4. QED
      BY <1>5, <2>4, <3>2, <3>3 DEF OneAtATime, NoneYet, NoTwo
  <2>5. QED
    BY <2>3, <2>4
<1>11. QED
  BY <1>7, <1>8, <1>9, <1>10 DEF CommentInv

LEMMA CommentInvInit ==
    ASSUME C!ConstantsAssumption, C!Init
    PROVE  CommentInv
<1>1. /\ comments = << >> /\ calls = [c \in C!Calls |-> "start"]
      /\ target = [c \in C!Calls |-> 0] /\ errors = 0 /\ excused = {}
  BY DEF C!Init
<1>2. Sets \subseteq C!Calls /\ Adds \subseteq C!Calls
  BY DEF C!Calls
<1>3. DOMAIN comments = {} /\ Len(comments) = 0 /\ comments \in Seq(Remark)
  BY <1>1
<1>4. C!TypeOK
  BY <1>1, <1>2, <1>3 DEF C!TypeOK, C!ConstantsAssumption, Remark
<1>5. C!NotOfOthers /\ \A c \in Sets : calls[c] # "listed"
  BY <1>1, <1>2, <1>3 DEF C!NotOfOthers
<1>6. \A b : Listed(b) = {} /\ C!Of(b) = {}
  BY <1>3, <1>5 DEF Listed, C!Of, C!Live
<1>7. QED
  BY <1>4, <1>5, <1>6 DEF CommentInv, OneAtATime, NoneYet, NoTwo

LEMMA CommentInvNext ==
    ASSUME C!ConstantsAssumption, CommentInv, [C!Next]_(C!vars)
    PROVE  CommentInv'
<1>1. CASE C!Say
  BY <1>1, SayInv
<1>2. CASE \E i \in DOMAIN comments : C!Delete(i)
  BY <1>2, DeleteInv
<1>3. CASE \E c \in C!Calls : C!List(c)
  BY <1>3, ListInv
<1>4. CASE \E c \in C!Calls : C!EditComment(c)
  BY <1>4, EditCommentInv
<1>5. CASE \E c \in C!Calls : C!CreateComment(c)
  BY <1>5, CreateCommentInv
<1>6. CASE \E c \in C!Calls : C!Retry(c) \/ C!CallFails(c)
  BY <1>6, RetryInv, CallFailsCommentInv
<1>7. CASE UNCHANGED C!vars
  <2>1. UNCHANGED <<comments, calls, target, errors, excused>>
    BY <1>7 DEF C!vars
  <2>2. \A b : (C!Of(b))' = C!Of(b) /\ Listed(b)' = Listed(b)
    BY <2>1 DEF C!Of, C!Live, Listed
  <2>3. QED
    BY <2>1, <2>2 DEF CommentInv, C!TypeOK, C!NotOfOthers, Pointed, OneAtATime, NoneYet, NoTwo
<1>8. QED
  BY <1>1, <1>2, <1>3, <1>4, <1>5, <1>6, <1>7 DEF C!Next

\* For any bots, calls, people and faults, a bot that is not excused has at most one
\* comment, and the comment of a bot keeps the marker of that bot and no other.
THEOREM OneCommentPerBot ==
    ASSUME C!ConstantsAssumption
    PROVE  C!Spec => []OneOfItsOwn
<1>1. CommentInv => OneOfItsOwn
  <2>1. ASSUME CommentInv, NEW b \in Bots \ excused
        PROVE  Cardinality(C!Of(b)) <= 1
    <3> DEFINE own == C!Of(b)
    <3>1. NoTwo(b)
      BY <2>1 DEF CommentInv
    <3>2. own = {} \/ \E i : own = {i}
      BY <3>1 DEF NoTwo
    <3> HIDE DEF own
    <3>3. Cardinality(own) = 0 \/ Cardinality(own) = 1
      BY <3>2, FS_EmptySet, FS_Singleton
    <3>4. QED
      BY <3>3 DEF own
  <2>2. CommentInv => C!OneComment
    BY <2>1 DEF C!OneComment, C!Cardinality, Cardinality
  <2>3. QED
    BY <2>2 DEF CommentInv, OneOfItsOwn, C!OneOfItsOwn
<1>2. QED
  BY CommentInvInit, CommentInvNext, <1>1, PTL DEF C!Spec

\* No step of any call puts a marker in a comment that had none.
THEOREM NoMarkerForPeople ==
    ASSUME C!ConstantsAssumption
    PROVE  C!Spec => PeopleAreLeftAlone
<1>1. ASSUME CommentInv, [C!Next]_(C!vars)
      PROVE  [C!LeaveAlone]_comments
  <2>1. comments \in Seq(Remark) /\ DOMAIN comments = 1 .. Len(comments) /\ Len(comments) \in Nat
    BY <1>1, LenProperties DEF CommentInv, C!TypeOK, Remark
  <2>2. CASE C!Say
    BY <1>1, <2>2, OneMore DEF C!Say, CommentInv, C!LeaveAlone
  <2>3. CASE \E i \in DOMAIN comments : C!Delete(i)
    BY <2>1, <2>3 DEF C!Delete, C!LeaveAlone, Remark
  <2>4. CASE \E c \in C!Calls : C!EditComment(c)
    <3>1. PICK c \in C!Calls : C!EditComment(c)
      BY <2>4
    <3>2. c \in Sets /\ calls[c] = "listed" /\ target[c] # 0
      BY <1>1, <3>1 DEF C!EditComment, CommentInv, C!TypeOK, C!Calls
    <3>3. comments[target[c]].bots # {}
      BY <1>1, <3>2 DEF CommentInv, Pointed
    <3>4. \/ comments' = comments
          \/ comments' = [comments EXCEPT ![target[c]].bots = {BotOf[c]}]
      BY <3>1 DEF C!EditComment
    <3>5. \A j \in DOMAIN comments : j # target[c] => comments'[j] = comments[j]
      BY <2>1, <3>4
    <3>6. QED
      BY <3>3, <3>5 DEF C!LeaveAlone
  <2>5. CASE \E c \in C!Calls : C!CreateComment(c)
    <3>1. PICK c \in C!Calls : comments' = Append(comments, C!Comment(BotOf[c], {BotOf[c]}))
      BY <2>5 DEF C!CreateComment
    <3>2. BotOf[c] \in Bots
      BY DEF C!ConstantsAssumption, C!Calls
    <3>3. QED
      BY <1>1, <3>1, <3>2, OneMore DEF CommentInv, C!LeaveAlone
  <2>6. CASE UNCHANGED comments
    BY <2>6
  <2>7. QED
    BY <1>1, <2>2, <2>3, <2>4, <2>5, <2>6
       DEF C!Next, C!vars, C!List, C!Retry, C!CallFails
<1>2. QED
  BY CommentInvInit, CommentInvNext, <1>1, PTL DEF C!Spec, PeopleAreLeftAlone, C!PeopleAreLeftAlone

-----------------------------------------------------------------------------
(***************************************************************************)
(* The types of all three                                                  *)
(***************************************************************************)

\* The text and what was written are bytes because the text is whole.
LEMMA BuilderTypes ==
    ASSUME ConstantsAssumption
    PROVE  Spec => []TypeOK
<1>1. Init => TypeOK
  BY DEF Init, TypeOK, ConstantsAssumption
<1>2. TypeOK /\ TextInv' /\ [Next]_vars => TypeOK'
  <2> SUFFICES ASSUME TypeOK, TextInv', [Next]_vars
               PROVE  TypeOK'
    OBVIOUS
  <2>1. CASE \E piece \in Pieces : Writef(piece)
    BY <2>1 DEF Writef, TypeOK, TextInv, ConstantsAssumption
  <2>2. CASE Set
    BY <2>2 DEF Set, TypeOK
  <2>3. CASE CheckRun
    BY <2>3 DEF CheckRun, TypeOK, ConstantsAssumption
  <2>4. CASE UNCHANGED vars
    BY <2>4 DEF vars, TypeOK
  <2>5. QED
    BY <2>1, <2>2, <2>3, <2>4 DEF Next
<1>3. QED
  BY <1>1, <1>2, TextInvInit, TextInvNext, PTL DEF Spec

\* For every value of the constants each of the three keeps its types: a worker calls
\* GitHub only for an event that says the label is to change, only SetComment lists
\* comments, and what GitHub is sent has a title.
THEOREM SdkTypes ==
    ASSUME ConstantsAssumption, L!ConstantsAssumption, C!ConstantsAssumption
    PROVE  Spec /\ L!Spec /\ C!Spec => []SdkTypeOK
<1>1. LabelInv /\ CommentInv /\ TypeOK => SdkTypeOK
  BY DEF LabelInv, CommentInv, SdkTypeOK
<1>2. QED
  BY BuilderTypes, LabelInvInit, LabelInvNext, CommentInvInit, CommentInvNext, <1>1, PTL
     DEF L!Spec, C!Spec

=============================================================================
