------------------------ MODULE RecorderPipelineProofs ------------------------
(***************************************************************************)
(* Proofs about the recorder and the uploader, for any events, directories,*)
(* pushes and faults.                                                      *)
(***************************************************************************)
EXTENDS RecorderPipeline, FiniteSetTheorems, TLAPS

\* The events that the promises are about.
Clean == Events \ contested

\* A handler has written the event's file and not acknowledged it yet.
Written(e) == \E h \in Pushes : h[1] = e /\ hpc[h] = "written"

\* What some handler takes for stored safely.
Trusted(e) == e \in acked \intersect Recordable \/ Written(e)

\* The event is in an object that nobody will write again: the one of cur is
\* replaced by what the open writer has.
Filed(e) == \/ e \in archive
            \/ \E d \in Dirs : e \in objects[d] /\ ~(upc = "copy" /\ d = cur)

\* Where the uploader is says what is left to do.
Phases == /\ upc \in {"idle", "walk", "exited"} => todo = {}
          /\ upc \in {"copy", "remove"} => todo \subseteq HeldIn(cur) /\ toWalk = {}
          /\ upc = "remove" => HeldIn(cur) \subseteq todo
          /\ upc = "exited" => final /\ toWalk = {} /\ held = {}

\* Observe saw every event that is contended for.
Watched == \A e \in Events : Contended(e) => e \in contested

\* Nobody has removed the file that an uncontested event is written to.
Linked == \A h \in Pushes : h[1] \in Clean /\ hpc[h] = "writing" => h \in linked

\* A trusted event is on the volume, whole, or filed.
Safe == \A e \in Clean : Trusted(e) => files[e] = "whole" \/ Filed(e)

\* A directory whose object is there has no files left to upload, but for the
\* one that is at work: no object is replaced by one without its events.
Fresh == upc \in {"walk", "copy", "remove"} =>
             \A d \in Dirs : objects[d] # {} =>
                 toWalk = {} /\ (HeldIn(d) = {} \/ (d = cur /\ upc # "walk"))

\* A whole file that has been copied is with the writer.
Copied == upc = "copy" =>
              \A e \in Clean \intersect (HeldIn(cur) \ todo) : files[e] = "whole" => e \in buf

\* A whole file that is to be removed is in the object.
Uploaded == upc = "remove" =>
                \A e \in Clean \intersect todo : files[e] = "whole" => e \in objects[cur]

\* What the last flush found in a directory it holds until it is uploaded.
Listed == final /\ upc \in {"walk", "copy", "remove", "exited"} =>
              \A e \in Clean \ late : files[e] = "whole" /\ DirOf[e] \notin toWalk =>
                  e \in held \/ (upc = "remove" /\ deleteErr)

Inv == /\ TypeOK
       /\ Phases
       /\ Watched
       /\ Linked
       /\ Safe
       /\ Fresh
       /\ Copied
       /\ Uploaded
       /\ Listed

-----------------------------------------------------------------------------
(***************************************************************************)
(* Pushes and who contends for an event                                    *)
(***************************************************************************)

\* A push is of an event.
LEMMA PushOf ==
    ASSUME NEW h \in Pushes
    PROVE  h[1] \in Events /\ h \in {h[1]} \X (1 .. Deliveries[h[1]])
BY DEF Pushes

\* The pushes of an event are finitely many, so two of them count as two.
LEMMA TwoAreMore ==
    ASSUME ConstantsAssumption, NEW e \in Events,
           NEW A, A \subseteq {h \in Pushes : h[1] = e},
           NEW g \in A, NEW h \in A, g # h
    PROVE  Cardinality(A) > 1
<1>1. IsFiniteSet({e} \X (1 .. Deliveries[e]))
  <2>1. IsFiniteSet({e})
    BY FS_Singleton
  <2>2. Deliveries[e] \in Int
    BY DEF ConstantsAssumption
  <2>3. IsFiniteSet(1 .. Deliveries[e])
    BY <2>2, FS_Interval
  <2>4. QED
    BY <2>1, <2>3, FS_Product
<1>2. A \in SUBSET ({e} \X (1 .. Deliveries[e]))
  BY PushOf
<1>3. IsFiniteSet(A)
  BY <1>1, <1>2, FS_Subset
<1>4. IsFiniteSet({g}) /\ Cardinality({g}) = 1
  BY FS_Singleton
<1>5. Cardinality({g} \union {h}) = 2
  <2>1. h \notin {g}
    OBVIOUS
  <2>2. Cardinality({g} \union {h}) = IF h \in {g} THEN Cardinality({g}) ELSE Cardinality({g}) + 1
    BY <1>4, FS_AddElement
  <2>3. QED
    BY <1>4, <2>1, <2>2
<1>6. {g} \union {h} \in SUBSET A
  OBVIOUS
<1>7. Cardinality({g} \union {h}) <= Cardinality(A)
  BY <1>3, <1>6, FS_Subset
<1>8. Cardinality(A) \in Nat
  BY <1>3, FS_CardinalityType
<1>9. QED
  BY <1>5, <1>7, <1>8

\* The handler at work on an uncontested event is the only one, the event is
\* not acknowledged, and it is not written while the uploader has it listed.
LEMMA Alone ==
    ASSUME ConstantsAssumption, Watched, NEW h \in Pushes,
           h[1] \in Clean, hpc[h] \notin {"unsent", "done"}
    PROVE  /\ \A g \in Pushes : g[1] = h[1] /\ hpc[g] \notin {"unsent", "done"} => g = h
           /\ h[1] \notin acked
           /\ hpc[h] = "writing" => h[1] \notin held
<1> DEFINE e == h[1]
<1>1. e \in Events /\ ~Contended(e)
  BY DEF Watched, Clean
<1>2. h \in Active(e)
  BY DEF Active
<1>3. Cardinality(Active(e)) > 1 => Contended(e)
  BY DEF Contended
<1>4. ASSUME NEW g \in Pushes, g[1] = e, hpc[g] \notin {"unsent", "done"}, g # h
      PROVE  FALSE
  <2>1. g \in Active(e) /\ Active(e) \subseteq {x \in Pushes : x[1] = e}
    BY <1>4 DEF Active
  <2>2. Cardinality(Active(e)) > 1
    BY <1>1, <1>2, <1>4, <2>1, TwoAreMore
  <2>3. QED
    BY <1>1, <1>3, <2>2
<1>5. e \notin acked
  BY <1>1, <1>2 DEF Contended
<1>6. hpc[h] = "writing" => e \notin held
  BY <1>1, <1>2 DEF Contended
<1>7. QED
  BY <1>4, <1>5, <1>6

\* What is contested or late stays so, and who is contended for is contested.
LEMMA Observed ==
    ASSUME TypeOK, Observe
    PROVE  /\ Watched'
           /\ Clean' \subseteq Clean
           /\ contested' \subseteq Events
           /\ late \subseteq late' /\ late' \subseteq Events
           /\ \A e \in Events : files[e] # "whole" /\ files'[e] = "whole" /\ final
                                /\ DirOf[e] \notin toWalk => e \in late'
<1>1. Watched'
  BY DEF Observe, Watched
<1>2. QED
  BY <1>1 DEF Observe, TypeOK, Clean

-----------------------------------------------------------------------------
(***************************************************************************)
(* The recorder                                                            *)
(***************************************************************************)

\* What a step of the recorder does to the files: a trusted event is whole, or
\* was trusted before and its file is not spoiled; and a file that becomes
\* whole is not listed by the uploader.
Careful == \A e \in Clean' :
               /\ Trusted(e)' => \/ files'[e] = "whole"
                                 \/ Trusted(e) /\ files[e] # "whole"
               /\ files'[e] = "whole" /\ files[e] # "whole" => e \notin held

\* A careful step that leaves the uploader alone preserves the invariant.
LEMMA CarefulInv ==
    ASSUME Inv, Observe, UNCHANGED uploaderVars, TypeOK', Linked', Careful
    PROVE  Inv'
<1>1. /\ UNCHANGED <<upc, toWalk, held, cur, todo, buf, deleteErr, objects, archive, final>>
      /\ \A d : HeldIn(d)' = HeldIn(d)
      /\ \A e : Filed(e)' = Filed(e)
  BY DEF uploaderVars, flushVars, bucketVars, HeldIn, Filed
<1>2. /\ Watched' /\ Clean' \subseteq Clean /\ late \subseteq late'
      /\ \A e \in Events : files[e] # "whole" /\ files'[e] = "whole" /\ final
                           /\ DirOf[e] \notin toWalk => e \in late'
  BY Observed DEF Inv
<1>3. Phases'
  BY <1>1 DEF Inv, Phases
<1>4. Safe'
  BY <1>1, <1>2 DEF Inv, Safe, Careful
<1>5. Fresh'
  BY <1>1 DEF Inv, Fresh
<1>6. Copied'
  <2>1. ASSUME upc = "copy", NEW e \in Clean', e \in HeldIn(cur) \ todo, files'[e] = "whole"
        PROVE  e \in buf
    <3>1. e \in held
      BY <2>1 DEF HeldIn
    <3>2. files[e] = "whole"
      BY <2>1, <3>1 DEF Careful
    <3>3. QED
      BY <1>2, <2>1, <3>2 DEF Inv, Copied
  <2>2. QED
    BY <1>1, <2>1 DEF Copied
<1>7. Uploaded'
  <2>1. ASSUME upc = "remove", NEW e \in Clean', e \in todo, files'[e] = "whole"
        PROVE  e \in objects[cur]
    <3>1. e \in held
      BY <2>1 DEF Inv, TypeOK
    <3>2. files[e] = "whole"
      BY <2>1, <3>1 DEF Careful
    <3>3. QED
      BY <1>2, <2>1, <3>2 DEF Inv, Uploaded
  <2>2. QED
    BY <1>1, <2>1 DEF Uploaded
<1>8. Listed'
  <2>1. ASSUME final, upc \in {"walk", "copy", "remove", "exited"},
               NEW e \in Clean', e \notin late', files'[e] = "whole", DirOf[e] \notin toWalk
        PROVE  e \in held \/ (upc = "remove" /\ deleteErr)
    <3>1. e \in Clean \ late /\ e \in Events
      BY <1>2, <2>1 DEF Clean
    <3>2. files[e] = "whole"
      BY <1>2, <2>1, <3>1
    <3>3. QED
      BY <2>1, <3>1, <3>2 DEF Inv, Listed
  <2>2. QED
    BY <1>1, <2>1 DEF Listed
<1>9. QED
  BY <1>2, <1>3, <1>4, <1>5, <1>6, <1>7, <1>8 DEF Inv

\* A handler that writes its event is the only one at work on it.
LEMMA CreateInv ==
    ASSUME ConstantsAssumption, Inv, NEW h \in Pushes, Create(h)
    PROVE  Inv'
<1>1. /\ hpc[h] = "open" /\ Observe /\ UNCHANGED uploaderVars
      /\ files' = [files EXCEPT ![h[1]] = "torn"]
      /\ linked' = linked \union {h}
      /\ hpc' = [hpc EXCEPT ![h] = "writing"]
      /\ acked' = acked /\ term' = term /\ faults' = faults
  BY DEF Create
<1>2. h[1] \in Events
  BY PushOf
<1>3. Watched' /\ Clean' \subseteq Clean /\ contested' \subseteq Events /\ late' \subseteq Events
  BY <1>1, Observed DEF Inv
<1>4. TypeOK'
  BY <1>1, <1>2, <1>3 DEF Inv, TypeOK, uploaderVars, flushVars, bucketVars
<1>5. Linked'
  BY <1>1, <1>3 DEF Inv, Linked, TypeOK
<1>6. Careful
  <2>1. ASSUME NEW e \in Clean', Trusted(e)'
        PROVE  files'[e] = "whole" \/ (Trusted(e) /\ files[e] # "whole")
    <3>1. Trusted(e)
      BY <1>1, <2>1 DEF Trusted, Written, Inv, TypeOK
    <3>2. CASE e = h[1]
      <4>1. e \notin acked /\ \A g \in Pushes : g[1] = e /\ hpc[g] = "written" => g = h
        BY <1>1, <1>3, <3>2, Alone DEF Inv
      <4>2. QED
        BY <1>1, <3>1, <4>1 DEF Trusted, Written
    <3>3. CASE e # h[1]
      BY <1>1, <1>2, <3>1, <3>3 DEF Inv, TypeOK, Clean
    <3>4. QED
      BY <3>2, <3>3
  <2>2. QED
    BY <1>1, <1>2, <2>1 DEF Careful, Inv, TypeOK, Clean
<1>7. QED
  BY <1>1, <1>4, <1>5, <1>6, CarefulInv

\* A file that is written is linked, and not listed.
LEMMA WriteInv ==
    ASSUME ConstantsAssumption, Inv, NEW h \in Pushes, Write(h)
    PROVE  Inv'
<1>1. /\ hpc[h] = "writing" /\ Observe /\ UNCHANGED uploaderVars
      /\ files' = IF h \in linked THEN [files EXCEPT ![h[1]] = "whole"] ELSE files
      /\ linked' = linked \ {h}
      /\ hpc' = [hpc EXCEPT ![h] = "written"]
      /\ acked' = acked /\ term' = term /\ faults' = faults
  BY DEF Write
<1>2. h[1] \in Events
  BY PushOf
<1>3. Watched' /\ Clean' \subseteq Clean /\ contested' \subseteq Events /\ late' \subseteq Events
  BY <1>1, Observed DEF Inv
<1>4. TypeOK'
  BY <1>1, <1>2, <1>3 DEF Inv, TypeOK, uploaderVars, flushVars, bucketVars
<1>5. Linked'
  BY <1>1, <1>3 DEF Inv, Linked, TypeOK
<1>6. Careful
  <2>1. ASSUME NEW e \in Clean', e = h[1]
        PROVE  files'[e] = "whole" /\ e \notin held
    <3>1. e \in Clean /\ h \in linked
      BY <1>1, <1>3, <2>1 DEF Inv, Linked
    <3>2. e \notin held
      BY <1>1, <2>1, <3>1, Alone DEF Inv
    <3>3. QED
      BY <1>1, <1>2, <2>1, <3>1, <3>2 DEF Inv, TypeOK
  <2>2. ASSUME NEW e \in Clean', e # h[1]
        PROVE  files'[e] = files[e] /\ (Trusted(e)' => Trusted(e))
    BY <1>1, <1>2, <2>2 DEF Inv, TypeOK, Trusted, Written, Clean
  <2>3. QED
    BY <2>1, <2>2 DEF Careful
<1>7. QED
  BY <1>1, <1>4, <1>5, <1>6, CarefulInv

\* WriteFile fails for an event that nobody has been told is stored.
LEMMA WriteFailsInv ==
    ASSUME ConstantsAssumption, Inv, NEW h \in Pushes, WriteFails(h)
    PROVE  Inv'
<1>1. /\ hpc[h] \in {"open", "writing"} /\ Observe /\ UNCHANGED uploaderVars
      /\ \/ /\ files' = [files EXCEPT ![h[1]] = "none"]
            /\ linked' = linked \ Active(h[1])
         \/ files' = files /\ linked' = linked \ {h}
      /\ hpc' = [hpc EXCEPT ![h] = "done"]
      /\ acked' = acked /\ term' = term
      /\ faults < MaxFaults /\ faults' = faults + 1
  BY DEF WriteFails, Fault
<1>2. h[1] \in Events
  BY PushOf
<1>3. Watched' /\ Clean' \subseteq Clean /\ contested' \subseteq Events /\ late' \subseteq Events
  BY <1>1, Observed DEF Inv
<1>4. TypeOK'
  <2>1. faults' \in 0 .. MaxFaults
    BY <1>1 DEF Inv, TypeOK, ConstantsAssumption
  <2>2. QED
    BY <1>1, <1>2, <1>3, <2>1 DEF Inv, TypeOK, uploaderVars, flushVars, bucketVars
<1>5. Linked'
  <2>1. ASSUME NEW g \in Pushes, g[1] \in Clean, hpc'[g] = "writing"
        PROVE  g \in linked'
    <3>1. g # h /\ hpc[g] = "writing" /\ g \in linked
      BY <1>1, <2>1 DEF Inv, TypeOK, Linked
    <3>2. g[1] # h[1]
      BY <1>1, <2>1, <3>1, Alone DEF Inv
    <3>3. g \notin Active(h[1])
      BY <3>2 DEF Active
    <3>4. QED
      BY <1>1, <3>1, <3>3
  <2>2. QED
    BY <1>3, <2>1 DEF Linked
<1>6. Careful
  <2>1. ASSUME NEW e \in Clean', Trusted(e)'
        PROVE  files'[e] = files[e] /\ Trusted(e)
    <3>1. Trusted(e)
      BY <1>1, <2>1 DEF Trusted, Written, Inv, TypeOK
    <3>2. e # h[1]
      <4>1. ASSUME e = h[1]
            PROVE  e \notin acked /\ \A g \in Pushes : g[1] = e /\ hpc[g] = "written" => g = h
        BY <1>1, <1>3, <4>1, Alone DEF Inv
      <4>2. QED
        BY <1>1, <3>1, <4>1 DEF Trusted, Written
    <3>3. QED
      BY <1>1, <1>2, <3>1, <3>2 DEF Inv, TypeOK, Clean
  <2>2. ASSUME NEW e \in Clean', files'[e] = "whole"
        PROVE  files[e] = "whole"
    BY <1>1, <1>2, <2>2 DEF Inv, TypeOK, Clean
  <2>3. QED
    BY <2>1, <2>2 DEF Careful
<1>7. QED
  BY <1>1, <1>4, <1>5, <1>6, CarefulInv

\* The other steps of a handler leave the files as they are, and acknowledge
\* what was written or is not recorded at all.
LEMMA HandlerInv ==
    ASSUME ConstantsAssumption, Inv, NEW h \in Pushes,
           Deliver(h) \/ DropInvalid(h) \/ Ack(h) \/ MkdirFails(h)
    PROVE  Inv'
<1>1. /\ Observe /\ UNCHANGED <<files, linked, term>> /\ UNCHANGED uploaderVars
      /\ hpc' = [hpc EXCEPT ![h] = "open"] \/ hpc' = [hpc EXCEPT ![h] = "done"]
      /\ \/ acked' = acked
         \/ acked' = acked \union {h[1]} /\ (h[1] \in Invalid \/ hpc[h] = "written")
      /\ faults' = faults \/ (faults < MaxFaults /\ faults' = faults + 1)
  BY DEF Deliver, DropInvalid, Ack, MkdirFails, Fault
<1>2. h[1] \in Events
  BY PushOf
<1>3. Watched' /\ Clean' \subseteq Clean /\ contested' \subseteq Events /\ late' \subseteq Events
  BY <1>1, Observed DEF Inv
<1>4. TypeOK'
  <2>1. faults' \in 0 .. MaxFaults
    BY <1>1 DEF Inv, TypeOK, ConstantsAssumption
  <2>2. QED
    BY <1>1, <1>2, <1>3, <2>1 DEF Inv, TypeOK, uploaderVars, flushVars, bucketVars
<1>5. Linked'
  BY <1>1, <1>3 DEF Inv, Linked, TypeOK
<1>6. Careful
  <2>1. ASSUME NEW e, Trusted(e)'
        PROVE  Trusted(e)
    BY <1>1, <2>1 DEF Trusted, Written, Recordable, Inv, TypeOK
  <2>2. QED
    BY <1>1, <2>1 DEF Careful
<1>7. QED
  BY <1>1, <1>4, <1>5, <1>6, CarefulInv

\* A crash of the recorder leaves the files as they are.
LEMMA RecorderCrashInv ==
    ASSUME ConstantsAssumption, Inv, RecorderCrash
    PROVE  Inv'
<1>1. /\ Observe /\ UNCHANGED <<files, acked, term>> /\ UNCHANGED uploaderVars
      /\ hpc' = [h \in Pushes |-> IF hpc[h] = "unsent" THEN "unsent" ELSE "done"]
      /\ linked' = {}
      /\ faults < MaxFaults /\ faults' = faults + 1
  BY DEF RecorderCrash, Fault
<1>2. Watched' /\ Clean' \subseteq Clean /\ contested' \subseteq Events /\ late' \subseteq Events
  BY <1>1, Observed DEF Inv
<1>3. TypeOK'
  <2>1. faults' \in 0 .. MaxFaults
    BY <1>1 DEF Inv, TypeOK, ConstantsAssumption
  <2>2. QED
    BY <1>1, <1>2, <2>1 DEF Inv, TypeOK, uploaderVars, flushVars, bucketVars
<1>4. Linked' /\ Careful
  BY <1>1 DEF Linked, Careful, Trusted, Written
<1>5. QED
  BY <1>1, <1>3, <1>4, CarefulInv

-----------------------------------------------------------------------------
(***************************************************************************)
(* The uploader lists the volume                                           *)
(***************************************************************************)

\* What holds after every step that leaves the volume and the recorder alone.
LEMMA QuietStep ==
    ASSUME Inv, Observe, UNCHANGED <<files, recorderVars>>
    PROVE  /\ Watched' /\ Linked'
           /\ Clean' \subseteq Clean /\ Clean \subseteq Events
           /\ contested' \subseteq Events /\ late' \subseteq Events /\ late \subseteq late'
           /\ (\A e \in Clean : Filed(e) => Filed(e)') => Safe'
<1>1. /\ Watched' /\ Clean' \subseteq Clean /\ contested' \subseteq Events
      /\ late \subseteq late' /\ late' \subseteq Events
  BY Observed DEF Inv
<1>2. UNCHANGED <<files, hpc, linked, acked>>
  BY DEF recorderVars
<1>3. Linked'
  BY <1>1, <1>2 DEF Inv, Linked
<1>4. \A e : Trusted(e)' => Trusted(e)
  BY <1>2 DEF Trusted, Written
<1>5. (\A e \in Clean : Filed(e) => Filed(e)') => Safe'
  BY <1>1, <1>2, <1>4 DEF Inv, Safe
<1>6. QED
  BY <1>1, <1>3, <1>5 DEF Clean

\* A failed call is counted up to the bound.
LEMMA FaultType ==
    ASSUME ConstantsAssumption, TypeOK, Fault
    PROVE  faults' \in 0 .. MaxFaults
BY DEF Fault, TypeOK, ConstantsAssumption

\* A flush starts with every object of the flush before in the archive.
LEMMA StartFlushInv ==
    ASSUME ConstantsAssumption, Inv, StartFlush
    PROVE  Inv'
<1>1. /\ upc = "idle" /\ upc' = "walk" /\ final' \in {FALSE, term}
      /\ toWalk' = Dirs /\ held' = {} /\ archive' = Stored
      /\ objects' = [d \in Dirs |-> {}]
      /\ UNCHANGED <<files, cur, todo, buf, attempt, deleteErr, hpc, linked, acked, term, faults>>
      /\ UNCHANGED <<files, recorderVars>> /\ Observe
  BY DEF StartFlush, recorderVars
<1>2. /\ Watched' /\ Linked'
      /\ Clean' \subseteq Clean /\ Clean \subseteq Events
      /\ contested' \subseteq Events /\ late' \subseteq Events
      /\ (\A e \in Clean : Filed(e) => Filed(e)') => Safe'
  BY <1>1, QuietStep
<1>3. todo = {}
  BY <1>1 DEF Inv, Phases
<1>4. archive' \subseteq Events
  BY <1>1 DEF Inv, TypeOK, Stored
<1>5. TypeOK'
  BY <1>1, <1>2, <1>3, <1>4 DEF Inv, TypeOK
<1>6. Phases'
  BY <1>1, <1>3 DEF Phases
<1>7. Safe'
  <2>1. \A e : Filed(e) => Filed(e)'
    BY <1>1 DEF Filed, Stored
  <2>2. QED
    BY <1>2, <2>1
<1>8. Fresh' /\ Copied' /\ Uploaded'
  BY <1>1 DEF Fresh, Copied, Uploaded
<1>9. Listed'
  <2>1. \A e \in Clean' : DirOf[e] \in Dirs
    BY <1>2 DEF ConstantsAssumption
  <2>2. QED
    BY <1>1, <2>1 DEF Listed
<1>10. QED
  BY <1>2, <1>5, <1>6, <1>7, <1>8, <1>9 DEF Inv

\* Listing a directory takes what is there.
LEMMA ListDirInv ==
    ASSUME ConstantsAssumption, Inv, NEW d \in Dirs, ListDir(d)
    PROVE  Inv'
<1>1. /\ upc = "walk" /\ upc' = "walk" /\ d \in toWalk
      /\ toWalk' = toWalk \ {d}
      /\ held' = held \union {e \in Events : DirOf[e] = d /\ files[e] # "none"}
      /\ UNCHANGED <<files, cur, todo, buf, attempt, deleteErr, objects, archive, final,
                     hpc, linked, acked, term, faults>>
      /\ UNCHANGED <<files, recorderVars>> /\ Observe
  BY DEF ListDir, recorderVars, bucketVars
<1>2. /\ Watched' /\ Linked'
      /\ Clean' \subseteq Clean /\ Clean \subseteq Events
      /\ contested' \subseteq Events /\ late' \subseteq Events /\ late \subseteq late'
      /\ (\A e \in Clean : Filed(e) => Filed(e)') => Safe'
  BY <1>1, QuietStep
<1>3. TypeOK'
  BY <1>1, <1>2 DEF Inv, TypeOK
<1>4. Phases'
  BY <1>1 DEF Inv, Phases
<1>5. Safe'
  BY <1>1, <1>2 DEF Filed
<1>6. Fresh' /\ Copied' /\ Uploaded'
  BY <1>1 DEF Inv, Fresh, Copied, Uploaded
<1>7. Listed'
  <2>1. ASSUME final, NEW e \in Clean', e \notin late', files[e] = "whole", DirOf[e] \notin toWalk'
        PROVE  e \in held'
    <3>1. e \in Clean \ late /\ e \in Events
      BY <1>2, <2>1
    <3>2. CASE DirOf[e] = d
      BY <1>1, <2>1, <3>1, <3>2
    <3>3. CASE DirOf[e] # d
      BY <1>1, <2>1, <3>1, <3>3 DEF Inv, Listed
    <3>4. QED
      BY <3>2, <3>3
  <2>2. QED
    BY <1>1, <2>1 DEF Listed
<1>8. QED
  BY <1>2, <1>3, <1>4, <1>5, <1>6, <1>7 DEF Inv

\* The flush is over when nothing is held.
LEMMA FlushDoneInv ==
    ASSUME ConstantsAssumption, Inv, FlushDone
    PROVE  Inv'
<1>1. /\ upc = "walk" /\ toWalk = {} /\ held = {}
      /\ upc' = IF final THEN "exited" ELSE "idle"
      /\ UNCHANGED <<files, toWalk, held, cur, todo, buf, attempt, deleteErr, objects, archive,
                     final, hpc, linked, acked, term, faults>>
      /\ UNCHANGED <<files, recorderVars>> /\ Observe
  BY DEF FlushDone, recorderVars, flushVars, bucketVars
<1>2. /\ Watched' /\ Linked'
      /\ Clean' \subseteq Clean /\ Clean \subseteq Events
      /\ contested' \subseteq Events /\ late' \subseteq Events /\ late \subseteq late'
      /\ (\A e \in Clean : Filed(e) => Filed(e)') => Safe'
  BY <1>1, QuietStep
<1>3. TypeOK'
  BY <1>1, <1>2 DEF Inv, TypeOK
<1>4. Phases'
  BY <1>1 DEF Inv, Phases
<1>5. Safe'
  BY <1>1, <1>2 DEF Filed
<1>6. Fresh' /\ Copied' /\ Uploaded'
  BY <1>1 DEF Fresh, Copied, Uploaded
<1>7. Listed'
  BY <1>1, <1>2 DEF Inv, Listed
<1>8. QED
  BY <1>2, <1>3, <1>4, <1>5, <1>6, <1>7 DEF Inv

-----------------------------------------------------------------------------
(***************************************************************************)
(* The uploader uploads a directory                                        *)
(***************************************************************************)

\* The next directory has no object yet.
LEMMA NextDirInv ==
    ASSUME ConstantsAssumption, Inv, NEW d \in Dirs, NextDir(d)
    PROVE  Inv'
<1>1. /\ upc = "walk" /\ upc' = "copy" /\ toWalk = {} /\ HeldIn(d) # {}
      /\ cur' = d /\ attempt' = 1 /\ deleteErr' = FALSE
      /\ todo' = HeldIn(d) /\ buf' = {}
      /\ UNCHANGED <<files, toWalk, held, objects, archive, final, hpc, linked, acked, term, faults>>
      /\ UNCHANGED <<files, recorderVars>> /\ Observe
  BY DEF NextDir, NewWriter, recorderVars, bucketVars
<1>2. /\ Watched' /\ Linked'
      /\ Clean' \subseteq Clean /\ Clean \subseteq Events
      /\ contested' \subseteq Events /\ late' \subseteq Events /\ late \subseteq late'
      /\ (\A e \in Clean : Filed(e) => Filed(e)') => Safe'
  BY <1>1, QuietStep
<1>3. HeldIn(cur)' = HeldIn(d) /\ \A x : HeldIn(x)' = HeldIn(x)
  BY <1>1 DEF HeldIn
<1>4. HeldIn(d) \subseteq held
  BY DEF HeldIn
<1>5. TypeOK'
  <2>1. attempt' \in 1 .. MaxUploadAttempt
    BY <1>1 DEF ConstantsAssumption
  <2>2. QED
    BY <1>1, <1>2, <1>4, <2>1 DEF Inv, TypeOK
<1>6. Phases'
  BY <1>1, <1>3 DEF Phases
<1>7. Safe'
  <2>1. objects[d] = {}
    BY <1>1 DEF Inv, Fresh
  <2>2. \A e : Filed(e) => Filed(e)'
    BY <1>1, <2>1 DEF Filed
  <2>3. QED
    BY <1>2, <2>2
<1>8. Fresh'
  BY <1>1, <1>3 DEF Inv, Fresh
<1>9. Copied' /\ Uploaded'
  BY <1>1, <1>3 DEF Copied, Uploaded
<1>10. Listed'
  BY <1>1, <1>2 DEF Inv, Listed
<1>11. QED
  BY <1>2, <1>5, <1>6, <1>7, <1>8, <1>9, <1>10 DEF Inv

\* A file that is copied whole is with the writer.
LEMMA CopyInv ==
    ASSUME ConstantsAssumption, Inv, NEW x \in Events, Copy(x)
    PROVE  Inv'
<1>1. /\ upc = "copy" /\ upc' = "copy" /\ x \in todo /\ todo' = todo \ {x}
      /\ buf' = buf \union {y \in {x} : files[y] = "whole"}
      /\ UNCHANGED <<files, toWalk, held, cur, attempt, deleteErr, objects, archive, final,
                     hpc, linked, acked, term, faults>>
      /\ UNCHANGED <<files, recorderVars>> /\ Observe
  BY DEF Copy, recorderVars, bucketVars
<1>2. /\ Watched' /\ Linked'
      /\ Clean' \subseteq Clean /\ Clean \subseteq Events
      /\ contested' \subseteq Events /\ late' \subseteq Events /\ late \subseteq late'
      /\ (\A e \in Clean : Filed(e) => Filed(e)') => Safe'
  BY <1>1, QuietStep
<1>3. \A d : HeldIn(d)' = HeldIn(d)
  BY <1>1 DEF HeldIn
<1>4. TypeOK'
  BY <1>1, <1>2 DEF Inv, TypeOK
<1>5. Phases'
  BY <1>1, <1>3 DEF Inv, Phases
<1>6. Safe'
  BY <1>1, <1>2 DEF Filed
<1>7. Fresh'
  BY <1>1, <1>3 DEF Inv, Fresh
<1>8. Copied'
  <2>1. ASSUME NEW e \in Clean', e \in HeldIn(cur) \ todo', files[e] = "whole"
        PROVE  e \in buf'
    BY <1>1, <1>2, <2>1 DEF Inv, Copied
  <2>2. QED
    BY <1>1, <1>3, <2>1 DEF Copied
<1>9. Uploaded' /\ Listed'
  BY <1>1, <1>2 DEF Inv, Uploaded, Listed
<1>10. QED
  BY <1>2, <1>4, <1>5, <1>6, <1>7, <1>8, <1>9 DEF Inv

\* The object of cur is replaced only while what it has does not count.
LEMMA ObjectKept ==
    ASSUME TypeOK, upc = "copy", archive' = archive,
           objects' \in {objects, [objects EXCEPT ![cur] = buf]},
           upc' # "copy" \/ cur' = cur
    PROVE  /\ \A e : Filed(e) => Filed(e)'
           /\ objects' \in [Dirs -> SUBSET Events]
<1>1. \A d \in Dirs : d # cur => objects'[d] = objects[d]
  BY DEF TypeOK
<1>2. ASSUME NEW e, Filed(e)
      PROVE  Filed(e)'
  <2>1. CASE e \in archive
    BY <2>1 DEF Filed
  <2>2. CASE \E d \in Dirs : e \in objects[d] /\ d # cur
    <3>1. PICK d \in Dirs : e \in objects[d] /\ d # cur
      BY <2>2
    <3>2. e \in objects'[d] /\ ~(upc' = "copy" /\ d = cur')
      BY <1>1, <3>1
    <3>3. QED
      BY <3>2 DEF Filed
  <2>3. QED
    BY <1>2, <2>1, <2>2 DEF Filed
<1>3. objects' \in [Dirs -> SUBSET Events]
  BY DEF TypeOK
<1>4. QED
  BY <1>2, <1>3

\* An upload that is given up leaves the files.
LEMMA CopyFailsInv ==
    ASSUME ConstantsAssumption, Inv, NEW x \in Events, CopyFails(x)
    PROVE  Inv'
<1>1. /\ upc = "copy" /\ upc' = "dead"
      /\ objects' \in {objects, [objects EXCEPT ![cur] = buf]}
      /\ faults' = faults \/ Fault
      /\ UNCHANGED <<files, toWalk, held, cur, todo, buf, attempt, deleteErr, archive, final,
                     hpc, linked, acked, term>>
      /\ UNCHANGED <<files, recorderVars>> /\ Observe
  BY DEF CopyFails, recorderVars, flushVars
<1>2. /\ Watched' /\ Linked'
      /\ Clean' \subseteq Clean /\ Clean \subseteq Events
      /\ contested' \subseteq Events /\ late' \subseteq Events
      /\ (\A e \in Clean : Filed(e) => Filed(e)') => Safe'
  BY <1>1, QuietStep
<1>3. /\ \A e : Filed(e) => Filed(e)'
      /\ objects' \in [Dirs -> SUBSET Events]
  BY <1>1, ObjectKept DEF Inv
<1>4. faults' \in 0 .. MaxFaults
  BY <1>1, FaultType DEF Inv, TypeOK
<1>5. TypeOK'
  BY <1>1, <1>2, <1>3, <1>4 DEF Inv, TypeOK
<1>6. Phases' /\ Fresh' /\ Copied' /\ Uploaded' /\ Listed'
  BY <1>1 DEF Phases, Fresh, Copied, Uploaded, Listed
<1>7. QED
  BY <1>2, <1>3, <1>5, <1>6 DEF Inv

\* The object of a directory has every whole file of it.
LEMMA CloseInv ==
    ASSUME ConstantsAssumption, Inv, Close
    PROVE  Inv'
<1>1. /\ upc = "copy" /\ upc' = "remove" /\ todo = {} /\ todo' = HeldIn(cur)
      /\ objects' = [objects EXCEPT ![cur] = buf]
      /\ UNCHANGED <<files, toWalk, held, cur, buf, attempt, deleteErr, archive, final,
                     hpc, linked, acked, term, faults>>
      /\ UNCHANGED <<files, recorderVars>> /\ Observe
  BY DEF Close, recorderVars
<1>2. /\ Watched' /\ Linked'
      /\ Clean' \subseteq Clean /\ Clean \subseteq Events
      /\ contested' \subseteq Events /\ late' \subseteq Events /\ late \subseteq late'
      /\ (\A e \in Clean : Filed(e) => Filed(e)') => Safe'
  BY <1>1, QuietStep
<1>3. \A d : HeldIn(d)' = HeldIn(d)
  BY <1>1 DEF HeldIn
<1>4. /\ \A e : Filed(e) => Filed(e)'
      /\ objects' \in [Dirs -> SUBSET Events]
  BY <1>1, ObjectKept DEF Inv
<1>5. HeldIn(cur) \subseteq held
  BY DEF HeldIn
<1>6. TypeOK'
  BY <1>1, <1>2, <1>4, <1>5 DEF Inv, TypeOK
<1>7. Phases'
  BY <1>1, <1>3 DEF Inv, Phases
<1>8. Fresh'
  <2>1. ASSUME NEW d \in Dirs, objects'[d] # {}
        PROVE  toWalk = {} /\ (HeldIn(d) = {} \/ d = cur)
    BY <1>1, <2>1 DEF Inv, Fresh, Phases, TypeOK
  <2>2. QED
    BY <1>1, <1>3, <2>1 DEF Fresh
<1>9. Copied'
  BY <1>1 DEF Copied
<1>10. Uploaded'
  <2>1. objects'[cur] = buf
    BY <1>1 DEF Inv, TypeOK
  <2>2. QED
    BY <1>1, <1>2, <2>1 DEF Inv, Copied, Uploaded
<1>11. Listed'
  BY <1>1, <1>2 DEF Inv, Listed
<1>12. QED
  BY <1>2, <1>4, <1>6, <1>7, <1>8, <1>9, <1>10, <1>11 DEF Inv

\* An upload that may have failed is made again, whole, or given up.
LEMMA CloseFailsInv ==
    ASSUME ConstantsAssumption, Inv, CloseFails
    PROVE  Inv'
<1>1. /\ upc = "copy" /\ todo = {} /\ Fault
      /\ objects' \in {objects, [objects EXCEPT ![cur] = buf]}
      /\ \/ upc' = "dead" /\ todo' = todo /\ buf' = buf /\ attempt' = attempt
         \/ /\ upc' = "copy" /\ todo' = HeldIn(cur) /\ buf' = {}
            /\ attempt # MaxUploadAttempt /\ attempt' = attempt + 1
      /\ UNCHANGED <<files, toWalk, held, cur, deleteErr, archive, final,
                     hpc, linked, acked, term>>
      /\ UNCHANGED <<files, recorderVars>> /\ Observe
  BY DEF CloseFails, NewWriter, recorderVars
<1>2. /\ Watched' /\ Linked'
      /\ Clean' \subseteq Clean /\ Clean \subseteq Events
      /\ contested' \subseteq Events /\ late' \subseteq Events /\ late \subseteq late'
      /\ (\A e \in Clean : Filed(e) => Filed(e)') => Safe'
  BY <1>1, QuietStep
<1>3. \A d : HeldIn(d)' = HeldIn(d)
  BY <1>1 DEF HeldIn
<1>4. /\ \A e : Filed(e) => Filed(e)'
      /\ objects' \in [Dirs -> SUBSET Events]
  BY <1>1, ObjectKept DEF Inv
<1>5. HeldIn(cur) \subseteq held
  BY DEF HeldIn
<1>6. TypeOK'
  <2>1. faults' \in 0 .. MaxFaults
    BY <1>1, FaultType DEF Inv
  <2>2. attempt' \in 1 .. MaxUploadAttempt
    BY <1>1 DEF Inv, TypeOK, ConstantsAssumption
  <2>3. upc' \in {"copy", "dead"} /\ todo' \subseteq held /\ buf' \subseteq Events
    BY <1>1, <1>5 DEF Inv, TypeOK
  <2>4. QED
    BY <1>1, <1>2, <1>4, <2>1, <2>2, <2>3 DEF Inv, TypeOK
<1>7. Phases'
  BY <1>1, <1>3 DEF Inv, Phases
<1>8. Fresh'
  <2>1. ASSUME NEW d \in Dirs, objects'[d] # {}
        PROVE  toWalk = {} /\ (HeldIn(d) = {} \/ d = cur)
    BY <1>1, <2>1 DEF Inv, Fresh, Phases, TypeOK
  <2>2. QED
    BY <1>1, <1>3, <2>1 DEF Fresh
<1>9. Copied' /\ Uploaded'
  BY <1>1, <1>3 DEF Copied, Uploaded
<1>10. Listed'
  BY <1>1, <1>2 DEF Inv, Listed
<1>11. QED
  BY <1>2, <1>4, <1>6, <1>7, <1>8, <1>9, <1>10 DEF Inv

-----------------------------------------------------------------------------
(***************************************************************************)
(* The uploader removes what it has uploaded                               *)
(***************************************************************************)

\* A whole file that is removed is in the object, and nobody writes to it.
LEMMA RemoveInv ==
    ASSUME ConstantsAssumption, Inv, NEW x \in Events, Remove(x)
    PROVE  Inv'
<1>1. /\ upc = "remove" /\ upc' = "remove" /\ x \in todo
      /\ files' = [files EXCEPT ![x] = "none"]
      /\ linked' = linked \ Active(x)
      /\ todo' = todo \ {x} /\ held' = held \ {x}
      /\ UNCHANGED <<toWalk, cur, buf, attempt, deleteErr, objects, archive, final,
                     hpc, acked, term, faults>>
      /\ Observe
  BY DEF Remove, bucketVars
<1>2. /\ Watched' /\ Clean' \subseteq Clean /\ contested' \subseteq Events
      /\ late \subseteq late' /\ late' \subseteq Events
  BY <1>1, Observed DEF Inv
<1>3. Clean \subseteq Events /\ x \in held
  BY <1>1 DEF Clean, Inv, TypeOK
<1>4. /\ files'[x] = "none"
      /\ \A e \in Events : e # x => files'[e] = files[e]
  BY <1>1 DEF Inv, TypeOK
<1>5. \A d : HeldIn(d)' = HeldIn(d) \ {x}
  BY <1>1 DEF HeldIn
<1>6. TypeOK'
  BY <1>1, <1>2 DEF Inv, TypeOK
<1>7. Phases'
  BY <1>1, <1>5 DEF Inv, Phases
<1>8. Linked'
  <2>1. ASSUME NEW h \in Pushes, h[1] \in Clean, hpc[h] = "writing"
        PROVE  h \in linked \ Active(x)
    <3>1. h \in linked
      BY <2>1 DEF Inv, Linked
    <3>2. h[1] # x
      BY <1>3, <2>1, Alone DEF Inv
    <3>3. QED
      BY <3>1, <3>2 DEF Active
  <2>2. QED
    BY <1>1, <1>2, <2>1 DEF Linked
<1>9. Safe'
  <2>1. \A e : Trusted(e)' = Trusted(e) /\ Filed(e)' = Filed(e)
    BY <1>1 DEF Trusted, Written, Filed
  <2>2. ASSUME NEW e \in Clean, Trusted(e)
        PROVE  files'[e] = "whole" \/ Filed(e)
    <3>1. CASE e = x
      <4>1. files[x] = "whole" => x \in objects[cur]
        BY <1>1, <2>2, <3>1 DEF Inv, Uploaded
      <4>2. x \in objects[cur] => Filed(x)
        BY <1>1 DEF Filed, Inv, TypeOK
      <4>3. QED
        BY <2>2, <3>1, <4>1, <4>2 DEF Inv, Safe
    <3>2. CASE e # x
      BY <1>3, <1>4, <2>2, <3>2 DEF Inv, Safe
    <3>3. QED
      BY <3>1, <3>2
  <2>3. QED
    BY <1>2, <2>1, <2>2 DEF Safe
<1>10. Fresh'
  BY <1>1, <1>5 DEF Inv, Fresh
<1>11. Copied'
  BY <1>1 DEF Copied
<1>12. Uploaded'
  BY <1>1, <1>2, <1>3, <1>4 DEF Inv, Uploaded
<1>13. Listed'
  <2>1. ASSUME final, NEW e \in Clean', e \notin late', files'[e] = "whole", DirOf[e] \notin toWalk
        PROVE  e \in held' \/ deleteErr
    BY <1>1, <1>2, <1>3, <1>4, <2>1 DEF Inv, Listed
  <2>2. QED
    BY <1>1, <2>1 DEF Listed
<1>14. QED
  BY <1>2, <1>6, <1>7, <1>8, <1>9, <1>10, <1>11, <1>12, <1>13 DEF Inv

\* A file that cannot be removed makes this the last directory of the flush.
LEMMA RemoveFailsInv ==
    ASSUME ConstantsAssumption, Inv, NEW x \in Events, RemoveFails(x)
    PROVE  Inv'
<1>1. /\ upc = "remove" /\ upc' = "remove" /\ x \in todo
      /\ deleteErr' = TRUE /\ todo' = todo \ {x} /\ held' = held \ {x}
      /\ faults' = faults \/ Fault
      /\ UNCHANGED <<files, toWalk, cur, buf, attempt, objects, archive, final,
                     hpc, linked, acked, term>>
      /\ UNCHANGED <<files, recorderVars>> /\ Observe
  BY DEF RemoveFails, recorderVars, bucketVars
<1>2. /\ Watched' /\ Linked'
      /\ Clean' \subseteq Clean /\ Clean \subseteq Events
      /\ contested' \subseteq Events /\ late' \subseteq Events
      /\ (\A e \in Clean : Filed(e) => Filed(e)') => Safe'
  BY <1>1, QuietStep
<1>3. \A d : HeldIn(d)' = HeldIn(d) \ {x}
  BY <1>1 DEF HeldIn
<1>4. faults' \in 0 .. MaxFaults
  BY <1>1, FaultType DEF Inv, TypeOK
<1>5. TypeOK'
  BY <1>1, <1>2, <1>4 DEF Inv, TypeOK
<1>6. Phases'
  BY <1>1, <1>3 DEF Inv, Phases
<1>7. Safe'
  BY <1>1, <1>2 DEF Filed
<1>8. Fresh'
  BY <1>1, <1>3 DEF Inv, Fresh
<1>9. Copied' /\ Listed'
  BY <1>1 DEF Copied, Listed
<1>10. Uploaded'
  BY <1>1, <1>2 DEF Inv, Uploaded
<1>11. QED
  BY <1>2, <1>5, <1>6, <1>7, <1>8, <1>9, <1>10 DEF Inv

\* A directory is done when no file of it is held.
LEMMA DirDoneInv ==
    ASSUME ConstantsAssumption, Inv, DirDone
    PROVE  Inv'
<1>1. /\ upc = "remove" /\ todo = {}
      /\ upc' = IF deleteErr THEN "dead" ELSE "walk"
      /\ cur' = AnyDir /\ buf' = {} /\ attempt' = 1 /\ deleteErr' = FALSE
      /\ UNCHANGED <<files, toWalk, held, todo, objects, archive, final,
                     hpc, linked, acked, term, faults>>
      /\ UNCHANGED <<files, recorderVars>> /\ Observe
  BY DEF DirDone, recorderVars, bucketVars
<1>2. /\ Watched' /\ Linked'
      /\ Clean' \subseteq Clean /\ Clean \subseteq Events
      /\ contested' \subseteq Events /\ late' \subseteq Events /\ late \subseteq late'
      /\ (\A e \in Clean : Filed(e) => Filed(e)') => Safe'
  BY <1>1, QuietStep
<1>3. HeldIn(cur) = {} /\ \A d : HeldIn(d)' = HeldIn(d)
  BY <1>1 DEF Inv, Phases, HeldIn
<1>4. TypeOK'
  <2>1. attempt' \in 1 .. MaxUploadAttempt /\ cur' \in Dirs
    BY <1>1 DEF ConstantsAssumption, AnyDir
  <2>2. QED
    BY <1>1, <1>2, <2>1 DEF Inv, TypeOK
<1>5. Phases'
  BY <1>1 DEF Phases
<1>6. Safe'
  BY <1>1, <1>2 DEF Filed
<1>7. Fresh'
  BY <1>1, <1>3 DEF Inv, Fresh
<1>8. Copied' /\ Uploaded'
  BY <1>1 DEF Copied, Uploaded
<1>9. Listed'
  BY <1>1, <1>2 DEF Inv, Listed
<1>10. QED
  BY <1>2, <1>4, <1>5, <1>6, <1>7, <1>8, <1>9 DEF Inv

-----------------------------------------------------------------------------
(***************************************************************************)
(* The uploader stops and starts                                           *)
(***************************************************************************)

\* A crash leaves the bucket and the volume as they are.
LEMMA UploaderCrashInv ==
    ASSUME ConstantsAssumption, Inv, UploaderCrash
    PROVE  Inv'
<1>1. /\ upc' = "dead" /\ Fault
      /\ UNCHANGED <<files, toWalk, held, cur, todo, buf, attempt, deleteErr, objects, archive,
                     final, hpc, linked, acked, term>>
      /\ UNCHANGED <<files, recorderVars>> /\ Observe
  BY DEF UploaderCrash, recorderVars, flushVars, bucketVars
<1>2. /\ Watched' /\ Linked'
      /\ Clean' \subseteq Clean /\ Clean \subseteq Events
      /\ contested' \subseteq Events /\ late' \subseteq Events
      /\ (\A e \in Clean : Filed(e) => Filed(e)') => Safe'
  BY <1>1, QuietStep
<1>3. faults' \in 0 .. MaxFaults
  BY <1>1, FaultType DEF Inv
<1>4. TypeOK'
  BY <1>1, <1>2, <1>3 DEF Inv, TypeOK
<1>5. Safe'
  BY <1>1, <1>2 DEF Filed
<1>6. Phases' /\ Fresh' /\ Copied' /\ Uploaded' /\ Listed'
  BY <1>1 DEF Phases, Fresh, Copied, Uploaded, Listed
<1>7. QED
  BY <1>2, <1>4, <1>5, <1>6 DEF Inv

\* The uploader that starts again holds nothing.
LEMMA RestartInv ==
    ASSUME ConstantsAssumption, Inv, Restart
    PROVE  Inv'
<1>1. /\ upc = "dead" /\ upc' = "idle"
      /\ toWalk' = {} /\ held' = {} /\ cur' = AnyDir /\ todo' = {} /\ buf' = {}
      /\ attempt' = 1 /\ deleteErr' = FALSE
      /\ UNCHANGED <<files, objects, archive, final, hpc, linked, acked, term, faults>>
      /\ UNCHANGED <<files, recorderVars>> /\ Observe
  BY DEF Restart, recorderVars, bucketVars
<1>2. /\ Watched' /\ Linked'
      /\ Clean' \subseteq Clean /\ Clean \subseteq Events
      /\ contested' \subseteq Events /\ late' \subseteq Events
      /\ (\A e \in Clean : Filed(e) => Filed(e)') => Safe'
  BY <1>1, QuietStep
<1>3. TypeOK'
  <2>1. attempt' \in 1 .. MaxUploadAttempt /\ cur' \in Dirs
    BY <1>1 DEF ConstantsAssumption, AnyDir
  <2>2. QED
    BY <1>1, <1>2, <2>1 DEF Inv, TypeOK
<1>4. Safe'
  BY <1>1, <1>2 DEF Filed
<1>5. Phases' /\ Fresh' /\ Copied' /\ Uploaded' /\ Listed'
  BY <1>1 DEF Phases, Fresh, Copied, Uploaded, Listed
<1>6. QED
  BY <1>2, <1>3, <1>4, <1>5 DEF Inv

\* SIGTERM by itself changes nothing else.
LEMMA SigtermInv ==
    ASSUME ConstantsAssumption, Inv, Sigterm
    PROVE  Inv'
<1>1. /\ term' = TRUE
      /\ UNCHANGED <<files, linked, acked, hpc, faults>> /\ UNCHANGED uploaderVars /\ Observe
  BY DEF Sigterm, recorderVars
<1>2. contested' \subseteq Events /\ late' \subseteq Events /\ Clean' \subseteq Clean
  BY <1>1, Observed DEF Inv
<1>3. TypeOK'
  BY <1>1, <1>2 DEF Inv, TypeOK, uploaderVars, flushVars, bucketVars
<1>4. Linked' /\ Careful
  BY <1>1, <1>2 DEF Inv, Linked, Careful, Trusted, Written
<1>5. QED
  BY <1>1, <1>3, <1>4, CarefulInv

-----------------------------------------------------------------------------
(***************************************************************************)
(* The pipeline                                                            *)
(***************************************************************************)

LEMMA InitInv ==
    ASSUME ConstantsAssumption, Init
    PROVE  Inv
<1>1. TypeOK
  <2>1. AnyDir \in Dirs /\ 1 \in 1 .. MaxUploadAttempt /\ 0 \in 0 .. MaxFaults
    BY DEF ConstantsAssumption, AnyDir
  <2>2. QED
    BY <2>1 DEF Init, TypeOK
<1>2. \A e \in Events : Active(e) = {}
  BY DEF Init, Active
<1>3. Cardinality({}) = 0
  BY FS_EmptySet
<1>4. Watched
  BY <1>2, <1>3 DEF Watched, Contended
<1>5. Phases /\ Linked /\ Safe /\ Fresh /\ Copied /\ Uploaded /\ Listed
  BY DEF Init, Phases, Linked, Safe, Trusted, Written, Fresh, Copied, Uploaded, Listed
<1>6. QED
  BY <1>1, <1>4, <1>5 DEF Inv

\* Every step of the uploader preserves the invariant.
LEMMA UploaderInv ==
    ASSUME ConstantsAssumption, Inv, Uploader
    PROVE  Inv'
<1>1. CASE StartFlush \/ Close \/ CloseFails \/ DirDone \/ FlushDone \/ Restart
  BY <1>1, StartFlushInv, CloseInv, CloseFailsInv, DirDoneInv, FlushDoneInv, RestartInv
<1>2. CASE \E d \in Dirs : ListDir(d) \/ NextDir(d)
  BY <1>2, ListDirInv, NextDirInv
<1>3. CASE \E e \in Events : Copy(e) \/ CopyFails(e) \/ Remove(e) \/ RemoveFails(e)
  BY <1>3, CopyInv, CopyFailsInv, RemoveInv, RemoveFailsInv
<1>4. QED
  BY <1>1, <1>2, <1>3 DEF Uploader

LEMMA NextInv ==
    ASSUME ConstantsAssumption, Inv, [Next]_vars
    PROVE  Inv'
<1>1. CASE \E h \in Pushes : Deliver(h) \/ Recorder(h) \/ MkdirFails(h) \/ WriteFails(h)
  BY <1>1, HandlerInv, CreateInv, WriteInv, WriteFailsInv DEF Recorder
<1>2. CASE RecorderCrash \/ Uploader \/ UploaderCrash \/ Sigterm
  BY <1>2, RecorderCrashInv, UploaderInv, UploaderCrashInv, SigtermInv
<1>3. CASE UNCHANGED vars
  <2>1. /\ UNCHANGED <<files, hpc, linked, acked, upc, toWalk, held, cur, todo, buf, attempt>>
        /\ UNCHANGED <<deleteErr, objects, archive, term, final, faults, contested, late>>
    BY <1>3 DEF vars, recorderVars, uploaderVars, flushVars, bucketVars, historyVars
  <2>2. /\ \A d : HeldIn(d)' = HeldIn(d)
        /\ \A e : Filed(e)' = Filed(e) /\ Trusted(e)' = Trusted(e)
        /\ Clean' = Clean
    BY <2>1 DEF HeldIn, Filed, Trusted, Written, Clean
  <2>3. TypeOK' /\ Linked'
    BY <2>1, <2>2 DEF Inv, TypeOK, Linked
  <2>4. Watched'
    BY <2>1 DEF Inv, Watched, Contended, Active
  <2>5. Phases' /\ Safe' /\ Fresh'
    BY <2>1, <2>2 DEF Inv, Phases, Safe, Fresh
  <2>6. Copied' /\ Uploaded' /\ Listed'
    BY <2>1, <2>2 DEF Inv, Copied, Uploaded, Listed
  <2>7. QED
    BY <2>3, <2>4, <2>5, <2>6 DEF Inv
<1>4. QED
  BY <1>1, <1>2, <1>3 DEF Next

\* The files, the handlers and the uploader are always well formed: the files to
\* copy or to remove are held, and uploads stay within maxUploadAttempt.
THEOREM PipelineTypes ==
    ASSUME ConstantsAssumption
    PROVE  Spec => []TypeOK
<1>1. Inv => TypeOK
  BY DEF Inv
<1>2. QED
  BY InitInv, NextInv, <1>1, PTL DEF Spec

\* An acknowledged event that was not contested is on the volume, whole, or in
\* the bucket, whatever fails and whenever a container dies.
THEOREM AckedStays ==
    ASSUME ConstantsAssumption
    PROVE  Spec => []AckedIsKept
<1>1. Inv => AckedIsKept
  BY DEF Inv, Safe, Clean, AckedIsKept, Trusted, Filed, Stored, TypeOK
<1>2. QED
  BY InitInv, NextInv, <1>1, PTL DEF Spec

\* When the uploader exits after SIGTERM, every acknowledged event that is
\* neither contested nor late is in the bucket.
THEOREM NothingIsLeft ==
    ASSUME ConstantsAssumption
    PROVE  Spec => []LastFlushTakesAll
<1>1. ASSUME Inv, upc = "exited",
             NEW e \in (acked \intersect Recordable) \ (contested \union late)
      PROVE  e \in Stored
  <2>1. e \in Clean \ late /\ Trusted(e)
    BY <1>1 DEF Clean, Trusted, Inv, TypeOK
  <2>2. files[e] # "whole"
    BY <1>1, <2>1 DEF Inv, Phases, Listed
  <2>3. QED
    BY <1>1, <2>1, <2>2 DEF Inv, Safe, Filed, Stored
<1>2. Inv => LastFlushTakesAll
  BY <1>1 DEF LastFlushTakesAll
<1>3. QED
  BY InitInv, NextInv, <1>2, PTL DEF Spec

\* RemovesUploaded, for the events that were not contested.
RemovesUploadedAlone == \A e \in Clean : Remove(e) /\ files[e] = "whole" => e \in Stored

\* "Only delete files after a successful upload" (blob.go) is so for every file
\* whose event was not contested: contention is the only way to break it.
THEOREM OnlyContestedAreLost ==
    ASSUME ConstantsAssumption
    PROVE  Spec => [][RemovesUploadedAlone]_vars
<1>1. ASSUME Inv, NEW e \in Clean, Remove(e), files[e] = "whole"
      PROVE  e \in Stored
  <2>1. upc = "remove" /\ e \in todo /\ cur \in Dirs
    BY <1>1 DEF Remove, Inv, TypeOK
  <2>2. e \in objects[cur]
    BY <1>1, <2>1 DEF Inv, Uploaded
  <2>3. QED
    BY <2>1, <2>2 DEF Stored
<1>2. Inv => RemovesUploadedAlone
  BY <1>1 DEF RemovesUploadedAlone
<1>3. QED
  BY InitInv, NextInv, <1>2, PTL DEF Spec

=============================================================================
