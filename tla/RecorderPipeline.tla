--------------------------- MODULE RecorderPipeline ---------------------------
(***************************************************************************)
(* One recorder instance: two containers that share a log volume.          *)
(*                                                                         *)
(*   - the recorder (modules/cloudevent-recorder/cmd/recorder) writes each *)
(*     event Pub/Sub pushes to a file of its own and then acknowledges it; *)
(*   - the uploader (pkg/rotate, run by cmd/logrotate) lists the volume    *)
(*     now and then, joins the files of each directory into one object of  *)
(*     the bucket, and removes them once the object is closed.             *)
(*                                                                         *)
(* Nothing synchronises the two.  The file of an event is named by the     *)
(* event's type, date and ID (sanitizePathComponent is injective), so a    *)
(* file is identified with its event here.  Lines, sizes and times are     *)
(* left out: a file is absent, torn (created or truncated, its data not    *)
(* all there) or whole.                                                    *)
(***************************************************************************)
EXTENDS Integers, FiniteSets

CONSTANTS Events,            \* events, valid and invalid
          Invalid,           \* events with an empty type or ID
          Dirs,              \* <type>/<date> directories of the volume
          DirOf,             \* the directory of an event's file
          MaxUploadAttempt,  \* 3 in the code
          Deliveries,        \* bound: pushes of each event
          MaxFaults          \* bound: failed calls and crashes in a behaviour

ConstantsAssumption ==
    /\ Invalid \subseteq Events
    /\ DirOf \in [Events -> Dirs]
    /\ Dirs # {}
    /\ MaxUploadAttempt \in Nat \ {0}
    /\ Deliveries \in [Events -> Nat]
    /\ MaxFaults \in Nat

VARIABLES
    files,      \* the file of each event: "none", "torn" or "whole"
    hpc,        \* where the handler of each push is
    linked,     \* handlers whose open file still has its name
    acked,      \* events some handler has acknowledged
    upc,        \* where the uploader is
    toWalk,     \* directories this flush has yet to list
    held,       \* fileMap: files listed by this flush and not yet removed
    cur,        \* the directory whose object is written
    todo,       \* its files still to be copied, or to be removed
    buf,        \* whole events copied to the open writer
    attempt,    \* upload attempts of this directory
    deleteErr,  \* some file of this directory could not be removed
    objects,    \* whole events in this flush's object of each directory
    archive,    \* whole events in objects of earlier flushes
    term,       \* SIGTERM has been received
    final,      \* this is the flush after ctx.Done
    faults,     \* counts failed calls and crashes, up to MaxFaults
    contested,  \* history: events handled twice, or written while listed
    late        \* history: events written after the last flush listed them

recorderVars == <<hpc, linked, acked>>
flushVars    == <<toWalk, held, cur, todo, buf, attempt, deleteErr>>
bucketVars   == <<objects, archive>>
uploaderVars == <<upc, flushVars, bucketVars, final>>
historyVars  == <<contested, late>>
vars == <<files, recorderVars, uploaderVars, term, faults, historyVars>>

\* A push is <<e, n>>, the n-th time event e is pushed; each has a handler.
Pushes == UNION {{e} \X (1 .. Deliveries[e]) : e \in Events}

\* What cur is when no object is written.
AnyDir == CHOOSE d \in Dirs : TRUE

\* The events in the bucket.
Stored == archive \union UNION {objects[d] : d \in Dirs}

Init == /\ files = [e \in Events |-> "none"]
        /\ hpc = [h \in Pushes |-> "unsent"]
        /\ linked = {}
        /\ acked = {}
        /\ upc = "idle"
        /\ toWalk = {} /\ held = {} /\ cur = AnyDir /\ todo = {} /\ buf = {}
        /\ attempt = 1 /\ deleteErr = FALSE
        /\ objects = [d \in Dirs |-> {}] /\ archive = {}
        /\ term = FALSE /\ final = FALSE
        /\ faults = 0
        /\ contested = {} /\ late = {}

\* The handlers at work on an event.
Active(e) == {h \in Pushes : h[1] = e /\ hpc[h] \notin {"unsent", "done"}}

\* Two handlers serve the event, or one serves it after it was acknowledged, or
\* it is written while the uploader has it listed.
Contended(e) == \/ Cardinality(Active(e)) > 1
                \/ e \in acked /\ Active(e) # {}
                \/ e \in held /\ \E h \in Active(e) : hpc[h] = "writing"

Observe == /\ contested' = contested \union {e \in Events : Contended(e)'}
           /\ late' = late \union {e \in Events :
                  files[e] # "whole" /\ files'[e] = "whole" /\ final /\ DirOf[e] \notin toWalk}

\* A call fails, or a container is killed.
Fault == faults < MaxFaults /\ faults' = faults + 1

-----------------------------------------------------------------------------
(***************************************************************************)
(* The recorder: recordEvent, one handler per push                         *)
(***************************************************************************)

\* Pub/Sub delivers at least once: again after the ack deadline, and, rarely,
\* again after the acknowledgement.
Deliver(h) ==
    /\ hpc[h] = "unsent"
    /\ \A n \in 1 .. h[2] - 1 : hpc[<<h[1], n>>] # "unsent"
    /\ hpc' = [hpc EXCEPT ![h] = "open"]
    /\ UNCHANGED <<files, linked, acked, uploaderVars, term, faults>>
    /\ Observe

\* An event with an empty type or ID is logged and acknowledged.
DropInvalid(h) ==
    /\ hpc[h] = "open"
    /\ h[1] \in Invalid
    /\ hpc' = [hpc EXCEPT ![h] = "done"]
    /\ acked' = acked \union {h[1]}
    /\ UNCHANGED <<files, linked, uploaderVars, term, faults>>
    /\ Observe

\* MkdirAll and the first half of WriteFile: the file is created, or truncated
\* if it is there.
Create(h) ==
    /\ hpc[h] = "open"
    /\ h[1] \notin Invalid
    /\ files' = [files EXCEPT ![h[1]] = "torn"]
    /\ linked' = linked \union {h}
    /\ hpc' = [hpc EXCEPT ![h] = "writing"]
    /\ UNCHANGED <<acked, uploaderVars, term, faults>>
    /\ Observe

\* The second half of WriteFile: the data goes to the open file, which has no
\* name any more if someone removed it.
Write(h) ==
    /\ hpc[h] = "writing"
    /\ files' = IF h \in linked THEN [files EXCEPT ![h[1]] = "whole"] ELSE files
    /\ linked' = linked \ {h}
    /\ hpc' = [hpc EXCEPT ![h] = "written"]
    /\ UNCHANGED <<acked, uploaderVars, term, faults>>
    /\ Observe

Ack(h) ==
    /\ hpc[h] = "written"
    /\ acked' = acked \union {h[1]}
    /\ hpc' = [hpc EXCEPT ![h] = "done"]
    /\ UNCHANGED <<files, linked, uploaderVars, term, faults>>
    /\ Observe

\* MkdirAll fails: the event is not acknowledged.
MkdirFails(h) ==
    /\ Fault
    /\ hpc[h] = "open"
    /\ h[1] \notin Invalid
    /\ hpc' = [hpc EXCEPT ![h] = "done"]
    /\ UNCHANGED <<files, linked, acked, uploaderVars, term>>
    /\ Observe

\* WriteFile fails at either half.  Whatever has the file's name is removed,
\* if RemoveAll does not fail too, and the event is not acknowledged.
WriteFails(h) ==
    /\ Fault
    /\ hpc[h] \in {"open", "writing"}
    /\ h[1] \notin Invalid
    /\ \/ /\ files' = [files EXCEPT ![h[1]] = "none"]
          /\ linked' = linked \ Active(h[1])
       \/ UNCHANGED files /\ linked' = linked \ {h}
    /\ hpc' = [hpc EXCEPT ![h] = "done"]
    /\ UNCHANGED <<acked, uploaderVars, term>>
    /\ Observe

\* The recorder's container dies and starts again; the volume stays.
RecorderCrash ==
    /\ Fault
    /\ hpc' = [h \in Pushes |-> IF hpc[h] = "unsent" THEN "unsent" ELSE "done"]
    /\ linked' = {}
    /\ UNCHANGED <<files, acked, uploaderVars, term>>
    /\ Observe

Recorder(h) == DropInvalid(h) \/ Create(h) \/ Write(h) \/ Ack(h)

-----------------------------------------------------------------------------
(***************************************************************************)
(* The uploader: Run and flush                                             *)
(***************************************************************************)

\* Mutant: only the end of the context makes Run flush.
StartFlush_OnTermOnly ==
    /\ upc = "idle"
    /\ term
    /\ final' = TRUE
    /\ upc' = "walk"
    /\ toWalk' = Dirs
    /\ held' = {}
    /\ archive' = Stored
    /\ objects' = [d \in Dirs |-> {}]
    /\ UNCHANGED <<files, cur, todo, buf, attempt, deleteErr, recorderVars, term, faults>>
    /\ Observe

\* The select of Run: the interval has passed, or the context is done and
\* this is the last flush.  OpenBucket, and a new object name.
StartFlush ==
    /\ upc = "idle"
    /\ final' \in {FALSE, term}
    /\ upc' = "walk"
    /\ toWalk' = Dirs
    /\ held' = {}
    /\ archive' = Stored
    /\ objects' = [d \in Dirs |-> {}]
    /\ UNCHANGED <<files, cur, todo, buf, attempt, deleteErr, recorderVars, term, faults>>
    /\ Observe

\* WalkDir lists one directory.
ListDir(d) ==
    /\ upc = "walk"
    /\ d \in toWalk
    /\ toWalk' = toWalk \ {d}
    /\ held' = held \union {e \in Events : DirOf[e] = d /\ files[e] # "none"}
    /\ UNCHANGED <<files, upc, cur, todo, buf, attempt, deleteErr, bucketVars, final,
                   recorderVars, term, faults>>
    /\ Observe

HeldIn(d) == {e \in held : DirOf[e] = d}

\* An attempt to write the object of a directory starts: a new writer.
NewWriter(d) ==
    /\ todo' = HeldIn(d)
    /\ buf' = {}
    /\ upc' = "copy"

\* The next directory of fileMap, in no particular order.
NextDir(d) ==
    /\ upc = "walk"
    /\ toWalk = {}
    /\ HeldIn(d) # {}
    /\ cur' = d
    /\ attempt' = 1
    /\ deleteErr' = FALSE
    /\ NewWriter(d)
    /\ UNCHANGED <<files, toWalk, held, bucketVars, final, recorderVars, term, faults>>
    /\ Observe

\* BufferWriteToBucket: a torn file adds no whole event to the object.
Copy(e) ==
    /\ upc = "copy"
    /\ e \in todo
    /\ files[e] # "none"
    /\ buf' = buf \union {x \in {e} : files[x] = "whole"}
    /\ todo' = todo \ {e}
    /\ UNCHANGED <<files, upc, toWalk, held, cur, attempt, deleteErr, bucketVars, final,
                   recorderVars, term, faults>>
    /\ Observe

\* A file that is gone cannot be opened, and any other file may fail to be
\* read, scanned or written.  The writer is closed, which keeps what it has,
\* and Run returns the error.
CopyFails(e) ==
    /\ upc = "copy"
    /\ e \in todo
    /\ IF files[e] = "none" THEN UNCHANGED faults ELSE Fault
    /\ objects' \in {objects, [objects EXCEPT ![cur] = buf]}
    /\ upc' = "dead"
    /\ UNCHANGED <<files, flushVars, archive, final, recorderVars, term>>
    /\ Observe

\* The object is in the bucket when Close returns without an error.
Close ==
    /\ upc = "copy"
    /\ todo = {}
    /\ objects' = [objects EXCEPT ![cur] = buf]
    /\ todo' = HeldIn(cur)
    /\ upc' = "remove"
    /\ UNCHANGED <<files, toWalk, held, cur, buf, attempt, deleteErr, archive, final,
                   recorderVars, term, faults>>
    /\ Observe

\* Mutant: the error of Close is logged and the files are removed.
CloseFails_Ignored ==
    /\ Fault
    /\ upc = "copy"
    /\ todo = {}
    /\ objects' \in {objects, [objects EXCEPT ![cur] = buf]}
    /\ upc' = "remove"
    /\ todo' = HeldIn(cur)
    /\ UNCHANGED <<files, toWalk, held, cur, buf, attempt, deleteErr, archive, final,
                   recorderVars, term>>
    /\ Observe

\* Mutant: one attempt too many.
CloseFails_OneMore ==
    /\ Fault
    /\ upc = "copy"
    /\ todo = {}
    /\ objects' \in {objects, [objects EXCEPT ![cur] = buf]}
    /\ IF attempt > MaxUploadAttempt
         THEN upc' = "dead" /\ UNCHANGED <<todo, buf, attempt>>
         ELSE NewWriter(cur) /\ attempt' = attempt + 1
    /\ UNCHANGED <<files, toWalk, held, cur, deleteErr, archive, final, recorderVars, term>>
    /\ Observe

\* An error of Close, which does not say whether the object is there: the whole
\* attempt is made again, unless it was the last.
CloseFails ==
    /\ Fault
    /\ upc = "copy"
    /\ todo = {}
    /\ objects' \in {objects, [objects EXCEPT ![cur] = buf]}
    /\ IF attempt = MaxUploadAttempt
         THEN upc' = "dead" /\ UNCHANGED <<todo, buf, attempt>>
         ELSE NewWriter(cur) /\ attempt' = attempt + 1
    /\ UNCHANGED <<files, toWalk, held, cur, deleteErr, archive, final, recorderVars, term>>
    /\ Observe

\* os.Remove: whoever has the file open goes on writing to a file without name.
Remove(e) ==
    /\ upc = "remove"
    /\ e \in todo
    /\ files[e] # "none"
    /\ files' = [files EXCEPT ![e] = "none"]
    /\ linked' = linked \ Active(e)
    /\ todo' = todo \ {e}
    /\ held' = held \ {e}
    /\ UNCHANGED <<upc, toWalk, cur, buf, attempt, deleteErr, bucketVars, final,
                   hpc, acked, term, faults>>
    /\ Observe

\* The file is gone already, or cannot be removed: noted, and on to the next.
RemoveFails(e) ==
    /\ upc = "remove"
    /\ e \in todo
    /\ IF files[e] = "none" THEN UNCHANGED faults ELSE Fault
    /\ deleteErr' = TRUE
    /\ todo' = todo \ {e}
    /\ held' = held \ {e}
    /\ UNCHANGED <<files, upc, toWalk, cur, buf, attempt, bucketVars, final, recorderVars, term>>
    /\ Observe

\* The directory is done; an error of Remove ends Run.
DirDone ==
    /\ upc = "remove"
    /\ todo = {}
    /\ upc' = IF deleteErr THEN "dead" ELSE "walk"
    /\ cur' = AnyDir /\ buf' = {} /\ attempt' = 1 /\ deleteErr' = FALSE
    /\ UNCHANGED <<files, toWalk, held, todo, bucketVars, final, recorderVars, term, faults>>
    /\ Observe

\* Mutant: a flush that was under way when SIGTERM came is taken for the last.
FlushDone_OnTerm ==
    /\ upc = "walk"
    /\ toWalk = {}
    /\ held = {}
    /\ upc' = IF term THEN "exited" ELSE "idle"
    /\ UNCHANGED <<files, flushVars, bucketVars, final, recorderVars, term, faults>>
    /\ Observe

\* flush returns; Run returns too if it was the last one.
FlushDone ==
    /\ upc = "walk"
    /\ toWalk = {}
    /\ held = {}
    /\ upc' = IF final THEN "exited" ELSE "idle"
    /\ UNCHANGED <<files, flushVars, bucketVars, final, recorderVars, term, faults>>
    /\ Observe

\* OpenBucket, WalkDir or NewWriter fails, or the container is killed.
UploaderCrash ==
    /\ Fault
    /\ upc \notin {"dead", "exited"}
    /\ upc' = "dead"
    /\ UNCHANGED <<files, flushVars, bucketVars, final, recorderVars, term>>
    /\ Observe

\* main ends with Fatalf; the container starts again with the volume as it is,
\* unless the instance is going away.
Restart ==
    /\ upc = "dead"
    /\ ~term
    /\ upc' = "idle"
    /\ toWalk' = {} /\ held' = {} /\ cur' = AnyDir /\ todo' = {} /\ buf' = {}
    /\ attempt' = 1 /\ deleteErr' = FALSE
    /\ UNCHANGED <<files, bucketVars, final, recorderVars, term, faults>>
    /\ Observe

Uploader == \/ StartFlush \/ Close \/ CloseFails \/ DirDone \/ FlushDone \/ Restart
            \/ \E d \in Dirs : ListDir(d) \/ NextDir(d)
            \/ \E e \in Events : Copy(e) \/ CopyFails(e) \/ Remove(e) \/ RemoveFails(e)

-----------------------------------------------------------------------------
\* The instance is told to stop.
Sigterm == /\ ~term
           /\ term' = TRUE
           /\ UNCHANGED <<files, recorderVars, uploaderVars, faults>>
           /\ Observe

Next == \/ \E h \in Pushes : Deliver(h) \/ Recorder(h) \/ MkdirFails(h) \/ WriteFails(h)
        \/ RecorderCrash
        \/ Uploader
        \/ UploaderCrash
        \/ Sigterm

Spec == Init /\ [][Next]_vars

\* Handlers run, the interval passes, and the uploader and its container run on.
\* Nothing makes Pub/Sub push, the instance stop, or a call fail.
Fairness == /\ \A h \in Pushes : WF_vars(Recorder(h))
            /\ WF_vars(Uploader)

FairSpec == Spec /\ Fairness

-----------------------------------------------------------------------------
(***************************************************************************)
(* Properties                                                              *)
(***************************************************************************)

TypeOK == /\ files \in [Events -> {"none", "torn", "whole"}]
          /\ hpc \in [Pushes -> {"unsent", "open", "writing", "written", "done"}]
          /\ linked \subseteq Pushes
          /\ acked \subseteq Events
          /\ upc \in {"idle", "walk", "copy", "remove", "dead", "exited"}
          /\ toWalk \subseteq Dirs
          /\ held \subseteq Events
          /\ cur \in Dirs
          /\ todo \subseteq held
          /\ buf \subseteq Events
          /\ attempt \in 1 .. MaxUploadAttempt
          /\ deleteErr \in BOOLEAN
          /\ objects \in [Dirs -> SUBSET Events]
          /\ archive \subseteq Events
          /\ term \in BOOLEAN
          /\ final \in BOOLEAN
          /\ faults \in 0 .. MaxFaults
          /\ contested \subseteq Events
          /\ late \subseteq Events

Recordable == Events \ Invalid

\* An acknowledged event is on the volume, whole, or in the bucket, whatever
\* fails and whenever a container dies: Pub/Sub will not push it again.  Except
\* for the events that were contested, which nothing protects.
AckedIsKept == \A e \in (acked \intersect Recordable) \ contested :
                   files[e] = "whole" \/ e \in Stored

\* The flush after SIGTERM leaves nothing behind that was there when it listed
\* the volume: when the uploader exits, and the volume goes, every acknowledged
\* event that is neither contested nor late is in the bucket.
LastFlushTakesAll == upc = "exited" =>
    (acked \intersect Recordable) \ (contested \union late) \subseteq Stored

\* "Only delete files after a successful upload" (blob.go): a file the uploader
\* removes holds an event that is in the bucket, or no whole event.
RemovesUploaded    == \A e \in Events : Remove(e) /\ files[e] = "whole" => e \in Stored
DeleteOnlyUploaded == [][RemovesUploaded]_vars

\* While the instance is not told to stop, an acknowledged event that is not
\* contested gets to the bucket: a failed flush is followed by another one.
AckedIsStored == \A e \in Recordable :
    e \in acked ~> (e \in Stored \/ e \in contested \/ term)
=============================================================================
