------------------------------- MODULE GitExec -------------------------------
(***************************************************************************)
(* One call of gitexec.Run or gitexec.Output (pkg/gitexec): git runs, what *)
(* it writes goes to the writers of the caller, to the result, and the end *)
(* of its errors to the log; and the go-git calls of pkg/gitexec/gogit.    *)
(*                                                                         *)
(* A byte is the number of its place in all that was written.  A helper of *)
(* git (ssh, git-remote-https) has the pipes too, and may outlive it.      *)
(***************************************************************************)
EXTENDS Integers, Sequences, Functions

CONSTANTS Limit,    \* stderrTailBytes
          MaxBytes, \* bound: bytes that are written
          MaxWrite  \* bound: bytes of one write

ConstantsAssumption == {Limit, MaxBytes, MaxWrite} \subseteq Nat \ {0}

VARIABLES command,  \* of the caller
          git, helper,
          written,  \* history: the stream each byte was written to
          pipe,     \* what is in each pipe
          copier,   \* the goroutines of os/exec
          content,  \* what each writer has
          failure,  \* a writer of the caller has failed
          result    \* what the caller gets, and what is recorded

vars == <<command, git, helper, written, pipe, copier, content, failure, result>>

Streams == {"stdout", "stderr"}
Callers == {"a", "b"}  \* writers of the caller
Writers == Callers \union {"captured", "tail"}

\* go-git is not run, but called.  Two fields that hold the same writer are equal
\* unless its type cannot be compared.
Commands == [kind : {"exec"}, stdout : {"none", "a"}, stderr : {"none", "a", "b"},
             comparable : BOOLEAN, captureStdout : BOOLEAN]
GoGit    == [kind : {"go-git"}]

Suffix(s) == SubSeq(s, IF Len(s) > Limit THEN Len(s) - Limit + 1 ELSE 1, Len(s))

-----------------------------------------------------------------------------
writersEqual(c) == c.stdout = c.stderr /\ c.comparable

\* "The caller pointed Stdout and Stderr at one writer."
Combined(c) == c.stdout # "none" /\ writersEqual(c)

Given(w) == IF w = "none" THEN {} ELSE {w}

\* Mutant: the errors are wrapped, and nothing else.
Wired_StderrAlone(c) ==
    [stdout |-> [pipe |-> "stdout",
                 to   |-> Given(c.stdout) \union (IF c.captureStdout THEN {"captured"} ELSE {})],
     stderr |-> [pipe |-> "stderr", to |-> Given(c.stderr) \union {"tail"}]]

\* The pipe of each stream, and the writers that get what is in it.  os/exec has
\* one pipe and one goroutine for two fields that hold the same writer.
Wired(c) ==
    LET captured == IF c.captureStdout THEN {"captured"} ELSE {}
        both     == [pipe |-> "stdout", to |-> Given(c.stdout) \union {"tail"} \union captured]
    IN  IF Combined(c)
        THEN [stdout |-> both, stderr |-> both]
        ELSE [stdout |-> [pipe |-> "stdout", to |-> Given(c.stdout) \union captured],
              stderr |-> [pipe |-> "stderr", to |-> Given(c.stderr) \union {"tail"}]]

To(p)     == UNION {Wired(command)[s].to : s \in {t \in Streams : Wired(command)[t].pipe = p}}
Copied(p) == To(p) # {}

Idle == [at |-> "read", chunk |-> <<>>, seen |-> [w \in Writers |-> <<>>]]
Over == [Idle EXCEPT !.at = "over"]

NoResult == [err |-> "none", outcome |-> "none", exit |-> 0, returned |-> <<>>, tail |-> <<>>]

Init == /\ command \in Commands \union GoGit
        /\ git = "start"
        /\ helper = FALSE
        /\ written = <<>>
        /\ pipe = [s \in Streams |-> <<>>]
        /\ copier = [s \in Streams |-> Idle]
        /\ content = [w \in Writers |-> <<>>]
        /\ failure = FALSE
        /\ result = NoResult

-----------------------------------------------------------------------------
(***************************************************************************)
(* git                                                                     *)
(***************************************************************************)

\* cmd.Start: git runs, with a goroutine for each pipe; or there is none to run,
\* or the context is done.
Start(ok) ==
    /\ command.kind = "exec" /\ git = "start"
    /\ git' = IF ok THEN "runs" ELSE "no start"
    /\ copier' = [s \in Streams |-> IF ok /\ Copied(s) THEN Idle ELSE Over]
    /\ UNCHANGED <<command, helper, written, pipe, content, failure, result>>

\* git or its helper writes to one of the streams.
Write(s, n) ==
    /\ git = "runs" \/ helper
    /\ Len(written) + n <= MaxBytes
    /\ written' = written \o [i \in 1 .. n |-> s]
    /\ LET p == Wired(command)[s].pipe
       IN  pipe' = IF Copied(p) /\ copier[p].at # "over"
                   THEN [pipe EXCEPT ![p] = @ \o [i \in 1 .. n |-> Len(written) + i]]
                   ELSE pipe
    /\ UNCHANGED <<command, git, helper, copier, content, failure, result>>

Spawn == /\ git = "runs" /\ ~helper
         /\ helper' = TRUE
         /\ UNCHANGED <<command, git, written, pipe, copier, content, failure, result>>

HelperEnds == /\ helper
              /\ helper' = FALSE
              /\ UNCHANGED <<command, git, written, pipe, copier, content, failure, result>>

GitEnds == /\ git = "runs"
           /\ git' \in {"exit 0", "exit 1"}
           /\ UNCHANGED <<command, helper, written, pipe, copier, content, failure, result>>

\* The context is done: os/exec kills git, and nothing else.
Cancel == /\ git = "runs"
          /\ git' = "killed"
          /\ UNCHANGED <<command, helper, written, pipe, copier, content, failure, result>>

-----------------------------------------------------------------------------
(***************************************************************************)
(* os/exec and the writers                                                 *)
(***************************************************************************)

\* A goroutine has read what is in its pipe, and the writers are as it sees them.
Read(p) ==
    /\ git # "start" /\ copier[p].at = "read" /\ pipe[p] # <<>>
    /\ copier' = [copier EXCEPT ![p] = [at |-> "write", chunk |-> pipe[p], seen |-> content]]
    /\ pipe' = [pipe EXCEPT ![p] = <<>>]
    /\ UNCHANGED <<command, git, helper, written, content, failure, result>>

\* Mutant: the end of the buffer that is there, and all of what comes.
TailWrite_BufferOnly(buf, p) == Suffix(buf) \o p

\* tailBuffer.Write.
TailWrite(buf, p) == IF Len(p) >= Limit THEN Suffix(p) ELSE Suffix(buf \o p)

\* The MultiWriter: each gets the chunk.  Two goroutines at one writer, neither
\* sees what the other writes.
CopyTo(p) ==
    LET c == copier[p]
    IN  /\ c.at = "write"
        /\ content' = [w \in Writers |->
                         CASE w \notin To(p)                -> content[w]
                           [] w \in To(p) /\ w = "tail"     -> TailWrite(c.seen[w], c.chunk)
                           [] OTHER                         -> c.seen[w] \o c.chunk]
        /\ copier' = [copier EXCEPT ![p] = Idle]
        /\ UNCHANGED <<command, git, helper, written, pipe, failure, result>>

\* The first, that of the caller, fails: the others get nothing, and the goroutine
\* closes the pipe.
CopyFails(p) ==
    /\ copier[p].at = "write" /\ To(p) \intersect Callers # {}
    /\ copier' = [copier EXCEPT ![p] = Over]
    /\ pipe' = [pipe EXCEPT ![p] = <<>>]
    /\ failure' = TRUE
    /\ UNCHANGED <<command, git, helper, written, content, result>>

\* The end of a pipe that nobody has open for writing.
CopyEnds(p) ==
    /\ git \notin {"start", "runs"} /\ ~helper
    /\ copier[p].at = "read" /\ pipe[p] = <<>>
    /\ copier' = [copier EXCEPT ![p] = Over]
    /\ UNCHANGED <<command, git, helper, written, pipe, content, failure, result>>

-----------------------------------------------------------------------------
(***************************************************************************)
(* The record                                                              *)
(***************************************************************************)

exitCodeFor(err) == CASE err = "none"   -> 0
                      [] err = "exit 1" -> 1
                      [] OTHER          -> -1

outcomeFor(err) == IF err = "none" THEN "success" ELSE "failure"

\* What cmd.Run returns: how git ended, if not well, before the error of a writer.
RunError == CASE git # "exit 0"           -> git
              [] git = "exit 0" /\ failure -> "writer"
              [] OTHER                     -> "none"

\* cmd.Run waits for git, and for the goroutines; the log has the tail only on failure.
Record ==
    /\ git \notin {"start", "runs"}
    /\ \A s \in Streams : copier[s].at = "over"
    /\ result = NoResult
    /\ result' = [err |-> RunError, outcome |-> outcomeFor(RunError), exit |-> exitCodeFor(RunError),
                  returned |-> content["captured"],
                  tail |-> IF RunError = "none" THEN <<>> ELSE content["tail"]]
    /\ UNCHANGED <<command, git, helper, written, pipe, copier, content, failure>>

\* gogit's observe around a call of go-git: that there was nothing to get is no
\* failure, but is returned.
Observe(err) ==
    /\ command.kind = "go-git" /\ result = NoResult /\ git = "start"
    /\ LET seen == IF err = "already up-to-date" THEN "none" ELSE err
       IN  result' = [NoResult EXCEPT !.err = err, !.outcome = outcomeFor(seen), !.exit = exitCodeFor(seen)]
    /\ git' = "called"
    /\ UNCHANGED <<command, helper, written, pipe, copier, content, failure>>

Next == \/ \E ok \in BOOLEAN : Start(ok)
        \/ \E s \in Streams, n \in 1 .. MaxWrite : Write(s, n)
        \/ Spawn \/ HelperEnds \/ GitEnds \/ Cancel
        \/ \E p \in Streams : Read(p) \/ CopyTo(p) \/ CopyFails(p) \/ CopyEnds(p)
        \/ Record
        \/ \E err \in {"none", "already up-to-date", "failed"} : Observe(err)

Spec == Init /\ [][Next]_vars

-----------------------------------------------------------------------------
(***************************************************************************)
(* Properties                                                              *)
(***************************************************************************)

TypeOK == /\ command \in Commands \union GoGit
          /\ git \in {"start", "no start", "runs", "exit 0", "exit 1", "killed", "called"}
          /\ {helper, failure} \subseteq BOOLEAN
          /\ Len(written) <= MaxBytes
          /\ \A s \in Streams : copier[s].at \in {"read", "write", "over"}
          /\ Len(content["tail"]) <= Limit /\ Len(result.tail) <= Limit
          /\ result.exit \in {-1, 0, 1}

BytesOf(streams) == {i \in DOMAIN written : written[i] \in streams}

InOrder(s) == \A i, j \in DOMAIN s : i < j => s[i] < s[j]

\* All of the bytes ...
All(s, bytes) == InOrder(s) /\ Range(s) = bytes

\* ... or the end of them, as many as the tail holds.
TheEnd(s, bytes) ==
    /\ InOrder(s) /\ Range(s) \subseteq bytes
    /\ \A b \in bytes \ Range(s), i \in DOMAIN s : b < s[i]
    /\ Len(s) <= Limit
    /\ Len(s) < Limit => Range(s) = bytes

\* Whose writer cannot be compared, and is both, has it written by two goroutines,
\* as with os/exec alone.
TwoAtOne == command.stdout = command.stderr /\ command.stdout # "none" /\ ~command.comparable

\* What the caller, its writers and the log get, when the call returns, is all that
\* git and its helpers wrote, in their order and to the last byte, though pipes,
\* goroutines and writers are several; of the errors the log has the end.
AllOfIt ==
    (result # NoResult /\ command.kind = "exec" /\ ~failure) =>
        LET err  == IF Combined(command) THEN Streams ELSE {"stderr"}
            out  == IF Combined(command) THEN Streams ELSE {"stdout"}
        IN  /\ command.captureStdout => All(result.returned, BytesOf(out))
            /\ result.err # "none" => TheEnd(result.tail, BytesOf(err))
            /\ command.stdout = "a" /\ ~TwoAtOne => All(content["a"], BytesOf(out))
            /\ command.stderr = "b" => All(content["b"], BytesOf(err))

\* A call is recorded as a failure if the caller gets an error, but for that which
\* says that there was nothing to do.
OutcomeIsTrue ==
    result # NoResult =>
        (result.outcome = "failure") = (result.err \notin {"none", "already up-to-date"})

AsItWas == AllOfIt /\ OutcomeIsTrue
=============================================================================
