---------------------------- MODULE BotComments ----------------------------
(***************************************************************************)
(* SetComment and AddComment (modules/github-bots/sdk/github.go) on one    *)
(* pull request.  A comment of a bot is one whose body contains the bot's  *)
(* marker; SetComment lists comments, then edits the first it knows by the *)
(* marker, or creates one.  Calls of several bots, and several of one bot, *)
(* run at a time: each event is handled on its own, and an event whose     *)
(* call failed is handled again.                                           *)
(***************************************************************************)
EXTENDS Integers, Sequences, FiniteSets

CONSTANTS Bots,       \* names of bots
          Sets, Adds, \* calls of SetComment and of AddComment
          BotOf,      \* the bot that makes each call
          PageSize,   \* comments that GitHub lists on a page
          MaxPeople,  \* bound: comments people make
          MaxDeleted, \* bound: comments people delete
          MaxFaults   \* bound: failed calls of GitHub

Calls  == Sets \union Adds
People == "people"

ConstantsAssumption ==
    /\ Sets \intersect Adds = {}
    /\ BotOf \in [Sets \union Adds -> Bots]
    /\ PageSize \in Nat \ {0}
    /\ {MaxPeople, MaxDeleted, MaxFaults} \subseteq Nat
    /\ People \notin Bots

VARIABLES
    comments, \* in the order they were made: author, markers in the body, live
    pc,       \* where each call is
    target,   \* the comment each call has found, 0 for none
    faults,   \* failures of GitHub
    excused   \* history: bots two calls of which overlapped, that had more than a
              \* page to read, an answer of which was lost, or that called AddComment

vars == <<comments, pc, target, faults, excused>>

Comment(author, bots) == [author |-> author, bots |-> bots, live |-> TRUE]

Init == /\ comments = << >>
        /\ pc = [c \in Calls |-> "start"]
        /\ target = [c \in Calls |-> 0]
        /\ faults = 0
        /\ excused = {}

Live == {i \in DOMAIN comments : comments[i].live}
Of(b) == {i \in Live : comments[i].author = b}

-----------------------------------------------------------------------------
(***************************************************************************)
(* GitHub and people                                                       *)
(***************************************************************************)

\* What ListComments returns without options: the first page, oldest first.
FirstPage == {i \in Live : Cardinality({j \in Live : j <= i}) <= PageSize}

\* Somebody comments, and may quote the comment of a bot, its marker included.
Say ==
    /\ Cardinality({i \in DOMAIN comments : comments[i].author = People}) < MaxPeople
    /\ \E bots \in {{}} \union {{b} : b \in Bots} :
           comments' = Append(comments, Comment(People, bots))
    /\ UNCHANGED <<pc, target, faults, excused>>

Delete(i) ==
    /\ Cardinality(DOMAIN comments \ Live) < MaxDeleted
    /\ i \in Live
    /\ comments' = [comments EXCEPT ![i].live = FALSE]
    /\ UNCHANGED <<pc, target, faults, excused>>

Fault == faults < MaxFaults /\ faults' = faults + 1

-----------------------------------------------------------------------------
(***************************************************************************)
(* SetComment and AddComment                                               *)
(***************************************************************************)

\* Mutant: the body is not looked at.
Found_AnyBody(b) == IF FirstPage = {} THEN 0 ELSE CHOOSE i \in FirstPage : \A j \in FirstPage : i <= j

\* Mutant: the loop takes the place of the comment for its index.
Found_OffByOne(b) ==
    LET marked == {i \in FirstPage : b \in comments[i].bots}
    IN  IF marked = {} THEN 0 ELSE 1 + CHOOSE i \in marked : \A j \in marked : i <= j

\* The first listed comment whose body contains the marker.
Found(b) ==
    LET marked == {i \in FirstPage : b \in comments[i].bots}
    IN  IF marked = {} THEN 0 ELSE CHOOSE i \in marked : \A j \in marked : i <= j

List(c) ==
    /\ c \in Sets
    /\ pc[c] = "start"
    /\ pc' = [pc EXCEPT ![c] = "listed"]
    /\ target' = [target EXCEPT ![c] = Found(BotOf[c])]
    /\ excused' = excused \union
           IF \/ FirstPage # Live
              \/ \E d \in Sets \ {c} : BotOf[d] = BotOf[c] /\ pc[d] = "listed"
           THEN {BotOf[c]} ELSE {}
    /\ UNCHANGED <<comments, faults>>

\* An error of ListComments, EditComment or CreateComment that did not get there.
CallFails(c) ==
    /\ pc[c] \in {"start", "listed"}
    /\ Fault
    /\ pc' = [pc EXCEPT ![c] = "failed"]
    /\ UNCHANGED <<comments, target, excused>>

\* The call succeeds; or GitHub did its part and the answer is lost.
Done(c) ==
    \/ pc' = [pc EXCEPT ![c] = "done"] /\ UNCHANGED faults
    \/ pc' = [pc EXCEPT ![c] = "failed"] /\ Fault

\* Mutant: an error of EditComment is followed by CreateComment.
EditComment_ElseCreate(c) ==
    /\ pc[c] = "listed"
    /\ target[c] # 0
    /\ \/ /\ target[c] \in Live
          /\ comments' = [comments EXCEPT ![target[c]].bots = {BotOf[c]}]
       \/ comments' = Append(comments, Comment(BotOf[c], {BotOf[c]}))
    /\ Done(c)
    /\ UNCHANGED <<target, excused>>

\* The body of the comment becomes the marker and the content.  A comment that
\* is gone is an error.
EditComment(c) ==
    /\ pc[c] = "listed"
    /\ target[c] # 0
    /\ IF target[c] \in Live
       THEN comments' = [comments EXCEPT ![target[c]].bots = {BotOf[c]}] /\ Done(c)
       ELSE /\ pc' = [pc EXCEPT ![c] = "failed"]
            /\ UNCHANGED <<comments, faults>>
    /\ UNCHANGED <<target, excused>>

CreateComment(c) ==
    /\ IF c \in Sets THEN pc[c] = "listed" /\ target[c] = 0 ELSE pc[c] = "start"
    /\ comments' = Append(comments, Comment(BotOf[c], {BotOf[c]}))
    /\ Done(c)
    /\ excused' = excused \union IF c \in Adds \/ pc'[c] = "failed" THEN {BotOf[c]} ELSE {}
    /\ UNCHANGED target

\* The handler returned the error, and its event is delivered again.
Retry(c) ==
    /\ pc[c] = "failed"
    /\ pc' = [pc EXCEPT ![c] = "start"]
    /\ UNCHANGED <<comments, target, faults, excused>>

Next == \/ Say
        \/ \E i \in DOMAIN comments : Delete(i)
        \/ \E c \in Calls : List(c) \/ EditComment(c) \/ CreateComment(c) \/ Retry(c) \/ CallFails(c)

Spec == Init /\ [][Next]_vars

-----------------------------------------------------------------------------
(***************************************************************************)
(* Properties                                                              *)
(***************************************************************************)

\* A call has found something only when it has listed, and only AddComment does not.
TypeOK ==
    /\ comments \in Seq([author : Bots \union {People}, bots : SUBSET Bots, live : BOOLEAN])
    /\ pc \in [Calls -> {"start", "listed", "failed", "done"}]
    /\ target \in [Calls -> 0 .. Len(comments)]
    /\ \A c \in Adds : pc[c] # "listed" /\ target[c] = 0
    /\ faults \in 0 .. MaxFaults
    /\ excused \subseteq Bots

\* Failures, retries, and comments that come and go do not give a bot two
\* comments: for that two of its calls overlap, there is more than a page to
\* read, the answer to CreateComment is lost, or it calls AddComment.
OneComment == \A b \in Bots \ excused : Cardinality(Of(b)) <= 1

\* SetComment changes no comment but its bot's: not another bot's, and not that of
\* a person who did not quote a marker.
NotOfOthers ==
    \A i \in DOMAIN comments :
        comments[i].author \in Bots => comments[i].bots = {comments[i].author}

\* A bot has one comment, and no bot has that of another.
OneOfItsOwn == OneComment /\ NotOfOthers

\* A comment that no bot has as its own stays as people wrote it.
LeaveAlone         == \A i \in DOMAIN comments : comments[i].bots = {} => comments'[i].bots = {}
PeopleAreLeftAlone == [][LeaveAlone]_comments

=============================================================================
