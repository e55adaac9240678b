---------------------------- MODULE CheckBuilder ----------------------------
(***************************************************************************)
(* The builder of a check run (modules/github-bots/sdk/check): the handler *)
(* writes a text piece by piece, and sends it at any time.  A text that is *)
(* longer than GitHub takes is cut, and says so; the pieces written after  *)
(* that go nowhere.  The text is a sequence of bytes.                      *)
(***************************************************************************)
EXTENDS Integers, Sequences

CONSTANTS Byte,
          Pieces,     \* what one call of Writef writes, its newline included
          MaxLength,  \* maxCheckOutputLength
          Message,    \* truncationMessage
          Name,
          Summaries,
          Conclusions,
          MaxWritten  \* bound: pieces written

None == ""

ConstantsAssumption == /\ Pieces \subseteq Seq(Byte) \ {<<>>}
                       /\ Message \in Seq(Byte)
                       /\ MaxLength \in Nat
                       /\ Len(Message) <= MaxLength
                       /\ MaxWritten \in Nat
                       /\ Name # None

VARIABLES md, summary, conclusion,
          sent,     \* the options GitHub was sent last
          written,  \* history: all that was written
          pieces    \* history: how many pieces that was

vars == <<md, summary, conclusion, sent, written, pieces>>

Init == /\ md = <<>>
        /\ summary \in Summaries \union {None}
        /\ conclusion = None
        /\ sent = [title |-> None, text |-> <<>>, conclusion |-> None, status |-> None]
        /\ written = <<>>
        /\ pieces = 0

\* The bytes that are left of s, and the message.
Cut(s) == SubSeq(s, 1, MaxLength - Len(Message)) \o Message

\* Mutant: the room for the message is not left.
Truncate_NoRoom(s) == IF Len(s) > MaxLength THEN SubSeq(s, 1, MaxLength) \o Message ELSE s

Truncate(s) == IF Len(s) > MaxLength THEN Cut(s) ELSE s

\* Mutant: the end of the text stays.
Writef_End(piece) ==
    /\ pieces < MaxWritten
    /\ LET all == md \o piece
       IN  md' = IF Len(all) > MaxLength
                 THEN Message \o SubSeq(all, Len(all) - MaxLength + Len(Message) + 1, Len(all))
                 ELSE all
    /\ written' = written \o piece
    /\ pieces' = pieces + 1
    /\ UNCHANGED <<summary, conclusion, sent>>

\* A text that was cut has just MaxLength bytes: the piece comes after the
\* message, and is cut off with it.
Writef(piece) ==
    /\ pieces < MaxWritten
    /\ md' = Truncate(IF Len(md) <= MaxLength THEN md \o piece ELSE md)
    /\ written' = written \o piece
    /\ pieces' = pieces + 1
    /\ UNCHANGED <<summary, conclusion, sent>>

\* The handler sets fields of the builder; nothing reads Status.
Set == /\ \/ summary' \in Summaries /\ UNCHANGED conclusion
          \/ conclusion' \in Conclusions /\ UNCHANGED summary
       /\ UNCHANGED <<md, sent, written, pieces>>

\* CheckRunCreate, and CheckRunUpdate which is made of it.
CheckRun ==
    LET title == IF summary = None THEN Name ELSE summary
    IN  /\ summary' = title
        /\ sent' = [title |-> title, text |-> md, conclusion |-> conclusion,
                    status |-> IF conclusion = None THEN "in_progress" ELSE "completed"]
        /\ UNCHANGED <<md, conclusion, written, pieces>>

Next == (\E piece \in Pieces : Writef(piece)) \/ Set \/ CheckRun

Spec == Init /\ [][Next]_vars

-----------------------------------------------------------------------------
(***************************************************************************)
(* Properties                                                              *)
(***************************************************************************)

\* What GitHub is sent has a title.
TypeOK == /\ md \in Seq(Byte)
          /\ summary \in Summaries \union {None, Name}
          /\ conclusion \in Conclusions \union {None}
          /\ sent.status # None => sent.title # None
          /\ written \in Seq(Byte)
          /\ pieces \in 0 .. MaxWritten

\* "it will be truncated and a message will be appended": whatever the pieces
\* and however many there are, the text is all that was written when there is
\* room for that, and else the first of it and one message, of just the length
\* that GitHub takes.
TextIsWhole == md = IF Len(written) <= MaxLength THEN written ELSE Cut(written)
=============================================================================
