------------------------------- MODULE DejaVu -------------------------------
(***************************************************************************)
(* dejavu-bq (modules/cloudevent-recorder/cmd/dejavu-bq/main.go): each row *)
(* of a query is sent as an event to a bot.  Rows come a page at a time;   *)
(* an error of the iterator is its answer from then on.  An event has up   *)
(* to maxRetry retries, which SIGTERM does not cut short.  A row may have  *)
(* a value that JSON does not have (a FLOAT64 that is NaN): it ends the    *)
(* program.                                                                *)
(***************************************************************************)
EXTENDS Integers

CONSTANTS Rows,         \* number of rows the query has
          PageSize,     \* rows that are read at a time
          MaxRetry,     \* retries of an event
          MaxFaults,    \* bound: attempts that fail
          MaxReadErrors,\* bound: errors of BigQuery
          MaySigterm,   \* SIGTERM may come
          MaxNulls      \* bound: events without a row that are counted

ConstantsAssumption ==
    /\ {Rows, MaxRetry, MaxFaults, MaxReadErrors, MaxNulls} \subseteq Nat
    /\ PageSize \in Nat \ {0}
    /\ MaySigterm \in BOOLEAN

Row  == 1 .. Rows
Null == 0       \* the event made of no row: its data is null

VARIABLES
    unfit,     \* rows of which no event can be made
    pc,        \* "query", "next", "send" or "ended"
    row,       \* the row of the event, or Null
    read,      \* rows the iterator has read
    given,     \* rows the iterator has given
    broken,    \* the iterator has had an error
    sigterm,   \* the context of main is cancelled
    tries,     \* attempts made with the event
    got,       \* per row and Null: times the bot accepted its event
    faults,    \* attempts that failed
    errors,    \* errors of BigQuery
    excused    \* history: rows an attempt of which failed

vars == <<unfit, pc, row, read, given, broken, sigterm, tries, got, faults, errors, excused>>

Init == /\ unfit \in SUBSET Row
        /\ pc = "query"
        /\ row = Null
        /\ read = 0
        /\ given = 0
        /\ broken = FALSE
        /\ sigterm = FALSE
        /\ tries = 0
        /\ got = [r \in Row \union {Null} |-> 0]
        /\ faults = 0
        /\ errors = 0
        /\ excused = {}

-----------------------------------------------------------------------------
(***************************************************************************)
(* The query, and the loop over the rows                                   *)
(***************************************************************************)

\* The client is made, and the query runs.
Query == /\ pc = "query"
         /\ ~sigterm
         /\ pc' = "next"
         /\ UNCHANGED <<unfit, row, read, given, broken, sigterm, tries, got, faults, errors, excused>>

\* Either ends with an error, or the context is cancelled.
QueryFails == /\ pc = "query"
              /\ \/ sigterm /\ UNCHANGED errors
                 \/ errors < MaxReadErrors /\ errors' = errors + 1
              /\ broken' = TRUE
              /\ pc' = "ended"
              /\ UNCHANGED <<unfit, row, read, given, sigterm, tries, got, faults, excused>>

\* The iterator has to ask BigQuery for more.
MustRead == given = read /\ read < Rows

\* json.Marshal and SetData: an error of theirs ends the program.
Send(r) == row' = r /\ tries' = 0 /\ pc' = IF r \in unfit THEN "ended" ELSE "send"

\* Mutant: the iterator is moved on before the row is taken.
NextRow_Skips ==
    /\ pc = "next"
    /\ ~broken
    /\ given < Rows
    /\ MustRead => ~sigterm
    /\ read' = IF MustRead THEN (IF read + PageSize < Rows THEN read + PageSize ELSE Rows) ELSE read
    /\ given' = IF given + 2 < read' THEN given + 2 ELSE read'
    /\ Send(given')
    /\ UNCHANGED <<unfit, broken, sigterm, got, faults, errors, excused>>

\* The iterator gives the next row, of a page it has or of one it reads.
NextRow ==
    /\ pc = "next"
    /\ ~broken
    /\ given < Rows
    /\ MustRead => ~sigterm
    /\ read' = IF MustRead THEN (IF read + PageSize < Rows THEN read + PageSize ELSE Rows) ELSE read
    /\ given' = given + 1
    /\ Send(given')
    /\ UNCHANGED <<unfit, broken, sigterm, got, faults, errors, excused>>

\* BigQuery answers with an error, or the context is cancelled.  The error is
\* logged, and an event is made of the row there is not.
ReadFails ==
    /\ pc = "next"
    /\ \/ broken /\ UNCHANGED errors
       \/ ~broken /\ MustRead /\ sigterm /\ UNCHANGED errors
       \/ ~broken /\ MustRead /\ errors < MaxReadErrors /\ errors' = errors + 1
    /\ broken' = TRUE
    /\ Send(Null)
    /\ UNCHANGED <<unfit, read, given, sigterm, got, faults, excused>>

End == /\ pc = "next"
       /\ ~broken
       /\ given = Rows
       /\ pc' = "ended"
       /\ UNCHANGED <<unfit, row, read, given, broken, sigterm, tries, got, faults, errors, excused>>

Sigterm == /\ MaySigterm
           /\ ~sigterm
           /\ pc # "ended"
           /\ sigterm' = TRUE
           /\ UNCHANGED <<unfit, pc, row, read, given, broken, tries, got, faults, errors, excused>>

-----------------------------------------------------------------------------
(***************************************************************************)
(* Publish                                                                 *)
(***************************************************************************)

Accept == got' = [got EXCEPT ![row] = IF @ < MaxNulls \/ row # Null THEN @ + 1 ELSE @]

\* The bot accepts the event.
Delivered ==
    /\ pc = "send"
    /\ Accept
    /\ tries' = tries + 1
    /\ pc' = "next"
    /\ UNCHANGED <<unfit, row, read, given, broken, sigterm, faults, errors, excused>>

\* Mutant: every error is tried again, without end.
Failed_Forever ==
    /\ pc = "send"
    /\ faults < MaxFaults
    /\ faults' = faults + 1
    /\ excused' = excused \union {row}
    /\ tries' = tries + 1
    /\ Accept \/ UNCHANGED got
    /\ UNCHANGED <<unfit, pc, row, read, given, broken, sigterm, errors>>

\* Mutant: an event that is not delivered ends the program.
Failed_Ends ==
    /\ pc = "send"
    /\ faults < MaxFaults
    /\ faults' = faults + 1
    /\ excused' = excused \union {row}
    /\ tries' = tries + 1
    /\ Accept \/ UNCHANGED got
    /\ pc' = IF tries < MaxRetry THEN "send" ELSE "ended"
    /\ UNCHANGED <<unfit, row, read, given, broken, sigterm, errors>>

\* The attempt fails, possibly after the bot has accepted the event.  It is made
\* again if the error is a passing one and there are retries left; else the next
\* row is tried.
Failed ==
    /\ pc = "send"
    /\ faults < MaxFaults
    /\ faults' = faults + 1
    /\ excused' = excused \union {row}
    /\ tries' = tries + 1
    /\ Accept \/ UNCHANGED got
    /\ pc' \in {"next"} \union IF tries < MaxRetry THEN {"send"} ELSE {}
    /\ UNCHANGED <<unfit, row, read, given, broken, sigterm, errors>>

Step == Query \/ QueryFails \/ NextRow \/ ReadFails \/ End \/ Delivered \/ Failed

Next == Step \/ Sigterm

Spec == Init /\ [][Next]_vars

\* The program runs, and calls have deadlines.
FairSpec == Spec /\ WF_vars(Step)

-----------------------------------------------------------------------------
(***************************************************************************)
(* Properties                                                              *)
(***************************************************************************)

\* An event is tried once and retried MaxRetry times at most.
TypeOK == /\ unfit \subseteq Row
          /\ pc \in {"query", "next", "send", "ended"}
          /\ row \in Row \union {Null}
          /\ read \in 0 .. Rows
          /\ given \in 0 .. read
          /\ broken \in BOOLEAN
          /\ sigterm \in BOOLEAN
          /\ tries \in 0 .. MaxRetry + 1
          /\ got \in [Row \union {Null} -> Nat]
          /\ faults \in 0 .. MaxFaults
          /\ errors \in 0 .. MaxReadErrors
          /\ excused \subseteq Row \union {Null}

\* Whatever fails, a row that the iterator has given has been accepted exactly
\* once, unless an attempt of its own failed or no event can be made of it: a row
\* that is given up takes no other with it, and no failure has a row sent again.
\* The first row of which no event can be made is the last that is given.
EachRowOnce ==
    /\ \A r \in Row \ excused :
           got[r] = IF r > given \/ (pc = "send" /\ row = r) \/ r \in unfit THEN 0 ELSE 1
    /\ \A r \in unfit : given >= r => given = r /\ pc = "ended"

\* Unless BigQuery has an error or SIGTERM comes, the program gets to the end of
\* the rows, or to one of which no event can be made, whatever the bot answers.
EndsWithTheRows ==
    <>(broken \/ sigterm \/ (pc = "ended" /\ (given = Rows \/ given \in unfit)))
=============================================================================
