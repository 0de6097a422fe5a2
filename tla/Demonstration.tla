--------------------------- MODULE Demonstration ----------------------------
(***************************************************************************)
(* The program that comes with the library, as a client of Transaction:    *)
(* one transaction fills the table if it is empty, the next extends it, a  *)
(* third prints it.  A procedure that runs out of memory is started again  *)
(* from its beginning on what it left, in a file that has grown; the table *)
(* stays in the file when the program ends or dies.                        *)
(*                                                                         *)
(* Of the table only the keys are told (Data::a; the strings are made from *)
(* them), and of the memory how many rows it holds.  Keys are taken not to *)
(* leave the range of int, which more rows than the disk holds would need. *)
(***************************************************************************)
EXTENDS Integers, FiniteSets, FiniteSetsExt

CONSTANTS
    Batch,              \* rows of the first filling: 1000
    Factor,             \* what a run multiplies the rows with: 1000
    RowsPerPage,        \* rows for which a page of the file has room
    DiskPages,          \* pages for which the disk has room
    TryToAllocateCount, \* ControllInformation::tryToAllocateCount
    MaxDeaths           \* bound: how often the program dies

ASSUME DemonstrationAssumption ==
    /\ Batch \in Nat \ {0} /\ Factor \in Nat \ {0, 1}
    /\ RowsPerPage \in Nat \ {0} /\ DiskPages \in Nat \ {0}
    /\ TryToAllocateCount \in Nat /\ MaxDeaths \in Nat

VARIABLES
    rows,         \* the keys in the table
    pages,        \* size of the data file
    step,         \* "fill", "extend" or "print": the transaction; or "over"
    pc,           \* "begin" of an attempt, "insert", or "grow"
    attempts,     \* attempts of this transaction that ran out of memory
    next, limit,  \* the loop of the procedure: i, and where it ends
    printed,      \* the rows the program has printed
    deaths        \* how often the program has died

loop == <<next, limit>>
vars == <<rows, pages, step, pc, attempts, next, limit, printed, deaths>>

Capacity == pages * RowsPerPage
Full     == Cardinality(rows) = DiskPages * RowsPerPage

Following == [fill |-> "extend", extend |-> "print", print |-> "over"]

(* A procedure, or Transaction without it, has returned: the next step.    *)
Proceed ==
    /\ step' = Following[step]
    /\ pc' = "begin"
    /\ attempts' = 0

Init ==
    /\ rows = {} /\ pages = 1
    /\ step = "fill" /\ pc = "begin" /\ attempts = 0
    /\ next = 0 /\ limit = 0
    /\ printed = {} /\ deaths = 0

-----------------------------------------------------------------------------
(* The head of Transaction's loop when the attempts are used up.           *)
GiveUp ==
    /\ step # "over" /\ pc = "begin" /\ attempts >= TryToAllocateCount
    /\ Proceed
    /\ UNCHANGED <<rows, pages, loop, printed, deaths>>

(* Variant of Trying: one attempt too many.                                *)
TryingOnceMore(s) == step = s /\ pc = "begin" /\ attempts <= TryToAllocateCount

(* The head of the loop when an attempt is left.                           *)
Trying(s) == step = s /\ pc = "begin" /\ attempts < TryToAllocateCount

(* An attempt of the first procedure.                                      *)
BeginFill ==
    /\ Trying("fill")
    /\ IF rows = {}
       THEN /\ next' = 0 /\ limit' = Batch
            /\ pc' = "insert"
            /\ UNCHANGED <<step, attempts>>
       ELSE Proceed /\ UNCHANGED loop
    /\ UNCHANGED <<rows, pages, printed, deaths>>

(* Variant of BeginExtend: the last row's key is not the one to begin with, *)
(* nor is the one after it.                                                *)
BeginBeyond ==
    /\ Trying("extend")
    /\ IF rows # {}
       THEN LET start == Max(rows) + 2 IN
            /\ next' = start /\ limit' = start * Factor
            /\ pc' = "insert"
            /\ UNCHANGED <<step, attempts>>
       ELSE Proceed /\ UNCHANGED loop
    /\ UNCHANGED <<rows, pages, printed, deaths>>

(* An attempt of the second: where to start is computed anew from the last *)
(* row, and so is where to end.                                            *)
BeginExtend ==
    /\ Trying("extend")
    /\ IF rows # {}
       THEN LET start == Max(rows) + 1 IN
            /\ next' = start /\ limit' = start * Factor
            /\ pc' = "insert"
            /\ UNCHANGED <<step, attempts>>
       ELSE Proceed /\ UNCHANGED loop
    /\ UNCHANGED <<rows, pages, printed, deaths>>

PrintTable ==
    /\ Trying("print")
    /\ printed' = rows
    /\ Proceed
    /\ UNCHANGED <<rows, pages, loop, deaths>>

(* A row is inserted, all of it or, with bad_alloc, nothing.               *)
Insert ==
    /\ pc = "insert" /\ next < limit
    /\ IF Cardinality(rows) < Capacity
       THEN rows' = rows \cup {next} /\ next' = next + 1 /\ UNCHANGED pc
       ELSE pc' = "grow" /\ UNCHANGED <<rows, next>>
    /\ UNCHANGED <<pages, step, attempts, limit, printed, deaths>>

Return ==
    /\ pc = "insert" /\ next >= limit
    /\ Proceed
    /\ UNCHANGED <<rows, pages, loop, printed, deaths>>

(* Variant of Grow: the file is not asked to grow.                         *)
GrowNothing ==
    /\ pc = "grow"
    /\ attempts' = attempts + 1
    /\ pc' = "begin"
    /\ UNCHANGED <<rows, pages, step, loop, printed, deaths>>

(* Transaction grows the file, if the disk lets it, and tries again.       *)
Grow ==
    /\ pc = "grow"
    /\ pages' = IF pages < DiskPages THEN pages + 1 ELSE pages
    /\ attempts' = attempts + 1
    /\ pc' = "begin"
    /\ UNCHANGED <<rows, step, loop, printed, deaths>>

(* The program is over, or dies between two steps, and is run once more.   *)
Run ==
    /\ step' = "fill" /\ pc' = "begin" /\ attempts' = 0
    /\ next' = 0 /\ limit' = 0 /\ printed' = {}
    /\ UNCHANGED <<rows, pages>>

RunAgain == step = "over" /\ Run /\ UNCHANGED deaths
Die      == step # "over" /\ deaths < MaxDeaths /\ Run /\ deaths' = deaths + 1

Work ==
    \/ GiveUp \/ BeginFill \/ BeginExtend \/ PrintTable
    \/ Insert \/ Return \/ Grow

Next == Work \/ RunAgain \/ Die

Spec == Init /\ [][Next]_vars

(* The program runs, and is run again when it has ended.                   *)
FairSpec == Spec /\ WF_vars(Work) /\ WF_vars(RunAgain)

-----------------------------------------------------------------------------
TypeOK ==
    /\ rows \subseteq 0..(DiskPages * RowsPerPage - 1)
    /\ pages \in 1..DiskPages
    /\ step \in {"fill", "extend", "print", "over"}
    /\ pc \in {"begin", "insert", "grow"}
    /\ attempts \in 0..TryToAllocateCount
    /\ next \in Nat /\ limit \in Nat
    /\ printed \subseteq rows
    /\ deaths \in 0..MaxDeaths

(* A procedure that is run again half way, gives up, or dies with the      *)
(* program leaves no hole in the table: the keys are always the first so   *)
(* many numbers, which is what the next attempt goes on from.              *)
NoGaps == rows = 0..(Cardinality(rows) - 1)

(* Running the program again and again fills the disk, although every run  *)
(* may give up on its way and report nothing.                              *)
DiskFills == TryToAllocateCount > 0 => <>[]Full

=============================================================================
