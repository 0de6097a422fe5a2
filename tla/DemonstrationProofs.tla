------------------------- MODULE DemonstrationProofs ------------------------
(***************************************************************************)
(* That the demonstration program leaves no hole in its table, and puts no *)
(* more into it than the disk holds, for any batch, page, disk and number  *)
(* of attempts.                                                            *)
(***************************************************************************)
EXTENDS Demonstration, FiniteSetTheorems, TLAPS

(* The table is the numbers below some number, and while a procedure       *)
(* inserts that number is the loop's own: what makes the next attempt      *)
(* begin where this one ends.                                              *)
Initial == \E n \in Nat : rows = 0..(n - 1)
Going   == pc = "insert" => next \in Nat /\ rows = 0..(next - 1)
Inv     == Initial /\ Going

LEMMA LastOfInitial ==
  ASSUME NEW n \in Nat, n # 0
  PROVE  Max(0..(n - 1)) = n - 1
<1>1. \E x \in 0..(n - 1) : \A y \in 0..(n - 1) : x >= y
  <2> WITNESS n - 1 \in 0..(n - 1)
  <2> QED
    OBVIOUS
<1>2. /\ Max(0..(n - 1)) \in 0..(n - 1)
      /\ \A y \in 0..(n - 1) : Max(0..(n - 1)) >= y
  BY <1>1 DEF Max
<1> QED
  BY <1>2

LEMMA NextInv == Inv /\ [Next]_vars => Inv'
<1> SUFFICES ASSUME Inv, [Next]_vars PROVE Inv'
  OBVIOUS
<1> USE DemonstrationAssumption DEF Inv, Initial, Going
<1>1. CASE GiveUp
  BY <1>1 DEF GiveUp, Proceed
<1>2. CASE BeginFill
  <2>1. CASE rows = {}
    BY <1>2, <2>1 DEF BeginFill
  <2>2. CASE rows # {}
    BY <1>2, <2>2 DEF BeginFill, Proceed
  <2> QED
    BY <2>1, <2>2
<1>3. CASE BeginExtend
  <2>1. CASE rows = {}
    BY <1>3, <2>1 DEF BeginExtend, Proceed
  <2>2. CASE rows # {}
    <3>1. PICK n \in Nat : rows = 0..(n - 1)
      OBVIOUS
    <3>2. n # 0
      BY <2>2, <3>1
    <3>3. next' = n /\ rows' = rows
      BY <1>3, <2>2, <3>1, <3>2, LastOfInitial DEF BeginExtend
    <3> QED
      BY <3>1, <3>3
  <2> QED
    BY <2>1, <2>2
<1>4. CASE PrintTable
  BY <1>4 DEF PrintTable, Proceed
<1>5. CASE Insert
  <2>1. CASE Cardinality(rows) < Capacity
    <3>1. next \in Nat /\ rows = 0..(next - 1)
      BY <1>5 DEF Insert
    <3>2. rows' = rows \cup {next} /\ next' = next + 1
      BY <1>5, <2>1 DEF Insert
    <3>3. rows' = 0..(next' - 1) /\ next' \in Nat
      BY <3>1, <3>2
    <3> QED
      BY <3>3
  <2>2. CASE ~(Cardinality(rows) < Capacity)
    BY <1>5, <2>2 DEF Insert
  <2> QED
    BY <2>1, <2>2
<1>6. CASE Return
  BY <1>6 DEF Return, Proceed
<1>7. CASE Grow
  BY <1>7 DEF Grow
<1>8. CASE RunAgain \/ Die
  BY <1>8 DEF RunAgain, Die, Run
<1>9. CASE UNCHANGED vars
  BY <1>9 DEF vars, loop
<1> QED
  BY <1>1, <1>2, <1>3, <1>4, <1>5, <1>6, <1>7, <1>8, <1>9 DEF Next, Work

(* Whatever procedures are run again, give up or die half way, the keys    *)
(* are the first so many numbers.                                          *)
THEOREM NoHole == Spec => []NoGaps
<1>1. Init => Inv
  <2> SUFFICES ASSUME Init PROVE Inv
    OBVIOUS
  <2>1. rows = 0..(0 - 1)
    BY DEF Init
  <2> QED
    BY <2>1 DEF Init, Inv, Initial, Going
<1>2. Inv => NoGaps
  <2> SUFFICES ASSUME NEW n \in Nat, rows = 0..(n - 1) PROVE NoGaps
    BY DEF Inv, Initial
  <2>1. Cardinality(rows) = n
    BY FS_Interval
  <2> QED
    BY <2>1 DEF NoGaps
<1> QED
  BY <1>1, <1>2, NextInv, PTL DEF Spec

-----------------------------------------------------------------------------
(* An attempt that is under way is one that was left, of a transaction     *)
(* that is not over.                                                       *)
UnderWay == pc # "begin" => attempts < TryToAllocateCount /\ step # "over"

LEMMA Room ==
  ASSUME NEW p \in 1..DiskPages, NEW n \in Nat, n < p * RowsPerPage
  PROVE  n \in 0..(DiskPages * RowsPerPage - 1)
<1> USE DemonstrationAssumption
<1>1. DiskPages = p + (DiskPages - p) /\ DiskPages - p \in Nat
  OBVIOUS
<1>2. DiskPages * RowsPerPage = p * RowsPerPage + (DiskPages - p) * RowsPerPage
  BY <1>1
<1>3. (DiskPages - p) * RowsPerPage \in Nat /\ p * RowsPerPage \in Nat
  BY <1>1
<1>4. DiskPages * RowsPerPage \in Nat
  OBVIOUS
<1> HIDE DemonstrationAssumption
<1> QED
  BY <1>2, <1>3, <1>4

LEMMA TypeNext == Inv /\ TypeOK /\ UnderWay /\ [Next]_vars => TypeOK' /\ UnderWay'
<1> SUFFICES ASSUME Inv, TypeOK, UnderWay, [Next]_vars PROVE TypeOK' /\ UnderWay'
  OBVIOUS
<1> USE DemonstrationAssumption DEF TypeOK, UnderWay, loop
<1>1. ASSUME Proceed, step # "over"
      PROVE  /\ step' \in {"extend", "print", "over"} /\ pc' = "begin"
             /\ attempts' = 0
  BY <1>1 DEF Proceed, Following
<1>2. CASE GiveUp
  BY <1>1, <1>2 DEF GiveUp
<1>3. CASE BeginFill
  <2>1. CASE rows = {}
    BY <1>3, <2>1 DEF BeginFill, Trying
  <2>2. CASE rows # {}
    BY <1>1, <1>3, <2>2 DEF BeginFill, Trying
  <2> QED
    BY <2>1, <2>2
<1>4. CASE BeginExtend
  <2>1. CASE rows = {}
    BY <1>1, <1>4, <2>1 DEF BeginExtend, Trying
  <2>2. CASE rows # {}
    <3>1. PICK n \in Nat : rows = 0..(n - 1)
      BY DEF Inv, Initial
    <3>2. n # 0
      BY <2>2, <3>1
    <3>3. next' = n /\ limit' = n * Factor
      BY <1>4, <2>2, <3>1, <3>2, LastOfInitial DEF BeginExtend
    <3>4. next' \in Nat /\ limit' \in Nat
      BY <3>3
    <3>5. /\ pc' = "insert" /\ step = "extend" /\ attempts < TryToAllocateCount
          /\ UNCHANGED <<step, attempts, rows, pages, printed, deaths>>
      BY <1>4, <2>2 DEF BeginExtend, Trying
    <3> QED
      BY <3>4, <3>5
  <2> QED
    BY <2>1, <2>2
<1>5. CASE PrintTable
  BY <1>1, <1>5 DEF PrintTable, Trying
<1>6. CASE Insert
  <2>1. CASE Cardinality(rows) < Capacity
    <3>1. next \in Nat /\ rows = 0..(next - 1)
      BY <1>6 DEF Insert, Inv, Going
    <3>2. Cardinality(rows) = next
      BY <3>1, FS_Interval
    <3>3. next \in 0..(DiskPages * RowsPerPage - 1)
      BY <2>1, <3>1, <3>2, Room DEF Capacity
    <3>4. /\ rows' = rows \cup {next} /\ next' = next + 1
          /\ UNCHANGED <<pages, step, pc, attempts, limit, printed, deaths>>
      BY <1>6, <2>1 DEF Insert
    <3>5. rows' \subseteq 0..(DiskPages * RowsPerPage - 1) /\ printed' \subseteq rows'
      BY <3>3, <3>4
    <3>6. next' \in Nat
      BY <3>1, <3>4
    <3> QED
      BY <3>4, <3>5, <3>6
  <2>2. CASE ~(Cardinality(rows) < Capacity)
    BY <1>6, <2>2 DEF Insert
  <2> QED
    BY <2>1, <2>2
<1>7. CASE Return
  BY <1>1, <1>7 DEF Return
<1>8. CASE Grow
  <2>1. attempts' = attempts + 1 /\ attempts < TryToAllocateCount /\ pc' = "begin"
    BY <1>8 DEF Grow
  <2>2. pages' \in 1..DiskPages
    BY <1>8 DEF Grow
  <2>3. UNCHANGED <<rows, step, next, limit, printed, deaths>>
    BY <1>8 DEF Grow
  <2> QED
    BY <2>1, <2>2, <2>3
<1>9. CASE RunAgain \/ Die
  <2>1. /\ rows' = rows /\ pages' = pages /\ step' = "fill" /\ pc' = "begin"
        /\ attempts' = 0 /\ next' = 0 /\ limit' = 0 /\ printed' = {}
    BY <1>9 DEF RunAgain, Die, Run
  <2>2. deaths' \in 0..MaxDeaths
    BY <1>9 DEF RunAgain, Die
  <2> QED
    BY <2>1, <2>2
<1>10. CASE UNCHANGED vars
  BY <1>10 DEF vars
<1> QED
  BY <1>2, <1>3, <1>4, <1>5, <1>6, <1>7, <1>8, <1>9, <1>10 DEF Next, Work

(* The table never has more than the disk holds, no transaction makes more *)
(* attempts than it is to, and what was printed is in the table.           *)
THEOREM TypeCorrect == Spec => []TypeOK
<1>1. Init => Inv /\ TypeOK /\ UnderWay
  <2> SUFFICES ASSUME Init PROVE Inv /\ TypeOK /\ UnderWay
    OBVIOUS
  <2>1. rows = 0..(0 - 1)
    BY DEF Init
  <2> QED
    BY <2>1, DemonstrationAssumption DEF Init, Inv, Initial, Going, TypeOK, UnderWay
<1> QED
  BY <1>1, NextInv, TypeNext, PTL DEF Spec

=============================================================================
