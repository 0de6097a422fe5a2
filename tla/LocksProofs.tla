----------------------------- MODULE LocksProofs ----------------------------
(***************************************************************************)
(* For any number of threads and databases, and any depth: if the clients  *)
(* nest transactions in an order of the databases, nobody waits in a       *)
(* circle.                                                                 *)
(***************************************************************************)
EXTENDS Locks, WellFoundedInduction, TLAPS

(* A lock has one holder.  A Manager operation waits for nothing.  What a  *)
(* thread waits for comes after all it holds, but for a lock it has.       *)
Exclusive == \A t, u \in Threads : \A l : Holds(t, l) /\ Holds(u, l) => t = u
ManagerWorks == \A t \in Threads : waits[t] # Nothing => ~InManager(t)
WaitsClimb ==
    ordered => \A t \in Threads : waits[t] \in Instances => InOrder(t, waits[t])

Inv == TypeOK /\ Exclusive /\ ManagerWorks /\ WaitsClimb

LEMMA InitInv == Init => Inv
BY LocksAssumption DEF Init, Inv, TypeOK, Exclusive, ManagerWorks, WaitsClimb,
   Holds, HeldBy, InManager, Mutexes

(* What the two steps that change the calls do to the locks held.          *)
LEMMA GrantHolds ==
  ASSUME TypeOK, NEW t \in Threads, Grant(t)
  PROVE  /\ \A l : Holds(t, l)' <=> Holds(t, l) \/ l = waits[t]
         /\ \A u \in Threads \ {t} : \A l : Holds(u, l)' <=> Holds(u, l)
<1>1. calls[t] \in Seq(Mutexes) /\ waits[t] \in Mutexes
  BY DEF TypeOK, Grant
<1>2. calls' = [calls EXCEPT ![t] = Append(@, waits[t])]
  BY DEF Grant
<1>3. calls'[t] = Append(calls[t], waits[t])
  BY <1>2 DEF TypeOK
<1>4. /\ Len(calls'[t]) = Len(calls[t]) + 1
      /\ Len(calls[t]) \in Nat
      /\ calls'[t][Len(calls[t]) + 1] = waits[t]
      /\ \A n \in 1..Len(calls[t]) : calls'[t][n] = calls[t][n]
  BY <1>1, <1>3
<1>5. 1..(Len(calls[t]) + 1) = 1..Len(calls[t]) \cup {Len(calls[t]) + 1}
  BY <1>4
<1>6. \A l : Holds(t, l)' <=> Holds(t, l) \/ l = waits[t]
  BY <1>4, <1>5 DEF Holds, HeldBy
<1>7. \A u \in Threads \ {t} : calls'[u] = calls[u]
  BY <1>2 DEF TypeOK
<1> QED
  BY <1>6, <1>7 DEF Holds, HeldBy

LEMMA DoneHolds ==
  ASSUME TypeOK, NEW t \in Threads, Done(t)
  PROVE  /\ \A u \in Threads : \A l : Holds(u, l)' => Holds(u, l)
         /\ \A u \in Threads \ {t} : \A l : Holds(u, l)' <=> Holds(u, l)
         /\ calls' \in [Threads -> Seq(Mutexes)]
         /\ Len(calls'[t]) = Len(calls[t]) - 1
<1>1. calls[t] \in Seq(Mutexes) /\ calls[t] # <<>>
  BY DEF TypeOK, Done
<1>2. calls' = [calls EXCEPT ![t] = SubSeq(@, 1, Len(@) - 1)]
  BY DEF Done
<1>3. calls'[t] = SubSeq(calls[t], 1, Len(calls[t]) - 1)
  BY <1>2 DEF TypeOK
<1>4. Len(calls[t]) \in Nat /\ Len(calls[t]) > 0
  BY <1>1
<1>5. /\ calls'[t] \in Seq(Mutexes)
      /\ Len(calls'[t]) = Len(calls[t]) - 1
      /\ \A n \in 1..(Len(calls[t]) - 1) : calls'[t][n] = calls[t][n]
  BY <1>1, <1>3, <1>4
<1>6. \A l : Holds(t, l)' => Holds(t, l)
  BY <1>4, <1>5 DEF Holds, HeldBy
<1>7. \A u \in Threads \ {t} : calls'[u] = calls[u]
  BY <1>2 DEF TypeOK
<1>8. calls' \in [Threads -> Seq(Mutexes)]
  BY <1>2, <1>3, <1>5 DEF TypeOK
<1> QED
  BY <1>5, <1>6, <1>7, <1>8 DEF Holds, HeldBy

LEMMA NextInv == Inv /\ [Next]_vars => Inv'
<1> SUFFICES ASSUME Inv, [Next]_vars PROVE Inv'
  OBVIOUS
<1> USE LocksAssumption DEF Inv
<1>1. \A t \in Threads : /\ calls[t] \in Seq(Mutexes) /\ Len(calls[t]) \in Nat
                         /\ waits[t] \in Mutexes \cup {Nothing}
  BY DEF TypeOK
<1>2. ASSUME NEW t \in Threads, NEW l \in Mutexes, Free(t),
             waits' = [waits EXCEPT ![t] = l], UNCHANGED <<calls, ordered>>,
             ordered /\ l # Access => InOrder(t, l)
      PROVE  Inv'
  <2>1. TypeOK'
    BY <1>1, <1>2 DEF TypeOK, Free, Mutexes
  <2>2. Exclusive'
    <3>1. \A u \in Threads : HeldBy(u)' = HeldBy(u)
      BY <1>2 DEF HeldBy
    <3> QED
      BY <3>1 DEF Exclusive, Holds
  <2>3. ManagerWorks'
    BY <1>2 DEF ManagerWorks, TypeOK, Free, InManager, Holds, HeldBy
  <2>4. WaitsClimb'
    <3>1. \A u \in Threads : \A i : InOrder(u, i)' <=> InOrder(u, i)
      BY <1>2 DEF InOrder, Holds, HeldBy
    <3>2. ASSUME ordered', NEW u \in Threads, waits'[u] \in Instances
          PROVE  InOrder(u, waits'[u])
      BY <1>2, <3>2 DEF WaitsClimb, TypeOK
    <3> QED
      BY <3>1, <3>2 DEF WaitsClimb
  <2> QED
    BY <2>1, <2>2, <2>3, <2>4
<1>3. ASSUME NEW t \in Threads, NEW i \in Instances, Transaction(t, i) PROVE Inv'
  BY <1>2, <1>3 DEF Transaction, Mutexes
<1>4. ASSUME NEW t \in Threads, Operate(t) PROVE Inv'
  BY <1>2, <1>4 DEF Operate, Mutexes
<1>5. ASSUME NEW t \in Threads, Grant(t) PROVE Inv'
  <2>1. /\ waits[t] \in Mutexes
        /\ calls' = [calls EXCEPT ![t] = Append(@, waits[t])]
        /\ waits' = [waits EXCEPT ![t] = Nothing]
        /\ ordered' = ordered
        /\ \A u \in Threads : ~Blocks(u, t)
    BY <1>1, <1>5 DEF Grant
  <2>2. TypeOK'
    <3>1. Append(calls[t], waits[t]) \in Seq(Mutexes)
      BY <1>1, <2>1
    <3>2. Len(Append(calls[t], waits[t])) = Len(calls[t]) + 1
      BY <1>1, <2>1
    <3>3. calls' \in [Threads -> Seq(Mutexes)] /\ waits' \in [Threads -> Mutexes \cup {Nothing}]
      BY <2>1, <3>1 DEF TypeOK
    <3>4. ASSUME NEW u \in Threads
          PROVE  Len(calls'[u]) + (IF waits'[u] = Nothing THEN 0 ELSE 1) <= MaxDepth
      <4>1. CASE u = t
        BY <1>1, <2>1, <3>2, <4>1 DEF TypeOK, Mutexes
      <4>2. CASE u # t
        BY <2>1, <4>2 DEF TypeOK
      <4> QED
        BY <4>1, <4>2
    <3> QED
      BY <2>1, <3>3, <3>4 DEF TypeOK
  <2>3. Exclusive'
    <3>1. ASSUME NEW u \in Threads, NEW v \in Threads, NEW l,
                 Holds(u, l)', Holds(v, l)'
          PROVE  u = v
      <4>1. /\ Holds(u, l) \/ (u = t /\ l = waits[t])
            /\ Holds(v, l) \/ (v = t /\ l = waits[t])
        BY <1>5, <3>1, GrantHolds
      <4>2. ASSUME NEW w \in Threads, Holds(w, waits[t]) PROVE w = t
        BY <2>1, <4>2, LocksAssumption DEF Blocks, Mutexes
      <4> QED
        BY <4>1, <4>2 DEF Exclusive
    <3> QED
      BY <3>1 DEF Exclusive
  <2>4. ManagerWorks'
    BY <1>5, <2>1, GrantHolds DEF ManagerWorks, InManager, TypeOK
  <2>5. WaitsClimb'
    <3>1. ASSUME ordered', NEW u \in Threads, waits'[u] \in Instances
          PROVE  InOrder(u, waits[u])'
      <4>1. u # t /\ waits'[u] = waits[u] /\ calls'[u] = calls[u]
        BY <2>1, <3>1 DEF TypeOK
      <4> QED
        BY <2>1, <3>1, <4>1 DEF WaitsClimb, InOrder, Holds, HeldBy
    <3> QED
      BY <3>1 DEF WaitsClimb
  <2> QED
    BY <2>2, <2>3, <2>4, <2>5
<1>6. ASSUME NEW t \in Threads, Done(t) PROVE Inv'
  <2>1. /\ UNCHANGED <<waits, ordered>> /\ waits[t] = Nothing
        /\ \A u \in Threads \ {t} : calls'[u] = calls[u]
    BY <1>6 DEF Done, TypeOK
  <2>2. TypeOK'
    <3>1. /\ calls' \in [Threads -> Seq(Mutexes)]
          /\ Len(calls'[t]) = Len(calls[t]) - 1
      BY <1>6, DoneHolds
    <3>2. ASSUME NEW u \in Threads
          PROVE  Len(calls'[u]) + (IF waits'[u] = Nothing THEN 0 ELSE 1) <= MaxDepth
      <4>1. CASE u = t
        BY <1>1, <2>1, <3>1, <4>1 DEF TypeOK
      <4>2. CASE u # t
        BY <2>1, <4>2 DEF TypeOK
      <4> QED
        BY <4>1, <4>2
    <3> QED
      BY <2>1, <3>1, <3>2 DEF TypeOK
  <2>3. Exclusive'
    BY <1>6, DoneHolds DEF Exclusive
  <2>4. ManagerWorks'
    BY <1>6, <2>1, DoneHolds DEF ManagerWorks, InManager
  <2>5. WaitsClimb'
    <3>1. ASSUME ordered', NEW u \in Threads, waits'[u] \in Instances
          PROVE  InOrder(u, waits[u])'
      <4>1. u # t /\ waits'[u] = waits[u] /\ calls'[u] = calls[u]
        BY <2>1, <3>1
      <4> QED
        BY <2>1, <3>1, <4>1 DEF WaitsClimb, InOrder, Holds, HeldBy
    <3> QED
      BY <3>1 DEF WaitsClimb
  <2> QED
    BY <2>2, <2>3, <2>4, <2>5
<1>7. ASSUME UNCHANGED vars PROVE Inv'
  <2>1. calls' = calls /\ waits' = waits /\ ordered' = ordered
    BY <1>7 DEF vars
  <2> QED
    BY <2>1 DEF TypeOK, Exclusive, ManagerWorks, WaitsClimb, InOrder, InManager,
       Holds, HeldBy
<1> QED
  BY <1>3, <1>4, <1>5, <1>6, <1>7 DEF Next

(* The locks are typed, and no thread has more calls open than the bound.  *)
THEOREM TypeCorrect == Spec => []TypeOK
<1>1. Inv => TypeOK
  BY DEF Inv
<1> QED
  BY <1>1, InitInv, NextInv, PTL DEF Spec

-----------------------------------------------------------------------------
(* How far a lock is from the last one, m_Access.                          *)
Above(l) == IF l = Access THEN 0 ELSE MaxRank + 1 - Rank[l]

(* Who keeps a thread waiting, and waits for a third, waits higher.        *)
LEMMA BlockerHigher ==
  ASSUME Inv, ordered, NEW t \in Threads, NEW u \in Threads, NEW v \in Threads,
         Blocks(u, t), Blocks(v, u)
  PROVE  Above(waits[u]) < Above(waits[t])
<1> USE LocksAssumption
<1>1. /\ waits[t] \in Mutexes /\ waits[u] \in Mutexes
      /\ Holds(u, waits[t]) /\ Holds(v, waits[u])
  BY DEF Blocks, Inv, TypeOK
<1>2. waits[t] # Access
  BY <1>1 DEF Inv, ManagerWorks, InManager, Mutexes
<1>3. CASE waits[u] = Access
  BY <1>1, <1>2, <1>3 DEF Above, Mutexes
<1>4. CASE waits[u] # Access
  <2>1. waits[u] \in Instances /\ waits[t] \in Instances /\ v # u
    BY <1>1, <1>2, <1>4 DEF Blocks, Mutexes
  <2>2. ~Holds(u, waits[u])
    BY <1>1, <2>1 DEF Inv, Exclusive
  <2>3. \A k \in HeldBy(u) : Rank[k] < Rank[waits[u]]
    BY <2>1, <2>2 DEF Inv, WaitsClimb, InOrder
  <2>4. Rank[waits[t]] < Rank[waits[u]]
    BY <1>1, <2>3 DEF Holds
  <2>5. Rank[waits[t]] \in 0..MaxRank /\ Rank[waits[u]] \in 0..MaxRank
    BY <2>1
  <2> QED
    BY <1>2, <1>4, <2>4, <2>5 DEF Above
<1> QED
  BY <1>3, <1>4

LEMMA ClimbEnds == Inv => NoCircle
<1> SUFFICES ASSUME Inv, ordered, NEW S \in (SUBSET Threads) \ {{}},
                    \A t \in S : \E u \in S : Blocks(u, t)
             PROVE  FALSE
  BY DEF NoCircle
<1> DEFINE T == {Above(waits[t]) : t \in S}
<1>1. T \subseteq Nat /\ T # {}
  <2>1. ASSUME NEW t \in S PROVE Above(waits[t]) \in Nat
    <3>1. waits[t] \in Mutexes
      BY DEF Blocks, Inv, TypeOK
    <3> QED
      BY <3>1, LocksAssumption DEF Above, Mutexes
  <2>2. PICK t \in S : TRUE
    OBVIOUS
  <2>3. Above(waits[t]) \in T
    OBVIOUS
  <2> QED
    BY <2>1, <2>3
<1>2. PICK x \in T : \A y \in T : ~(y < x)
  <2> DEFINE R == {ss \in Nat \X Nat : ss[1] < ss[2]}
  <2>1. IsWellFoundedOn(R, Nat)
    BY NatLessThanWellFounded DEF OpToRel
  <2>2. PICK x \in T : \A y \in T : <<y, x>> \notin R
    <3> HIDE DEF T, R
    <3> QED
      BY <1>1, <2>1, WFMin
  <2>3. ASSUME NEW y \in T PROVE ~(y < x)
    <3> HIDE DEF T
    <3>1. y \in Nat /\ x \in Nat
      BY <1>1
    <3> QED
      BY <2>2, <3>1
  <2> QED
    BY <2>3
<1>3. PICK t \in S : x = Above(waits[t])
  OBVIOUS
<1>4. PICK u \in S : Blocks(u, t)
  OBVIOUS
<1>5. PICK v \in S : Blocks(v, u)
  OBVIOUS
<1>6. Above(waits[u]) < x
  BY <1>3, <1>4, <1>5, BlockerHigher
<1> QED
  BY <1>2, <1>6

(* However many threads and databases there are, transactions that nest in *)
(* an order of the databases, with Manager operations at any depth, never  *)
(* wait for each other in a circle.                                        *)
THEOREM NobodyWaitsInACircle == Spec => []NoCircle
BY InitInv, NextInv, ClimbEnds, PTL DEF Spec
=============================================================================
