--------------------------- MODULE DataBaseProofs ---------------------------
(***************************************************************************)
(* What DataBase promises for any number of threads, any nesting, any      *)
(* sizes and any faults: type correctness, the accounting of the recursive *)
(* mutex, and the properties of the data, the mapping and the backup that  *)
(* rest on it.                                                             *)
(***************************************************************************)
EXTENDS DataBase, TLAPS

(* A thread has a call open exactly when it is not idle; the handler has   *)
(* its lock guard exactly between asking for the mutex and letting it go.  *)
LevelDiscipline ==
    /\ \A t \in Threads : pc[t] = "idle" <=> level[t] = 0
    /\ level[Ticker] = IF pc[Ticker] \in {"armed", "seen", "fired"} THEN 0 ELSE 1

(* The accounting of the mutex is inductive together with the types and    *)
(* the places: depth stays a natural number at Unlock because the unlocking *)
(* thread is the owner, and it is the owner because of what it holds.      *)
Inv == TypeOK /\ LevelDiscipline /\ LockDiscipline

LEMMA InitInv == Init => Inv
<1> SUFFICES ASSUME Init PROVE Inv
  OBVIOUS
<1> USE ActorsAssumption, BoundsAssumption, SizesAssumption, FaultsAssumption
    DEF Init, Actors
<1>1. TypeOK
  <2>1. segment \in Nat
    OBVIOUS
  <2>2. /\ mapping \in [base : Addresses, size : Nat]
        /\ container \in Addresses \cup {Null}
    BY <2>1
  <2>3. /\ attempts \in [Threads -> [Levels -> Nat]]
        /\ view \in [Threads -> [Levels -> Addresses \cup {Null}]]
    OBVIOUS
  <2>4. /\ pc \in [Actors -> CallPlaces \cup TickPlaces \cup BackupPlaces]
        /\ \A t \in Threads : pc[t] \in CallPlaces \cup BackupPlaces
        /\ pc[Ticker] \in TickPlaces \cup BackupPlaces
    BY DEF CallPlaces, TickPlaces, BackupPlaces
  <2>5. /\ stamp \in Stamps
        /\ backup \in Stamps \cup {Absent, Damaged, Earlier}
        /\ crc \in Stamps \cup {Absent, Damaged, Earlier}
    BY DEF Stamps
  <2>6. /\ level \in [Actors -> 0..MaxNesting]
        /\ outcome \in [Threads -> {"none", "done", "threw", "gaveup"}]
    OBVIOUS
  <2> QED
    BY <2>1, <2>2, <2>3, <2>4, <2>5, <2>6 DEF TypeOK
<1>2. LevelDiscipline
  BY DEF LevelDiscipline
<1>3. LockDiscipline
  BY DEF LockDiscipline, Held
<1> QED
  BY <1>1, <1>2, <1>3 DEF Inv

(* A thread that goes to a place of its own kind is at a place of its kind. *)
LEMMA GotoType ==
  ASSUME TypeOK, NEW p \in Actors, NEW place, Goto(p, place),
         IF p = Ticker THEN place \in TickPlaces \cup BackupPlaces
                       ELSE place \in CallPlaces \cup BackupPlaces
  PROVE  /\ pc' \in [Actors -> CallPlaces \cup TickPlaces \cup BackupPlaces]
         /\ \A t \in Threads : pc'[t] \in CallPlaces \cup BackupPlaces
         /\ pc'[Ticker] \in TickPlaces \cup BackupPlaces
<1>1. pc' = [pc EXCEPT ![p] = place] /\ pc \in [Actors -> CallPlaces \cup TickPlaces \cup BackupPlaces]
  BY DEF Goto, TypeOK
<1>2. place \in CallPlaces \cup TickPlaces \cup BackupPlaces
  OBVIOUS
<1>3. pc' \in [Actors -> CallPlaces \cup TickPlaces \cup BackupPlaces]
  BY <1>1, <1>2
<1>4. \A q \in Actors : pc'[q] = IF q = p THEN place ELSE pc[q]
  BY <1>1
<1>5. Threads \subseteq Actors /\ Ticker \in Actors /\ Ticker \notin Threads
  BY ActorsAssumption DEF Actors
<1>6. /\ \A t \in Threads : pc[t] \in CallPlaces \cup BackupPlaces
      /\ pc[Ticker] \in TickPlaces \cup BackupPlaces
  BY DEF TypeOK
<1>7. ASSUME NEW t \in Threads PROVE pc'[t] \in CallPlaces \cup BackupPlaces
  BY <1>4, <1>5, <1>6
<1>8. pc'[Ticker] \in TickPlaces \cup BackupPlaces
  BY <1>4, <1>5, <1>6
<1> QED
  BY <1>3, <1>7, <1>8

LEMMA NextInv == Inv /\ [Next]_vars => Inv'
<1> SUFFICES ASSUME Inv, [Next]_vars PROVE Inv'
  OBVIOUS
<1> USE ActorsAssumption, BoundsAssumption, SizesAssumption, FaultsAssumption
<1> USE DEF Inv, TypeOK, LevelDiscipline, LockDiscipline, Held, Actors,
            Levels, Stamps, CallPlaces, TickPlaces, BackupPlaces, Goto,
            locks, flags, memory, archive
<1>1. ASSUME NEW t \in Threads, Call(t) PROVE Inv'
  <2>1. TypeOK'
    BY <1>1 DEF Call
  <2>2. LevelDiscipline'
    BY <1>1 DEF Call
  <2>3. LockDiscipline'
    BY <1>1 DEF Call
  <2> QED
    BY <2>1, <2>2, <2>3
<1>2. ASSUME NEW t \in Threads, MarkBusy(t) PROVE Inv'
  <2>1. TypeOK'
    <3>1. /\ pc' \in [Actors -> CallPlaces \cup TickPlaces \cup BackupPlaces]
          /\ \A q \in Threads : pc'[q] \in CallPlaces \cup BackupPlaces
          /\ pc'[Ticker] \in TickPlaces \cup BackupPlaces
      BY <1>2, GotoType DEF MarkBusy
    <3> QED
      BY <1>2, <3>1 DEF MarkBusy
  <2>2. LevelDiscipline'
    BY <1>2 DEF MarkBusy
  <2>3. LockDiscipline'
    BY <1>2 DEF MarkBusy
  <2> QED
    BY <2>1, <2>2, <2>3
<1>3. ASSUME NEW t \in Threads, Attempt(t) PROVE Inv'
  <2>1. TypeOK'
    <3>1. /\ pc' \in [Actors -> CallPlaces \cup TickPlaces \cup BackupPlaces]
          /\ \A q \in Threads : pc'[q] \in CallPlaces \cup BackupPlaces
          /\ pc'[Ticker] \in TickPlaces \cup BackupPlaces
      BY <1>3, GotoType DEF Attempt
    <3> QED
      BY <1>3, <3>1 DEF Attempt
  <2>2. LevelDiscipline'
    BY <1>3 DEF Attempt
  <2>3. LockDiscipline'
    BY <1>3 DEF Attempt
  <2> QED
    BY <2>1, <2>2, <2>3
<1>4. ASSUME NEW t \in Threads, GiveUp(t) PROVE Inv'
  <2>1. TypeOK'
    <3>1. /\ pc' \in [Actors -> CallPlaces \cup TickPlaces \cup BackupPlaces]
          /\ \A q \in Threads : pc'[q] \in CallPlaces \cup BackupPlaces
          /\ pc'[Ticker] \in TickPlaces \cup BackupPlaces
      BY <1>4, GotoType DEF GiveUp
    <3> QED
      BY <1>4, <3>1 DEF GiveUp
  <2>2. LevelDiscipline'
    BY <1>4 DEF GiveUp
  <2>3. LockDiscipline'
    BY <1>4 DEF GiveUp
  <2> QED
    BY <2>1, <2>2, <2>3
<1>5. ASSUME NEW t \in Threads, GrowFile(t) PROVE Inv'
  <2>1. TypeOK'
    <3>1. /\ pc' \in [Actors -> CallPlaces \cup TickPlaces \cup BackupPlaces]
          /\ \A q \in Threads : pc'[q] \in CallPlaces \cup BackupPlaces
          /\ pc'[Ticker] \in TickPlaces \cup BackupPlaces
      BY <1>5, GotoType DEF GrowFile
    <3> QED
      BY <1>5, <3>1 DEF GrowFile
  <2>2. LevelDiscipline'
    BY <1>5 DEF GrowFile
  <2>3. LockDiscipline'
    BY <1>5 DEF GrowFile
  <2> QED
    BY <2>1, <2>2, <2>3
<1>6. ASSUME NEW t \in Threads, Remap(t) PROVE Inv'
  <2>1. TypeOK'
    <3>1. /\ pc' \in [Actors -> CallPlaces \cup TickPlaces \cup BackupPlaces]
          /\ \A q \in Threads : pc'[q] \in CallPlaces \cup BackupPlaces
          /\ pc'[Ticker] \in TickPlaces \cup BackupPlaces
      BY <1>6, GotoType DEF Remap
    <3> QED
      BY <1>6, <3>1 DEF Remap
  <2>2. LevelDiscipline'
    BY <1>6 DEF Remap
  <2>3. LockDiscipline'
    BY <1>6 DEF Remap
  <2> QED
    BY <2>1, <2>2, <2>3
<1>7. ASSUME NEW t \in Threads, LoseContainer(t) PROVE Inv'
  <2>1. TypeOK'
    <3>1. /\ pc' \in [Actors -> CallPlaces \cup TickPlaces \cup BackupPlaces]
          /\ \A q \in Threads : pc'[q] \in CallPlaces \cup BackupPlaces
          /\ pc'[Ticker] \in TickPlaces \cup BackupPlaces
      BY <1>7, GotoType DEF LoseContainer
    <3> QED
      BY <1>7, <3>1 DEF LoseContainer
  <2>2. LevelDiscipline'
    BY <1>7 DEF LoseContainer
  <2>3. LockDiscipline'
    BY <1>7 DEF LoseContainer
  <2> QED
    BY <2>1, <2>2, <2>3
<1>8. ASSUME NEW t \in Threads, FailToReopen(t) PROVE Inv'
  <2>1. TypeOK'
    <3>1. /\ pc' \in [Actors -> CallPlaces \cup TickPlaces \cup BackupPlaces]
          /\ \A q \in Threads : pc'[q] \in CallPlaces \cup BackupPlaces
          /\ pc'[Ticker] \in TickPlaces \cup BackupPlaces
      BY <1>8, GotoType DEF FailToReopen
    <3> QED
      BY <1>8, <3>1 DEF FailToReopen
  <2>2. LevelDiscipline'
    BY <1>8 DEF FailToReopen
  <2>3. LockDiscipline'
    BY <1>8 DEF FailToReopen
  <2> QED
    BY <2>1, <2>2, <2>3
<1>9. ASSUME NEW t \in Threads, RollBack(t) PROVE Inv'
  <2>1. TypeOK'
    <3>1. /\ pc' \in [Actors -> CallPlaces \cup TickPlaces \cup BackupPlaces]
          /\ \A q \in Threads : pc'[q] \in CallPlaces \cup BackupPlaces
          /\ pc'[Ticker] \in TickPlaces \cup BackupPlaces
      BY <1>9, GotoType DEF RollBack
    <3>2. stamp' \in Stamps
      BY <1>9 DEF RollBack
    <3>3. outcome' \in [Threads -> {"none", "done", "threw", "gaveup"}]
      BY <1>9 DEF RollBack
    <3>4. UNCHANGED <<owner, depth, busy, need, cut, failed, alive, level, attempts, view,
                      segment, mapping, container, backup, crc>>
      BY <1>9 DEF RollBack
    <3> QED
      BY <3>1, <3>2, <3>3, <3>4
  <2>2. LevelDiscipline'
    BY <1>9 DEF RollBack
  <2>3. LockDiscipline'
    BY <1>9 DEF RollBack
  <2> QED
    BY <2>1, <2>2, <2>3
<1>10. ASSUME NEW t \in Threads, ClearBusy(t) PROVE Inv'
  <2>1. TypeOK'
    <3>1. /\ pc' \in [Actors -> CallPlaces \cup TickPlaces \cup BackupPlaces]
          /\ \A q \in Threads : pc'[q] \in CallPlaces \cup BackupPlaces
          /\ pc'[Ticker] \in TickPlaces \cup BackupPlaces
      BY <1>10, GotoType DEF ClearBusy
    <3> QED
      BY <1>10, <3>1 DEF ClearBusy
  <2>2. LevelDiscipline'
    BY <1>10 DEF ClearBusy
  <2>3. LockDiscipline'
    BY <1>10 DEF ClearBusy
  <2> QED
    BY <2>1, <2>2, <2>3
<1>11. ASSUME NEW t \in Threads, CheckNeed(t) PROVE Inv'
  <2>1. TypeOK'
    <3>1. /\ pc' \in [Actors -> CallPlaces \cup TickPlaces \cup BackupPlaces]
          /\ \A q \in Threads : pc'[q] \in CallPlaces \cup BackupPlaces
          /\ pc'[Ticker] \in TickPlaces \cup BackupPlaces
      BY <1>11, GotoType DEF CheckNeed
    <3> QED
      BY <1>11, <3>1 DEF CheckNeed
  <2>2. LevelDiscipline'
    BY <1>11 DEF CheckNeed
  <2>3. LockDiscipline'
    BY <1>11 DEF CheckNeed
  <2> QED
    BY <2>1, <2>2, <2>3
<1>12. ASSUME NEW t \in Threads, Write(t) PROVE Inv'
  <2>1. TypeOK'
    <3>1. CASE view[t][level[t]] = mapping.base
      <4>1. stamp' = stamp + 1 /\ stamp < MaxStamp /\ alive' = alive
        BY <1>12, <3>1 DEF Write
      <4>2. stamp' \in Stamps
        BY <4>1
      <4> QED
        BY <1>12, <4>1, <4>2 DEF Write
    <3>2. CASE view[t][level[t]] # mapping.base
      <4>1. /\ alive' = FALSE
            /\ UNCHANGED <<owner, depth, busy, need, pc, level, attempts, view,
                           outcome, segment, mapping, container, stamp, backup,
                           crc, cut, failed>>
        BY <1>12, <3>2 DEF Write
      <4>2. alive' \in BOOLEAN
        BY <4>1
      <4> QED
        BY <4>1, <4>2
    <3> QED
      BY <3>1, <3>2
  <2>2. LevelDiscipline'
    BY <1>12 DEF Write
  <2>3. LockDiscipline'
    BY <1>12 DEF Write
  <2> QED
    BY <2>1, <2>2, <2>3
<1>13. ASSUME NEW t \in Threads, Complete(t) PROVE Inv'
  <2>1. TypeOK'
    <3>1. /\ pc' \in [Actors -> CallPlaces \cup TickPlaces \cup BackupPlaces]
          /\ \A q \in Threads : pc'[q] \in CallPlaces \cup BackupPlaces
          /\ pc'[Ticker] \in TickPlaces \cup BackupPlaces
      BY <1>13, GotoType DEF Complete
    <3> QED
      BY <1>13, <3>1 DEF Complete
  <2>2. LevelDiscipline'
    BY <1>13 DEF Complete
  <2>3. LockDiscipline'
    BY <1>13 DEF Complete
  <2> QED
    BY <2>1, <2>2, <2>3
<1>14. ASSUME NEW t \in Threads, RunOutOfMemory(t) PROVE Inv'
  <2>1. TypeOK'
    <3>1. /\ pc' \in [Actors -> CallPlaces \cup TickPlaces \cup BackupPlaces]
          /\ \A q \in Threads : pc'[q] \in CallPlaces \cup BackupPlaces
          /\ pc'[Ticker] \in TickPlaces \cup BackupPlaces
      BY <1>14, GotoType DEF RunOutOfMemory
    <3> QED
      BY <1>14, <3>1 DEF RunOutOfMemory
  <2>2. LevelDiscipline'
    BY <1>14 DEF RunOutOfMemory
  <2>3. LockDiscipline'
    BY <1>14 DEF RunOutOfMemory
  <2> QED
    BY <2>1, <2>2, <2>3
<1>15. ASSUME NEW t \in Threads, Throw(t) PROVE Inv'
  <2>1. TypeOK'
    <3>1. /\ pc' \in [Actors -> CallPlaces \cup TickPlaces \cup BackupPlaces]
          /\ \A q \in Threads : pc'[q] \in CallPlaces \cup BackupPlaces
          /\ pc'[Ticker] \in TickPlaces \cup BackupPlaces
      BY <1>15, GotoType DEF Throw
    <3> QED
      BY <1>15, <3>1 DEF Throw
  <2>2. LevelDiscipline'
    BY <1>15 DEF Throw
  <2>3. LockDiscipline'
    BY <1>15 DEF Throw
  <2> QED
    BY <2>1, <2>2, <2>3
<1>16. ASSUME NEW p \in Actors, Lock(p) PROVE Inv'
  <2>1. TypeOK'
    <3>1. /\ pc' \in [Actors -> CallPlaces \cup TickPlaces \cup BackupPlaces]
          /\ \A q \in Threads : pc'[q] \in CallPlaces \cup BackupPlaces
          /\ pc'[Ticker] \in TickPlaces \cup BackupPlaces
      BY <1>16, GotoType DEF Lock
    <3> QED
      BY <1>16, <3>1 DEF Lock
  <2>2. LevelDiscipline'
    BY <1>16 DEF Lock
  <2>3. LockDiscipline'
    BY <1>16 DEF Lock
  <2> QED
    BY <2>1, <2>2, <2>3
<1>17. ASSUME NEW p \in Actors, CopyFile(p) PROVE Inv'
  <2>1. TypeOK'
    <3>1. /\ pc' \in [Actors -> CallPlaces \cup TickPlaces \cup BackupPlaces]
          /\ \A q \in Threads : pc'[q] \in CallPlaces \cup BackupPlaces
          /\ pc'[Ticker] \in TickPlaces \cup BackupPlaces
      BY <1>17, GotoType DEF CopyFile
    <3> QED
      BY <1>17, <3>1 DEF CopyFile
  <2>2. LevelDiscipline'
    BY <1>17 DEF CopyFile
  <2>3. LockDiscipline'
    BY <1>17 DEF CopyFile
  <2> QED
    BY <2>1, <2>2, <2>3
<1>18. ASSUME NEW p \in Actors, StoreCrc(p) PROVE Inv'
  <2>1. TypeOK'
    <3>1. CASE alive' = FALSE /\ UNCHANGED <<crc, cut, pc>>
      <4>1. UNCHANGED <<owner, depth, busy, need, pc, level, attempts, view,
                        outcome, segment, mapping, container, stamp, backup,
                        crc, cut, failed>>
        BY <1>18, <3>1 DEF StoreCrc
      <4>2. alive' \in BOOLEAN
        BY <3>1
      <4> QED
        BY <4>1, <4>2
    <3>2. CASE crc' = backup /\ cut' = FALSE /\ Goto(p, "clear") /\ UNCHANGED alive
      <4>1. /\ pc' \in [Actors -> CallPlaces \cup TickPlaces \cup BackupPlaces]
            /\ \A q \in Threads : pc'[q] \in CallPlaces \cup BackupPlaces
            /\ pc'[Ticker] \in TickPlaces \cup BackupPlaces
        BY <3>2, GotoType
      <4> QED
        BY <1>18, <3>2, <4>1 DEF StoreCrc
    <3> QED
      BY <1>18, <3>1, <3>2 DEF StoreCrc
  <2>2. LevelDiscipline'
    BY <1>18 DEF StoreCrc
  <2>3. LockDiscipline'
    BY <1>18 DEF StoreCrc
  <2> QED
    BY <2>1, <2>2, <2>3
<1>19. ASSUME NEW p \in Actors, ClearNeed(p) PROVE Inv'
  <2>1. TypeOK'
    <3>1. /\ pc' \in [Actors -> CallPlaces \cup TickPlaces \cup BackupPlaces]
          /\ \A q \in Threads : pc'[q] \in CallPlaces \cup BackupPlaces
          /\ pc'[Ticker] \in TickPlaces \cup BackupPlaces
      BY <1>19, GotoType DEF ClearNeed
    <3> QED
      BY <1>19, <3>1 DEF ClearNeed
  <2>2. LevelDiscipline'
    BY <1>19 DEF ClearNeed
  <2>3. LockDiscipline'
    BY <1>19 DEF ClearNeed
  <2> QED
    BY <2>1, <2>2, <2>3
<1>20. ASSUME NEW p \in Actors, Unlock(p) PROVE Inv'
  <2>1. /\ p = owner /\ depth = level[p] /\ depth > 0
        /\ \A q \in Actors : q # p => Held(q) = 0
    <3>1. pc[p] = "unlock" /\ level[p] \in 0..MaxNesting
      BY <1>20 DEF Unlock
    <3>2. level[p] > 0
      <4>1. CASE p = Ticker
        BY <3>1, <4>1
      <4>2. CASE p \in Threads
        BY <3>1, <4>2
      <4> QED
        BY <4>1, <4>2
    <3>3. p = owner /\ depth = level[p]
      <4>1. Held(p) = level[p]
        BY <3>1
      <4>2. Held(p) = IF p = owner THEN depth ELSE 0
        OBVIOUS
      <4> QED
        BY <3>1, <3>2, <4>1, <4>2
    <3>4. ASSUME NEW q \in Actors, q # p PROVE Held(q) = 0
      BY <3>3, <3>4
    <3> QED
      BY <3>2, <3>3, <3>4
  <2>2. /\ level' = [level EXCEPT ![p] = @ - 1]
        /\ level[p] - 1 \in 0..MaxNesting
        /\ \E place \in {"fired", "idle", "body"} : pc' = [pc EXCEPT ![p] = place]
    <3>1. level' = [level EXCEPT ![p] = @ - 1]
      BY <1>20 DEF Unlock
    <3>2. level[p] - 1 \in 0..MaxNesting
      BY <2>1
    <3>3. \E place \in {"fired", "idle", "body"} : pc' = [pc EXCEPT ![p] = place]
      <4>1. CASE p = Ticker
        BY <1>20, <4>1 DEF Unlock
      <4>2. CASE p # Ticker
        BY <1>20, <4>2 DEF Unlock
      <4> QED
        BY <4>1, <4>2
    <3> QED
      BY <3>1, <3>2, <3>3
  <2>3. TypeOK'
    <3>1. owner' \in Actors \cup {Nobody} /\ depth' \in Nat
      BY <1>20, <2>1 DEF Unlock
    <3>2. /\ level' \in [Actors -> 0..MaxNesting]
          /\ pc' \in [Actors -> CallPlaces \cup TickPlaces \cup BackupPlaces]
      BY <2>2
    <3>3. /\ \A q \in Threads : pc'[q] \in CallPlaces \cup BackupPlaces
          /\ pc'[Ticker] \in TickPlaces \cup BackupPlaces
      <4>1. CASE p = Ticker
        <5>1. Goto(p, "fired")
          BY <1>20, <4>1 DEF Unlock
        <5> QED
          BY <4>1, <5>1, GotoType
      <4>2. CASE p # Ticker
        <5>1. Goto(p, IF level[p] = 1 THEN "idle" ELSE "body")
          BY <1>20, <4>2 DEF Unlock
        <5> QED
          BY <4>2, <5>1, GotoType
      <4> QED
        BY <4>1, <4>2
    <3>4. /\ attempts' \in [Threads -> [Levels -> Nat]]
          /\ view' \in [Threads -> [Levels -> Addresses \cup {Null}]]
          /\ outcome' \in [Threads -> {"none", "done", "threw", "gaveup"}]
      <4>1. CASE p = Ticker
        BY <1>20, <4>1 DEF Unlock
      <4>2. CASE p # Ticker
        <5>1. p \in Threads
          BY <4>2
        <5>2. /\ attempts' = [attempts EXCEPT ![p][level[p]] = 0]
              /\ view' = [view EXCEPT ![p][level[p]] = Null]
              /\ outcome' = [outcome EXCEPT ![p] = "none"]
          BY <1>20, <4>2 DEF Unlock
        <5> QED
          BY <5>1, <5>2
      <4> QED
        BY <4>1, <4>2
    <3>5. UNCHANGED <<busy, need, cut, failed, alive, segment, mapping, container, stamp,
                      backup, crc>>
      BY <1>20 DEF Unlock
    <3> QED
      BY <3>1, <3>2, <3>3, <3>4, <3>5
  <2>4. LevelDiscipline'
    <3>1. CASE p = Ticker
      BY <1>20, <2>1, <3>1 DEF Unlock
    <3>2. CASE p # Ticker
      BY <1>20, <2>1, <3>2 DEF Unlock
    <3> QED
      BY <3>1, <3>2
  <2>5. LockDiscipline'
    <3>1. CASE depth = 1
      BY <1>20, <2>1, <2>2, <3>1 DEF Unlock
    <3>2. CASE depth # 1
      BY <1>20, <2>1, <2>2, <3>2 DEF Unlock
    <3> QED
      BY <3>1, <3>2
  <2> QED
    BY <2>3, <2>4, <2>5
<1>21. ASSUME Tick PROVE Inv'
  <2>1. CASE busy
    <3>1. /\ pc[Ticker] = "armed" /\ level[Ticker] = 0
          /\ pc' = [pc EXCEPT ![Ticker] = "seen"]
          /\ UNCHANGED <<owner, depth, busy, need, level, attempts, view, outcome,
                         segment, mapping, container, stamp, backup, crc, cut, failed,
                         alive>>
      BY <1>21, <2>1 DEF Tick
    <3>2. TypeOK'
      BY <3>1
    <3>3. LevelDiscipline'
      BY <3>1
    <3>4. LockDiscipline'
      BY <3>1
    <3> QED
      BY <3>2, <3>3, <3>4
  <2>2. CASE ~busy
    <3>1. /\ pc[Ticker] = "armed" /\ level[Ticker] = 0
          /\ pc' = [pc EXCEPT ![Ticker] = "acquire"]
          /\ level' = [level EXCEPT ![Ticker] = 1]
          /\ UNCHANGED <<owner, depth, busy, need, attempts, view, outcome,
                         segment, mapping, container, stamp, backup, crc, cut, failed,
                         alive>>
      BY <1>21, <2>2 DEF Tick
    <3>2. TypeOK'
      BY <3>1
    <3>3. LevelDiscipline'
      BY <3>1
    <3>4. LockDiscipline'
      BY <3>1
    <3> QED
      BY <3>2, <3>3, <3>4
  <2> QED
    BY <2>1, <2>2
<1>22. ASSUME RaiseNeed PROVE Inv'
  BY <1>22 DEF RaiseNeed
<1>23. ASSUME Restart PROVE Inv'
  <2>1. /\ pc' = [p \in Actors |-> IF p = Ticker THEN "armed" ELSE "idle"]
        /\ level' = [p \in Actors |-> 0]
        /\ owner' = Nobody /\ depth' = 0
    BY <1>23 DEF Restart
  <2>2. LevelDiscipline'
    BY <2>1
  <2>3. LockDiscipline'
    BY <2>1
  <2>4. TypeOK'
    <3>1. /\ pc' \in [Actors -> CallPlaces \cup TickPlaces \cup BackupPlaces]
          /\ \A t \in Threads : pc'[t] \in CallPlaces \cup BackupPlaces
          /\ pc'[Ticker] \in TickPlaces \cup BackupPlaces
          /\ level' \in [Actors -> 0..MaxNesting]
          /\ owner' \in Actors \cup {Nobody} /\ depth' \in Nat
      BY <2>1
    <3>2. /\ attempts' \in [Threads -> [Levels -> Nat]]
          /\ view' \in [Threads -> [Levels -> Addresses \cup {Null}]]
          /\ outcome' \in [Threads -> {"none", "done", "threw", "gaveup"}]
      BY <1>23 DEF Restart
    <3>3. /\ mapping' \in [base : Addresses, size : Nat]
          /\ container' \in Addresses \cup {Null}
          /\ segment' \in Nat
      BY <1>23 DEF Restart
    <3>4. /\ busy' \in BOOLEAN /\ need' \in BOOLEAN
          /\ cut' \in BOOLEAN /\ alive' \in BOOLEAN
          /\ failed' \subseteq {"copy", "reopen"}
      BY <1>23 DEF Restart
    <3>5. /\ stamp' \in Stamps
          /\ backup' \in Stamps \cup {Absent, Damaged, Earlier}
          /\ crc' \in Stamps \cup {Absent, Damaged, Earlier}
      BY <1>23 DEF Restart
    <3> QED
      BY <3>1, <3>2, <3>3, <3>4, <3>5
  <2> QED
    BY <2>2, <2>3, <2>4
<1>24. ASSUME UNCHANGED vars PROVE Inv'
  BY <1>24 DEF vars
<1> QED
  BY <1>1, <1>2, <1>3, <1>4, <1>5, <1>6, <1>7, <1>8, <1>9, <1>10, <1>11, <1>12,
     <1>13, <1>14, <1>15, <1>16, <1>17, <1>18, <1>19, <1>20, <1>21, <1>22, <1>23,
     <1>24
     DEF Next, Driver, Procedure, Backup

(* Every variable keeps a value of its kind, in every reachable state.     *)
THEOREM TypeCorrect == Spec => []TypeOK
<1>1. Inv => TypeOK
  BY DEF Inv
<1> QED
  BY <1>1, InitInv, NextInv, PTL DEF Spec

(* However transactions nest, fail or back up, the mutex counts exactly    *)
(* the calls between their lock and their unlock.                          *)
THEOREM LockAccounting == Spec => []LockDiscipline
<1>1. Inv => LockDiscipline
  BY DEF Inv
<1> QED
  BY <1>1, InitInv, NextInv, PTL DEF Spec

LEMMA OwnerExcludes == Inv => MutualExclusion
<1> SUFFICES ASSUME Inv, NEW p \in Actors, NEW q \in Actors,
                    Held(p) > 0, Held(q) > 0
             PROVE  p = q
  BY DEF MutualExclusion
<1>1. /\ Held(p) = IF p = owner THEN depth ELSE 0
      /\ Held(q) = IF q = owner THEN depth ELSE 0
  BY DEF Inv, LockDiscipline
<1>2. p = owner /\ q = owner
  BY <1>1
<1> QED
  BY <1>2

(* No two transactions, and no transaction and handler, work on the data,  *)
(* the mapping or the backup at the same time.                             *)
THEOREM Exclusion == Spec => []MutualExclusion
BY InitInv, NextInv, OwnerExcludes, PTL DEF Spec

(* The form in which the steps below use it: of two actors one is outside. *)
Inside == (CallPlaces \ {"idle", "acquire"}) \cup BackupPlaces

LEMMA OneInside ==
  ASSUME Inv, NEW p \in Actors, NEW q \in Actors,
         pc[p] \in Inside, pc[q] \in Inside
  PROVE  p = q
<1>1. ASSUME NEW r \in Actors, pc[r] \in Inside PROVE Held(r) > 0
  <2>1. pc[r] \notin {"idle", "acquire", "armed", "seen", "fired"}
    BY <1>1 DEF Inside, CallPlaces, BackupPlaces
  <2>2. level[r] \in 0..MaxNesting /\ Held(r) = level[r]
    BY <2>1 DEF Inv, TypeOK, Held
  <2>3. level[r] # 0
    BY <2>1 DEF Inv, LevelDiscipline, Actors
  <2> QED
    BY <2>2, <2>3, BoundsAssumption
<1> QED
  BY <1>1, OwnerExcludes DEF MutualExclusion

(* A process that was just started is in none of the places inside.        *)
LEMMA RestartOutside ==
  ASSUME Restart, NEW p \in Actors
  PROVE  pc'[p] \in {"armed", "idle"}
BY DEF Restart

-----------------------------------------------------------------------------
(* The checksum.  A step either leaves both alone, or goes to the place    *)
(* between the copy and the store, or makes them equal.                    *)
LEMMA CrcNext == Inv /\ CrcMatchesBackup /\ [Next]_vars => CrcMatchesBackup'
<1> SUFFICES ASSUME Inv, CrcMatchesBackup, [Next]_vars PROVE CrcMatchesBackup'
  OBVIOUS
<1> USE DEF CrcMatchesBackup, Goto, archive
<1>1. pc \in [Actors -> CallPlaces \cup TickPlaces \cup BackupPlaces]
  BY DEF Inv, TypeOK
<1>2. ASSUME NEW t \in Threads, Driver(t) PROVE CrcMatchesBackup'
  BY <1>1, <1>2 DEF Driver, MarkBusy, Attempt, GiveUp, GrowFile, Remap,
     LoseContainer, FailToReopen, RollBack, ClearBusy, CheckNeed, Actors
<1>3. ASSUME NEW t \in Threads, Call(t) \/ Procedure(t) PROVE CrcMatchesBackup'
  BY <1>1, <1>3 DEF Call, Procedure, Write, Complete, RunOutOfMemory, Throw, Actors
<1>4. ASSUME NEW p \in Actors, CopyFile(p) PROVE CrcMatchesBackup'
  BY <1>1, <1>4 DEF CopyFile
<1>5. ASSUME NEW p \in Actors, StoreCrc(p) PROVE CrcMatchesBackup'
  BY <1>1, <1>5 DEF StoreCrc
<1>6. ASSUME NEW p \in Actors, Lock(p) \/ ClearNeed(p) \/ Unlock(p)
      PROVE  CrcMatchesBackup'
  BY <1>1, <1>6 DEF Lock, ClearNeed, Unlock
<1>7. ASSUME Tick \/ RaiseNeed PROVE CrcMatchesBackup'
  BY <1>1, <1>7 DEF Tick, RaiseNeed, Actors
<1>8. ASSUME Restart PROVE CrcMatchesBackup'
  BY <1>8 DEF Restart
<1>9. ASSUME UNCHANGED vars PROVE CrcMatchesBackup'
  BY <1>9 DEF vars
<1> QED
  BY <1>2, <1>3, <1>4, <1>5, <1>6, <1>7, <1>8, <1>9 DEF Next, Backup

(* The stored checksum is that of the backup file whenever no backup is in *)
(* the middle of being made, nor was left there by a process that ended,   *)
(* even when copies fail.                                                  *)
THEOREM ChecksumCorrect == Spec => []CrcMatchesBackup
<1>1. Init => CrcMatchesBackup
  BY DEF Init, CrcMatchesBackup
<1> QED
  BY <1>1, InitInv, NextInv, CrcNext, PTL DEF Spec

-----------------------------------------------------------------------------
(* Between the copy and the end of the backup the data do not change: who  *)
(* could change them is outside.                                           *)
Fresh == \A p \in Actors :
    pc[p] \in {"crc", "clear"} => backup = stamp \/ "copy" \in failed

LEMMA FreshNext == Inv /\ Fresh /\ [Next]_vars => Fresh'
<1> SUFFICES ASSUME Inv, Fresh, [Next]_vars PROVE Fresh'
  OBVIOUS
<1> USE DEF Fresh, Goto, archive
<1>1. pc \in [Actors -> CallPlaces \cup TickPlaces \cup BackupPlaces]
  BY DEF Inv, TypeOK
<1>2. ASSUME NEW t \in Threads, Driver(t) PROVE Fresh'
  <2>1. CASE RollBack(t)
    <3>1. ASSUME NEW p \in Actors PROVE pc[p] \notin {"crc", "clear"}
      BY <2>1, OneInside DEF RollBack, Inside, CallPlaces, BackupPlaces, Actors
    <3> QED
      BY <1>1, <2>1, <3>1 DEF RollBack, Actors
  <2>2. CASE ~RollBack(t)
    BY <1>1, <1>2, <2>2 DEF Driver, MarkBusy, Attempt, GiveUp, GrowFile, Remap,
       LoseContainer, FailToReopen, ClearBusy, CheckNeed, Actors
  <2> QED
    BY <2>1, <2>2
<1>3. ASSUME NEW t \in Threads, Write(t) PROVE Fresh'
  <2>1. ASSUME NEW p \in Actors PROVE pc[p] \notin {"crc", "clear"}
    BY <1>3, OneInside DEF Write, Inside, CallPlaces, BackupPlaces, Actors
  <2> QED
    BY <1>3, <2>1 DEF Write
<1>4. ASSUME NEW t \in Threads,
             Call(t) \/ Complete(t) \/ RunOutOfMemory(t) \/ Throw(t)
      PROVE  Fresh'
  BY <1>1, <1>4 DEF Call, Complete, RunOutOfMemory, Throw, Actors
<1>5. ASSUME NEW p \in Actors, CopyFile(p) PROVE Fresh'
  BY <1>5 DEF CopyFile
<1>6. ASSUME NEW p \in Actors, StoreCrc(p) PROVE Fresh'
  BY <1>1, <1>6 DEF StoreCrc
<1>7. ASSUME NEW p \in Actors, Lock(p) \/ ClearNeed(p) \/ Unlock(p) PROVE Fresh'
  BY <1>1, <1>7 DEF Lock, ClearNeed, Unlock
<1>8. ASSUME Tick \/ RaiseNeed PROVE Fresh'
  BY <1>1, <1>8 DEF Tick, RaiseNeed, Actors
<1>9. ASSUME Restart PROVE Fresh'
  BY <1>9, RestartOutside
<1>10. ASSUME UNCHANGED vars PROVE Fresh'
  BY <1>10 DEF vars
<1> QED
  BY <1>2, <1>3, <1>4, <1>5, <1>6, <1>7, <1>8, <1>9, <1>10
     DEF Next, Backup, Procedure

(* Whatever fails, a request for a backup is never dropped unless the      *)
(* backup file holds the data as they are at that moment, or the copy made *)
(* for it failed, or the process ends.                                     *)
THEOREM RequestsServed == Spec => RequestServed
<1>1. Init => Fresh
  BY DEF Init, Fresh, Actors
<1>2. Fresh /\ [Next]_vars => [need /\ ~need' => backup = stamp \/ "copy" \in failed \/ Restart]_vars
  BY DEF Fresh, Next, Driver, Procedure, Backup, Call, MarkBusy, Attempt, GiveUp,
     GrowFile, Remap, LoseContainer, FailToReopen, RollBack, ClearBusy, CheckNeed,
     Write, Complete, RunOutOfMemory, Throw, Lock, CopyFile, StoreCrc, ClearNeed,
     Unlock, Tick, RaiseNeed, flags, vars
<1> QED
  BY <1>1, <1>2, InitInv, NextInv, FreshNext, PTL DEF Spec, RequestServed

-----------------------------------------------------------------------------
(* Growth.  Between GrowFile and Remap the region is too small, and whoever *)
(* could run a procedure then is outside.                                  *)
Covered == (\A p \in Actors : pc[p] # "remap") =>
               segment <= mapping.size \/ "reopen" \in failed

LEMMA CoveredNext == Inv /\ Covered /\ [Next]_vars => Covered'
<1> SUFFICES ASSUME Inv, Covered, [Next]_vars PROVE Covered'
  OBVIOUS
<1> USE DEF Covered, Goto, memory, archive
<1>1. /\ pc \in [Actors -> CallPlaces \cup TickPlaces \cup BackupPlaces]
      /\ segment \in Nat /\ mapping \in [base : Addresses, size : Nat]
  BY DEF Inv, TypeOK
<1>2. ASSUME NEW t \in Threads, GrowFile(t) PROVE Covered'
  BY <1>1, <1>2 DEF GrowFile, Actors
<1>3. ASSUME NEW t \in Threads, Remap(t) \/ LoseContainer(t) PROVE Covered'
  <2>1. mapping'.size = segment /\ segment' = segment
    BY <1>3 DEF Remap, LoseContainer
  <2> QED
    BY <1>1, <2>1
<1>4. ASSUME NEW t \in Threads, Driver(t),
             ~GrowFile(t), ~Remap(t), ~LoseContainer(t)
      PROVE  Covered'
  BY <1>1, <1>4 DEF Driver, MarkBusy, Attempt, GiveUp, FailToReopen, RollBack,
     ClearBusy, CheckNeed, Actors
<1>5. ASSUME NEW t \in Threads, Call(t) \/ Procedure(t) PROVE Covered'
  BY <1>1, <1>5 DEF Call, Procedure, Write, Complete, RunOutOfMemory, Throw, Actors
<1>6. ASSUME NEW p \in Actors, Lock(p) \/ Backup(p) PROVE Covered'
  BY <1>1, <1>6 DEF Lock, Backup, CopyFile, StoreCrc, ClearNeed, Unlock
<1>7. ASSUME Tick \/ RaiseNeed PROVE Covered'
  BY <1>1, <1>7 DEF Tick, RaiseNeed, Actors
<1>8. ASSUME Restart PROVE Covered'
  <2>1. mapping'.size = segment /\ segment' = segment
    BY <1>8 DEF Restart
  <2> QED
    BY <1>1, <2>1
<1>9. ASSUME UNCHANGED vars PROVE Covered'
  BY <1>9 DEF vars
<1> QED
  BY <1>2, <1>3, <1>4, <1>5, <1>6, <1>7, <1>8, <1>9 DEF Next

(* Whatever fails, a procedure runs on a region smaller than the segment   *)
(* only after a file that had grown could not be opened again, until the   *)
(* next time it is mapped; at any nesting.                                 *)
THEOREM GrowthCovered == Spec => []SegmentCovered
<1>1. Init => Covered
  BY SizesAssumption DEF Init, Covered
<1>2. Inv /\ Covered => SegmentCovered
  <2> SUFFICES ASSUME Inv, Covered, NEW t \in Threads, pc[t] = "body"
               PROVE  segment <= mapping.size \/ "reopen" \in failed
    BY DEF SegmentCovered
  <2>1. ASSUME NEW p \in Actors PROVE pc[p] # "remap"
    BY OneInside DEF Inside, CallPlaces, BackupPlaces, Actors
  <2> QED
    BY <2>1 DEF Covered
<1> QED
  BY <1>1, <1>2, InitInv, NextInv, CoveredNext, PTL DEF Spec

-----------------------------------------------------------------------------
(* Pointers.  The container lies in the present mapping, or is null; where *)
(* transactions do not nest a procedure took its pointer from there, and   *)
(* nobody maps the file anew while it runs.                                *)
Current == container \in {mapping.base, Null}

LEMMA PointersNext ==
  ASSUME MaxNesting = 1
  PROVE  Inv /\ Current /\ PointersValid /\ [Next]_vars => Current' /\ PointersValid'
<1> SUFFICES ASSUME Inv, Current, PointersValid, [Next]_vars
             PROVE  Current' /\ PointersValid'
  OBVIOUS
<1> USE DEF Current, PointersValid, Goto, memory
<1>1. /\ pc \in [Actors -> CallPlaces \cup TickPlaces \cup BackupPlaces]
      /\ level \in [Actors -> 0..1]
      /\ view \in [Threads -> [{1} -> Addresses \cup {Null}]]
      /\ \A t \in Threads : pc[t] = "idle" <=> level[t] = 0
  BY DEF Inv, TypeOK, LevelDiscipline, Levels
<1>2. ASSUME NEW t \in Threads, pc[t] # "idle" PROVE level[t] = 1
  BY <1>1, <1>2 DEF Actors
<1>3. ASSUME NEW t \in Threads, Attempt(t) PROVE Current' /\ PointersValid'
  <2>1. level[t] = 1 /\ level' = level /\ UNCHANGED <<mapping, container>>
    BY <1>2, <1>3 DEF Attempt
  <2>2. view' = [view EXCEPT ![t][1] = container]
    BY <1>3, <2>1 DEF Attempt
  <2>3. ASSUME NEW u \in Threads, pc'[u] = "body"
        PROVE  view'[u][level'[u]] \in {mapping'.base, Null}
    <3>1. CASE u = t
      BY <1>1, <2>1, <2>2, <3>1
    <3>2. CASE u # t
      BY <1>1, <1>3, <2>1, <2>2, <2>3, <3>2 DEF Attempt, Actors
    <3> QED
      BY <3>1, <3>2
  <2> QED
    BY <2>1, <2>3
<1>4. ASSUME NEW t \in Threads, Remap(t) \/ LoseContainer(t)
      PROVE  Current' /\ PointersValid'
  <2>1. container' \in {mapping'.base, Null}
    BY <1>4 DEF Remap, LoseContainer
  <2>2. ASSUME NEW u \in Threads PROVE pc'[u] # "body"
    <3>1. pc[t] = "remap" /\ pc'[t] # "body" /\ (u # t => pc'[u] = pc[u])
      BY <1>1, <1>4 DEF Remap, LoseContainer, Actors
    <3>2. u # t => pc[u] # "body"
      BY <3>1, OneInside DEF Inside, CallPlaces, BackupPlaces, Actors
    <3> QED
      BY <3>1, <3>2
  <2> QED
    BY <2>1, <2>2
<1>5. ASSUME NEW t \in Threads, Driver(t),
             ~Attempt(t), ~Remap(t), ~LoseContainer(t)
      PROVE  Current' /\ PointersValid'
  BY <1>1, <1>5 DEF Driver, MarkBusy, GiveUp, GrowFile, FailToReopen, RollBack,
     ClearBusy, CheckNeed, Actors
<1>6. ASSUME NEW t \in Threads, Call(t) \/ Procedure(t)
      PROVE  Current' /\ PointersValid'
  BY <1>1, <1>6 DEF Call, Procedure, Write, Complete, RunOutOfMemory, Throw, Actors
<1>7. ASSUME NEW p \in Actors, Unlock(p) PROVE Current' /\ PointersValid'
  <2>1. UNCHANGED <<mapping, container>> /\ pc'[p] # "body"
    BY <1>1, <1>2, <1>7, ActorsAssumption DEF Unlock, Actors
  <2>2. ASSUME NEW u \in Threads, u # p
        PROVE  pc'[u] = pc[u] /\ level'[u] = level[u] /\ view'[u] = view[u]
    BY <1>1, <1>7, <2>2 DEF Unlock, Actors
  <2> QED
    BY <2>1, <2>2
<1>8. ASSUME NEW p \in Actors, Lock(p) \/ CopyFile(p) \/ StoreCrc(p) \/ ClearNeed(p)
      PROVE  Current' /\ PointersValid'
  <2>1. /\ UNCHANGED <<mapping, container, level, view>>
        /\ \/ pc' = pc
           \/ \E place \in {"mark", "copy", "crc", "clear", "unlock"} :
                pc' = [pc EXCEPT ![p] = place]
    BY <1>8 DEF Lock, CopyFile, StoreCrc, ClearNeed
  <2>2. ASSUME NEW u \in Threads, pc'[u] = "body" PROVE pc[u] = "body"
    BY <1>1, <2>1, <2>2 DEF Actors
  <2> QED
    BY <2>1, <2>2
<1>9. ASSUME Tick \/ RaiseNeed PROVE Current' /\ PointersValid'
  BY <1>1, <1>9, ActorsAssumption DEF Tick, RaiseNeed, Actors
<1>10. ASSUME Restart PROVE Current' /\ PointersValid'
  <2>1. container' = mapping'.base
    BY <1>10 DEF Restart
  <2>2. ASSUME NEW u \in Threads PROVE pc'[u] # "body"
    BY <1>10, RestartOutside DEF Actors
  <2> QED
    BY <2>1, <2>2
<1>11. ASSUME UNCHANGED vars PROVE Current' /\ PointersValid'
  BY <1>11 DEF vars
<1> QED
  BY <1>3, <1>4, <1>5, <1>6, <1>7, <1>8, <1>9, <1>10, <1>11 DEF Next, Backup

(* Where transactions do not nest, no procedure ever works through a       *)
(* pointer into a region that was unmapped, whatever growth and faults.    *)
THEOREM PointersCorrect == ASSUME MaxNesting = 1 PROVE Spec => []PointersValid
<1>1. Init => Current /\ PointersValid
  BY ActorsAssumption DEF Init, Current, PointersValid, Actors
<1> QED
  BY <1>1, InitInv, NextInv, PointersNext, PTL DEF Spec

-----------------------------------------------------------------------------
(* The busy flag.  It follows the one thread that is inside, as long as no *)
(* inner transaction can clear it under an outer one.                      *)
LEMMA BusyNext ==
  ASSUME MaxNesting = 1
  PROVE  Inv /\ BusyIsAccurate /\ [Next]_vars => BusyIsAccurate'
<1> SUFFICES ASSUME Inv, BusyIsAccurate, [Next]_vars PROVE BusyIsAccurate'
  OBVIOUS
<1> USE DEF BusyIsAccurate, Working, Goto, flags
<1>1. /\ pc \in [Actors -> CallPlaces \cup TickPlaces \cup BackupPlaces]
      /\ \A t \in Threads : level[t] \in 0..1 /\ (pc[t] = "idle" <=> level[t] = 0)
      /\ Threads \subseteq Actors /\ Ticker \notin Threads
  BY ActorsAssumption DEF Inv, TypeOK, LevelDiscipline, Actors
<1>2. ASSUME NEW t \in Threads, pc[t] \in Working, pc'[t] \in Working, busy' = busy
      PROVE  BusyIsAccurate'
  BY <1>2
<1>3. ASSUME NEW p \in Actors, busy' = busy,
             p \in Threads => pc[p] \notin Working /\ pc'[p] \notin Working,
             \A q \in Actors \ {p} : pc'[q] = pc[q]
      PROVE  BusyIsAccurate'
  BY <1>1, <1>3
<1>4. ASSUME NEW t \in Threads, MarkBusy(t) PROVE BusyIsAccurate'
  <2>1. busy' = TRUE /\ pc'[t] \in Working
    BY <1>1, <1>4 DEF MarkBusy
  <2> QED
    BY <2>1
<1>5. ASSUME NEW t \in Threads, ClearBusy(t) PROVE BusyIsAccurate'
  <2>1. /\ busy' = FALSE /\ pc[t] = "release" /\ pc'[t] = "check"
        /\ \A u \in Threads \ {t} : pc'[u] = pc[u]
    BY <1>1, <1>5 DEF ClearBusy
  <2>2. ASSUME NEW u \in Threads, u # t PROVE pc[u] \notin Working
    BY <1>1, <2>1, <2>2, OneInside DEF Inside, CallPlaces, BackupPlaces
  <2> QED
    BY <2>1, <2>2
<1>6. ASSUME NEW t \in Threads,
             Attempt(t) \/ GiveUp(t) \/ GrowFile(t) \/ Remap(t) \/ LoseContainer(t)
             \/ FailToReopen(t) \/ RollBack(t) \/ Procedure(t)
      PROVE  BusyIsAccurate'
  <2>1. pc[t] \in Working /\ pc'[t] \in Working /\ busy' = busy
    BY <1>1, <1>6 DEF Attempt, GiveUp, GrowFile, Remap, LoseContainer,
       FailToReopen, RollBack, Procedure, Write, Complete, RunOutOfMemory, Throw
  <2> QED
    BY <1>2, <2>1
<1>7. ASSUME NEW t \in Threads, Call(t) \/ CheckNeed(t) PROVE BusyIsAccurate'
  <2>1. /\ pc[t] \notin Working /\ pc'[t] \notin Working /\ busy' = busy
        /\ \A q \in Actors \ {t} : pc'[q] = pc[q]
    BY <1>1, <1>7 DEF Call, CheckNeed
  <2> QED
    BY <1>1, <1>3, <2>1
<1>8. ASSUME NEW p \in Actors, Lock(p) \/ Backup(p) PROVE BusyIsAccurate'
  <2>1. /\ busy' = busy
        /\ \A q \in Actors \ {p} : pc'[q] = pc[q]
    BY <1>1, <1>8 DEF Lock, Backup, CopyFile, StoreCrc, ClearNeed, Unlock
  <2>2. p \in Threads => pc[p] \notin Working /\ pc'[p] \notin Working
    BY <1>1, <1>8 DEF Lock, Backup, CopyFile, StoreCrc, ClearNeed, Unlock
  <2> QED
    BY <1>3, <2>1, <2>2
<1>9. ASSUME Tick \/ RaiseNeed PROVE BusyIsAccurate'
  <2>1. /\ busy' = busy
        /\ \A q \in Actors \ {Ticker} : pc'[q] = pc[q]
    BY <1>1, <1>9 DEF Tick, RaiseNeed
  <2> QED
    BY <1>1, <1>3, <2>1 DEF Actors
<1>10. ASSUME Restart PROVE BusyIsAccurate'
  <2>1. busy' = FALSE
    BY <1>10 DEF Restart
  <2>2. ASSUME NEW u \in Threads PROVE pc'[u] \notin Working
    BY <1>1, <1>10, RestartOutside
  <2> QED
    BY <2>1, <2>2
<1>11. ASSUME UNCHANGED vars PROVE BusyIsAccurate'
  BY <1>11 DEF vars
<1> QED
  BY <1>4, <1>5, <1>6, <1>7, <1>8, <1>9, <1>10, <1>11 DEF Next, Driver

(* Where transactions do not nest, the flag that the handler reads without *)
(* the lock says exactly whether a procedure is under way.                 *)
THEOREM BusyCorrect == ASSUME MaxNesting = 1 PROVE Spec => []BusyIsAccurate
<1>1. Init => BusyIsAccurate
  BY ActorsAssumption DEF Init, BusyIsAccurate, Working, Actors
<1> QED
  BY <1>1, InitInv, NextInv, BusyNext, PTL DEF Spec

-----------------------------------------------------------------------------
(* Refinement.  Without nesting, whether a turn is closing can be told from *)
(* where its owner is.                                                     *)
ClosingPlaces == {"check"} \cup BackupPlaces

OwnerTellsPhase ==
    /\ Closing <=> owner # Nobody /\ pc[owner] \in ClosingPlaces
    /\ \A p \in Actors : pc[p] \in Inside => owner = p /\ depth = 1 /\ level[p] = 1
    /\ \A p \in Actors : pc[p] = "acquire" => owner # p

LEMMA PhaseKnown == MaxNesting = 1 => (Inv => OwnerTellsPhase)
<1> SUFFICES ASSUME MaxNesting = 1, Inv PROVE OwnerTellsPhase
  OBVIOUS
<1>1. ASSUME NEW p \in Actors
      PROVE  /\ level[p] \in 0..1
             /\ Held(p) = IF p = owner THEN depth ELSE 0
             /\ pc[p] # "acquire" => Held(p) = level[p]
  BY DEF Inv, TypeOK, LockDiscipline, Held
<1>2. owner \in Actors \cup {Nobody} /\ (owner = Nobody <=> depth = 0)
  BY DEF Inv, TypeOK, LockDiscipline
<1>3. ASSUME NEW p \in Actors, pc[p] \in Inside
      PROVE  owner = p /\ depth = 1 /\ level[p] = 1
  <2>1. pc[p] \notin {"idle", "acquire", "armed", "seen", "fired"}
    BY <1>3 DEF Inside, CallPlaces, BackupPlaces
  <2>2. level[p] = 1
    BY <1>1, <2>1 DEF Inv, LevelDiscipline, Actors
  <2> QED
    BY <1>1, <2>1, <2>2
<1>4. ASSUME NEW p \in Actors, pc[p] = "acquire" PROVE owner # p
  <2>1. level[p] = 1
    BY <1>1, <1>4 DEF Inv, LevelDiscipline, Actors
  <2>2. Held(p) = 0
    BY <1>4, <2>1 DEF Held
  <2> QED
    BY <1>1, <1>2, <2>2, ActorsAssumption DEF Actors
<1>5. ClosingPlaces \subseteq Inside
  BY DEF ClosingPlaces, Inside, CallPlaces, BackupPlaces
<1>6. ASSUME Closing PROVE owner # Nobody /\ pc[owner] \in ClosingPlaces
  <2>1. PICK p \in Actors : Held(p) = 1 /\ pc[p] \in ClosingPlaces
    BY <1>6 DEF Closing, ClosingPlaces
  <2>2. owner = p
    BY <1>3, <1>5, <2>1
  <2> QED
    BY <2>1, <2>2, ActorsAssumption DEF Actors
<1>7. ASSUME owner # Nobody, pc[owner] \in ClosingPlaces PROVE Closing
  <2>1. owner \in Actors
    BY <1>2, <1>7
  <2>2. level[owner] = 1 /\ pc[owner] # "acquire"
    BY <1>3, <1>5, <1>7, <2>1 DEF ClosingPlaces, BackupPlaces
  <2>3. Held(owner) = 1
    BY <2>2 DEF Held
  <2> QED
    BY <1>7, <2>1, <2>3 DEF Closing, ClosingPlaces
<1> QED
  BY <1>3, <1>4, <1>6, <1>7 DEF OwnerTellsPhase

LEMMA StoreNext ==
  ASSUME MaxNesting = 1
  PROVE  Inv /\ Inv' /\ OwnerTellsPhase /\ OwnerTellsPhase' /\ [Next]_vars
           => [Store!Next]_(Store!vars)
<1> SUFFICES ASSUME Inv, Inv', OwnerTellsPhase, OwnerTellsPhase', [Next]_vars
             PROVE  [Store!Next]_(Store!vars)
  OBVIOUS
<1> USE ActorsAssumption
<1> DEFINE stay == UNCHANGED <<owner, stamp, backup>> /\ (Closing' <=> Closing)
<1>1. /\ pc \in [Actors -> CallPlaces \cup TickPlaces \cup BackupPlaces]
      /\ stamp \in Stamps /\ stamp' \in Stamps
      /\ Nobody \notin Actors
  BY DEF Inv, TypeOK, Actors
<1>2. ASSUME stay PROVE [Store!Next]_(Store!vars)
  BY <1>2 DEF Store!vars
<1>3. ASSUME NEW p \in Actors, owner = p, owner' = p,
             pc[p] \in Inside, pc'[p] \in Inside,
             pc[p] \in ClosingPlaces <=> pc'[p] \in ClosingPlaces
      PROVE  Closing' <=> Closing
  BY <1>1, <1>3 DEF OwnerTellsPhase
<1>4. ASSUME NEW t \in Threads,
             MarkBusy(t) \/ Attempt(t) \/ GiveUp(t) \/ GrowFile(t) \/ Remap(t)
             \/ LoseContainer(t) \/ FailToReopen(t) \/ CheckNeed(t)
             \/ Complete(t) \/ RunOutOfMemory(t) \/ Throw(t)
      PROVE  stay
  <2>1. /\ UNCHANGED <<owner, stamp, backup>>
        /\ pc[t] \in Inside /\ pc'[t] \in Inside
        /\ pc[t] \in ClosingPlaces <=> pc'[t] \in ClosingPlaces
    BY <1>1, <1>4 DEF MarkBusy, Attempt, GiveUp, GrowFile, Remap, LoseContainer,
       FailToReopen, CheckNeed, Complete, RunOutOfMemory, Throw, Goto, locks,
       archive, Inside, ClosingPlaces, CallPlaces, BackupPlaces, Actors
  <2> QED
    BY <1>3, <2>1 DEF OwnerTellsPhase, Actors
<1>5. ASSUME NEW t \in Threads, ClearBusy(t) PROVE Store!Close(t)
  <2>1. /\ UNCHANGED <<owner, stamp, backup>>
        /\ pc[t] = "release" /\ pc'[t] = "check"
    BY <1>1, <1>5 DEF ClearBusy, Goto, locks, archive, Actors
  <2>2. owner = t /\ ~Closing /\ Closing'
    BY <2>1, <1>1 DEF OwnerTellsPhase, Inside, ClosingPlaces, CallPlaces,
       BackupPlaces, Actors
  <2> QED
    BY <1>1, <2>1, <2>2 DEF Store!Close, Actors
<1>6. ASSUME NEW t \in Threads, Write(t) \/ RollBack(t)
      PROVE  stay \/ Store!Update(t)
  <2>1. /\ UNCHANGED <<owner, backup>>
        /\ pc[t] \in {"body", "catch"} /\ pc'[t] \in {"body", "release"}
    BY <1>1, <1>6 DEF Write, RollBack, Goto, locks, archive, Actors
  <2>2. owner = t /\ ~Closing /\ ~Closing'
    BY <2>1, <1>1 DEF OwnerTellsPhase, Inside, ClosingPlaces, CallPlaces,
       BackupPlaces, Actors
  <2> QED
    BY <1>1, <2>1, <2>2 DEF Store!Update, Actors
<1>7. ASSUME NEW p \in Actors, CopyFile(p) PROVE stay \/ Store!Save(p)
  <2>1. /\ UNCHANGED <<owner, stamp>> /\ backup' \in {stamp, backup, Damaged}
        /\ pc[p] = "copy" /\ pc'[p] = "crc"
    BY <1>1, <1>7 DEF CopyFile, Goto, locks
  <2>2. owner = p /\ Closing /\ Closing'
    BY <2>1, <1>1 DEF OwnerTellsPhase, Inside, ClosingPlaces, BackupPlaces
  <2> QED
    BY <1>1, <2>1, <2>2 DEF Store!Save
<1>8. ASSUME NEW p \in Actors, StoreCrc(p) \/ ClearNeed(p) PROVE stay
  <2>1. /\ UNCHANGED <<owner, stamp, backup>>
        /\ pc[p] \in {"crc", "clear"} /\ pc'[p] \in {"crc", "clear", "unlock"}
    BY <1>1, <1>8 DEF StoreCrc, ClearNeed, Goto, locks, archive
  <2>2. owner = p /\ Closing /\ Closing'
    BY <2>1, <1>1 DEF OwnerTellsPhase, Inside, ClosingPlaces, BackupPlaces
  <2> QED
    BY <2>1, <2>2
<1>9. ASSUME NEW p \in Actors, Lock(p) PROVE Store!Enter(p)
  <2>1. owner = Nobody /\ owner' = p /\ UNCHANGED <<stamp, backup>>
    BY <1>9 DEF Lock, archive, OwnerTellsPhase
  <2> QED
    BY <1>1, <2>1 DEF Store!Enter
<1>10. ASSUME NEW p \in Actors, Unlock(p) PROVE Store!Leave(p)
  <2>1. pc[p] = "unlock" /\ UNCHANGED <<stamp, backup>>
    BY <1>10 DEF Unlock, archive
  <2>2. owner = p /\ depth = 1 /\ Closing
    BY <1>1, <2>1 DEF OwnerTellsPhase, Inside, ClosingPlaces, BackupPlaces
  <2>3. owner' = Nobody
    BY <1>10, <2>2 DEF Unlock
  <2> QED
    BY <1>1, <2>1, <2>2, <2>3 DEF Store!Leave
<1>11. ASSUME (\E t \in Threads : Call(t)) \/ Tick \/ RaiseNeed PROVE stay
  <2>1. UNCHANGED <<owner, stamp, backup>>
    BY <1>11 DEF Call, Tick, RaiseNeed, locks, archive
  <2>2. PICK p \in Actors : /\ pc[p] \notin Inside \/ pc[p] = "body"
                            /\ pc'[p] \notin ClosingPlaces
                            /\ \A q \in Actors \ {p} : pc'[q] = pc[q]
    BY <1>1, <1>11 DEF Call, Tick, RaiseNeed, Goto, Actors, Inside, ClosingPlaces,
       CallPlaces, BackupPlaces
  <2>3. pc[p] \notin ClosingPlaces
    BY <2>2 DEF Inside, ClosingPlaces, CallPlaces, BackupPlaces
  <2>4. owner \in Actors \cup {Nobody}
    BY DEF Inv, TypeOK
  <2> QED
    BY <2>1, <2>2, <2>3, <2>4 DEF OwnerTellsPhase
<1>12. ASSUME Restart PROVE Store!Crash
  <2>1. owner' = Nobody /\ stamp' = stamp
    BY <1>12 DEF Restart
  <2>2. backup' = backup \/ (backup' = Damaged /\ \E p \in Actors : pc[p] = "copy")
    BY <1>12 DEF Restart
  <2>3. ASSUME NEW p \in Actors, pc[p] = "copy" PROVE owner # Nobody /\ Closing
    BY <1>1, <2>3 DEF OwnerTellsPhase, Inside, ClosingPlaces, BackupPlaces
  <2> QED
    BY <2>1, <2>2, <2>3 DEF Store!Crash
<1>13. ASSUME UNCHANGED vars PROVE stay
  BY <1>13 DEF vars, Closing, Held
<1> HIDE DEF stay
<1> QED
  BY <1>2, <1>4, <1>5, <1>6, <1>7, <1>8, <1>9, <1>10, <1>11, <1>12, <1>13
     DEF Next, Driver, Procedure, Backup, Store!Next, Actors

(* Where transactions do not nest, the instance implements SerialStore for *)
(* any number of threads and any faults: turns exclude each other, and the *)
(* backup file is only ever a copy of the data as a whole turn left them,  *)
(* or a copy that failed.                                                  *)
THEOREM StoreImplemented == ASSUME MaxNesting = 1 PROVE Spec => ImplementsStore
<1>1. Init => Store!Init
  BY BoundsAssumption DEF Init, Store!Init, Stamps
<1>2. Inv => OwnerTellsPhase
  BY PhaseKnown
<1> QED
  BY <1>1, <1>2, InitInv, NextInv, StoreNext, PTL DEF Spec, ImplementsStore, Store!Spec
=============================================================================
