------------------------- MODULE DataBaseStepProofs -------------------------
(***************************************************************************)
(* What no step of DataBase does, for any number of threads, any nesting,  *)
(* any sizes and any faults: change what the mutex protects without having *)
(* it, take a call further from its end, or use the mutex otherwise than   *)
(* Locks has it.                                                           *)
(***************************************************************************)
EXTENDS DataBaseProofs, Sequences

(* Who stands inside has the mutex, and is the only one there.             *)
LEMMA InsideOwns ==
  ASSUME Inv, NEW p \in Actors, pc[p] \in Inside
  PROVE  /\ owner = p /\ depth = level[p] /\ depth > 0
         /\ \A q \in Actors \ {p} : Held(q) = 0
<1>1. pc[p] \notin {"idle", "acquire", "armed", "seen", "fired"}
  BY DEF Inside, CallPlaces, BackupPlaces
<1>2. level[p] \in 0..MaxNesting /\ Held(p) = level[p]
  BY <1>1 DEF Inv, TypeOK, Held
<1>3. level[p] # 0
  BY <1>1 DEF Inv, LevelDiscipline, Actors
<1>4. \A q \in Actors : Held(q) = IF q = owner THEN depth ELSE 0
  BY DEF Inv, LockDiscipline
<1> QED
  BY <1>2, <1>3, <1>4, BoundsAssumption

LEMMA OwnerStep ==
  Inv /\ [Next]_vars =>
    [\/ UNCHANGED <<memory, stamp, backup, crc>>
     \/ \E p \in Actors :
          /\ owner = p /\ owner' = p
          /\ \A q \in Actors \ {p} : Held(q) = 0 /\ pc'[q] = pc[q]
     \/ Restart]_vars
<1> SUFFICES ASSUME Inv, Next
             PROVE  \/ UNCHANGED <<memory, stamp, backup, crc>>
                    \/ \E p \in Actors :
                         /\ owner = p /\ owner' = p
                         /\ \A q \in Actors \ {p} : Held(q) = 0 /\ pc'[q] = pc[q]
                    \/ Restart
  OBVIOUS
<1>1. ASSUME NEW p \in Actors, pc[p] \in Inside, owner' = owner,
             \A q \in Actors \ {p} : pc'[q] = pc[q]
      PROVE  \E r \in Actors :
               /\ owner = r /\ owner' = r
               /\ \A q \in Actors \ {r} : Held(q) = 0 /\ pc'[q] = pc[q]
  BY <1>1, InsideOwns
<1>2. pc \in [Actors -> CallPlaces \cup TickPlaces \cup BackupPlaces]
  BY DEF Inv, TypeOK
<1>3. ASSUME NEW t \in Threads,
             GrowFile(t) \/ Remap(t) \/ LoseContainer(t) \/ RollBack(t) \/ Write(t)
      PROVE  /\ pc[t] \in Inside /\ owner' = owner
             /\ \A q \in Actors \ {t} : pc'[q] = pc[q]
  BY <1>2, <1>3 DEF GrowFile, Remap, LoseContainer, RollBack, Write, Goto, locks,
     Inside, CallPlaces, BackupPlaces
<1>4. ASSUME NEW p \in Actors, CopyFile(p) \/ StoreCrc(p)
      PROVE  /\ pc[p] \in Inside /\ owner' = owner
             /\ \A q \in Actors \ {p} : pc'[q] = pc[q]
  BY <1>2, <1>4 DEF CopyFile, StoreCrc, Goto, locks, Inside, BackupPlaces
<1>5. ASSUME NEW t \in Threads,
             Call(t) \/ MarkBusy(t) \/ Attempt(t) \/ GiveUp(t) \/ FailToReopen(t)
             \/ ClearBusy(t) \/ CheckNeed(t) \/ Complete(t) \/ RunOutOfMemory(t)
             \/ Throw(t)
      PROVE  UNCHANGED <<memory, stamp, backup, crc>>
  BY <1>5 DEF Call, MarkBusy, Attempt, GiveUp, FailToReopen, ClearBusy, CheckNeed,
     Complete, RunOutOfMemory, Throw, archive
<1>6. ASSUME NEW p \in Actors, Lock(p) \/ ClearNeed(p) \/ Unlock(p)
      PROVE  UNCHANGED <<memory, stamp, backup, crc>>
  BY <1>6 DEF Lock, ClearNeed, Unlock, archive
<1>7. ASSUME Tick \/ RaiseNeed PROVE UNCHANGED <<memory, stamp, backup, crc>>
  BY <1>7 DEF Tick, RaiseNeed, archive
<1>8. Threads \subseteq Actors
  BY DEF Actors
<1> QED
  BY <1>1, <1>3, <1>4, <1>5, <1>6, <1>7, <1>8 DEF Next, Driver, Procedure, Backup

(* At any depth of nesting, what the mutex protects is changed by who has  *)
(* the mutex and by nobody else, or by the start of the next process.      *)
THEOREM ChangesGuarded == Spec => OnlyOwnerChanges
BY InitInv, NextInv, OwnerStep, PTL DEF Spec, OnlyOwnerChanges

-----------------------------------------------------------------------------
(* Attempts.  Who is in its procedure, or was left there by an inner call, *)
(* has not used up its attempts, the one it is in included.                *)
AttemptsLeft ==
    \A t \in Threads, n \in Levels :
        /\ attempts[t][n] <= TryToAllocateCount
        /\ n < level[t] => attempts[t][n] < TryToAllocateCount
        /\ n = level[t] /\ pc[t] \in {"body", "grow", "remap"} =>
             attempts[t][n] < TryToAllocateCount

LEMMA AttemptsNext == Inv /\ AttemptsLeft /\ [Next]_vars => AttemptsLeft'
<1> SUFFICES ASSUME Inv, AttemptsLeft, [Next]_vars PROVE AttemptsLeft'
  OBVIOUS
<1> USE SizesAssumption, BoundsAssumption, ActorsAssumption
<1> USE DEF Goto, Levels
<1>1. /\ pc \in [Actors -> CallPlaces \cup TickPlaces \cup BackupPlaces]
      /\ level \in [Actors -> 0..MaxNesting]
      /\ attempts \in [Threads -> [Levels -> Nat]]
      /\ \A t \in Threads : pc[t] = "idle" <=> level[t] = 0
      /\ Threads \subseteq Actors /\ Ticker \notin Threads
  BY DEF Inv, TypeOK, LevelDiscipline, Actors
(* Steps that leave the attempts and the levels alone, and do not enter.   *)
<1>2. ASSUME NEW p \in Actors, UNCHANGED <<attempts, level>>,
             \A q \in Actors \ {p} : pc'[q] = pc[q],
             \/ p \notin Threads
             \/ pc'[p] \notin {"body", "grow", "remap"}
             \/ pc[p] \in {"body", "grow", "remap"}
      PROVE  AttemptsLeft'
  BY <1>1, <1>2 DEF AttemptsLeft
<1>3. ASSUME NEW t \in Threads, Call(t) PROVE AttemptsLeft'
  <2>1. /\ level' = [level EXCEPT ![t] = @ + 1] /\ attempts' = attempts
        /\ pc' = [pc EXCEPT ![t] = "acquire"] /\ pc[t] \in {"idle", "body"}
    BY <1>3 DEF Call
  <2>2. ASSUME NEW n \in Levels, n < level'[t]
        PROVE  attempts[t][n] < TryToAllocateCount
    <3>1. n <= level[t]
      BY <1>1, <2>1, <2>2
    <3>2. n = level[t] => pc[t] = "body"
      BY <1>1, <2>1
    <3> QED
      BY <1>1, <3>1, <3>2 DEF AttemptsLeft
  <2> QED
    BY <1>1, <2>1, <2>2 DEF AttemptsLeft
<1>4. ASSUME NEW t \in Threads, Attempt(t) PROVE AttemptsLeft'
  <2>1. /\ UNCHANGED <<level, attempts>> /\ pc' = [pc EXCEPT ![t] = "body"]
        /\ attempts[t][level[t]] < TryToAllocateCount
    BY <1>4 DEF Attempt
  <2> QED
    BY <1>1, <2>1 DEF AttemptsLeft
<1>5. ASSUME NEW t \in Threads, Remap(t) PROVE AttemptsLeft'
  <2>1. /\ level' = level /\ pc' = [pc EXCEPT ![t] = "loop"] /\ pc[t] = "remap"
        /\ attempts' = [attempts EXCEPT ![t][level[t]] = @ + 1]
    BY <1>5 DEF Remap
  <2>2. level[t] \in Levels
    BY <1>1, <2>1
  <2>3. attempts[t][level[t]] < TryToAllocateCount
    BY <2>1, <2>2 DEF AttemptsLeft
  <2>4. ASSUME NEW u \in Threads, NEW n \in Levels
        PROVE  /\ attempts'[u][n] <= TryToAllocateCount
               /\ n < level'[u] => attempts'[u][n] < TryToAllocateCount
               /\ n = level'[u] /\ pc'[u] \in {"body", "grow", "remap"} =>
                    attempts'[u][n] < TryToAllocateCount
    <3>1. CASE u = t /\ n = level[t]
      BY <1>1, <2>1, <2>2, <2>3, <3>1
    <3>2. CASE ~(u = t /\ n = level[t])
      <4>1. attempts'[u][n] = attempts[u][n]
        BY <1>1, <2>1, <2>2, <3>2
      <4> QED
        BY <1>1, <2>1, <3>2, <4>1 DEF AttemptsLeft
    <3> QED
      BY <3>1, <3>2
  <2> QED
    BY <2>4 DEF AttemptsLeft
<1>6. ASSUME NEW t \in Threads,
             MarkBusy(t) \/ GiveUp(t) \/ GrowFile(t) \/ LoseContainer(t)
             \/ FailToReopen(t) \/ RollBack(t) \/ ClearBusy(t) \/ CheckNeed(t)
             \/ Procedure(t)
      PROVE  AttemptsLeft'
  <2>1. /\ UNCHANGED <<attempts, level>>
        /\ \A q \in Actors \ {t} : pc'[q] = pc[q]
        /\ \/ pc'[t] \notin {"body", "grow", "remap"}
           \/ pc[t] \in {"body", "grow", "remap"}
    BY <1>1, <1>6 DEF MarkBusy, GiveUp, GrowFile, LoseContainer, FailToReopen,
       RollBack, ClearBusy, CheckNeed, Procedure, Write, Complete, RunOutOfMemory,
       Throw
  <2> QED
    BY <1>1, <1>2, <2>1
<1>7. ASSUME NEW p \in Actors, Lock(p) \/ CopyFile(p) \/ StoreCrc(p) \/ ClearNeed(p)
      PROVE  AttemptsLeft'
  <2>1. /\ UNCHANGED <<attempts, level>>
        /\ \A q \in Actors \ {p} : pc'[q] = pc[q]
        /\ pc'[p] \notin {"body", "grow", "remap"}
    BY <1>1, <1>7 DEF Lock, CopyFile, StoreCrc, ClearNeed
  <2> QED
    BY <1>2, <2>1
<1>8. ASSUME NEW p \in Actors, Unlock(p) PROVE AttemptsLeft'
  <2>1. pc[p] = "unlock" /\ level' = [level EXCEPT ![p] = @ - 1]
    BY <1>8 DEF Unlock
  <2>2. CASE p = Ticker
    BY <1>1, <1>8, <2>1, <2>2 DEF Unlock, AttemptsLeft
  <2>3. CASE p \in Threads
    <3>1. /\ attempts' = [attempts EXCEPT ![p][level[p]] = 0]
          /\ pc' = [pc EXCEPT ![p] = IF level[p] = 1 THEN "idle" ELSE "body"]
      BY <1>1, <1>8, <2>3 DEF Unlock
    <3>2. level[p] \in Levels
      BY <1>1, <2>1, <2>3
    <3>3. ASSUME NEW n \in Levels
          PROVE  /\ attempts'[p][n] <= TryToAllocateCount
                 /\ n <= level'[p] => attempts'[p][n] < TryToAllocateCount
      <4>1. n # level[p] => attempts'[p][n] = attempts[p][n]
        BY <1>1, <2>3, <3>1, <3>2
      <4>2. n = level[p] => attempts'[p][n] = 0
        BY <1>1, <2>3, <3>1, <3>2
      <4>3. level'[p] = level[p] - 1
        BY <1>1, <2>1
      <4> QED
        BY <1>1, <2>3, <3>2, <4>1, <4>2, <4>3 DEF AttemptsLeft
    <3>4. ASSUME NEW u \in Threads \ {p}
          PROVE  pc'[u] = pc[u] /\ level'[u] = level[u] /\ attempts'[u] = attempts[u]
      BY <1>1, <2>1, <3>1
    <3>5. level'[p] \in Int
      BY <1>1, <2>1, <2>3
    <3> QED
      BY <3>3, <3>4, <3>5 DEF AttemptsLeft
  <2> QED
    BY <2>2, <2>3 DEF Actors
<1>9. ASSUME Tick \/ RaiseNeed PROVE AttemptsLeft'
  <2>1. /\ attempts' = attempts
        /\ \A t \in Threads : pc'[t] = pc[t] /\ level'[t] = level[t]
    BY <1>1, <1>9 DEF Tick, RaiseNeed
  <2> QED
    BY <2>1 DEF AttemptsLeft
<1>10. ASSUME Restart PROVE AttemptsLeft'
  BY <1>1, <1>10 DEF Restart, AttemptsLeft
<1>11. ASSUME UNCHANGED vars PROVE AttemptsLeft'
  BY <1>11 DEF vars, AttemptsLeft
<1> QED
  BY <1>3, <1>4, <1>5, <1>6, <1>7, <1>8, <1>9, <1>10, <1>11 DEF Next, Driver, Backup
(* Where a call stands it is at a place that has a number.                 *)
LEMMA WindStep ==
  Inv /\ AttemptsLeft /\ [Next]_vars =>
    [\A t \in Threads :
       level[t] > 0 /\ level'[t] = level[t] /\ pc'[t] # pc[t] =>
           StepsLeft(t)' \in 0..(StepsLeft(t) - 1)]_vars
<1> SUFFICES ASSUME Inv, AttemptsLeft, Next, NEW t \in Threads,
                    level[t] > 0, level'[t] = level[t], pc'[t] # pc[t]
             PROVE  StepsLeft(t)' \in 0..(StepsLeft(t) - 1)
  BY DEF vars
<1> USE SizesAssumption, BoundsAssumption, ActorsAssumption DEF Goto
<1>1. /\ pc \in [Actors -> CallPlaces \cup TickPlaces \cup BackupPlaces]
      /\ level \in [Actors -> 0..MaxNesting]
      /\ attempts \in [Threads -> [Levels -> Nat]]
      /\ t \in Actors /\ t # Ticker /\ level[t] \in Levels
  BY DEF Inv, TypeOK, Actors, Levels
<1>2. /\ attempts[t][level[t]] \in 0..TryToAllocateCount
      /\ pc[t] \in {"body", "grow", "remap"} => attempts[t][level[t]] < TryToAllocateCount
  BY <1>1 DEF AttemptsLeft, Levels
(* The steps that go on to a place with a smaller number.                  *)
<1>3. ASSUME attempts'[t] = attempts[t],
             \/ pc[t] = "acquire" /\ pc'[t] = "mark"
             \/ pc[t] = "mark" /\ pc'[t] \in {"loop", "release"}
             \/ pc[t] = "loop" /\ pc'[t] \in {"body", "release"}
             \/ pc[t] = "body" /\ pc'[t] \in {"grow", "catch", "release"}
             \/ pc[t] = "grow" /\ pc'[t] = "remap"
             \/ pc[t] = "remap" /\ pc'[t] = "catch"
             \/ pc[t] = "catch" /\ pc'[t] = "release"
             \/ pc[t] = "release" /\ pc'[t] = "check"
             \/ pc[t] = "check" /\ pc'[t] \in {"copy", "unlock"}
             \/ pc[t] = "copy" /\ pc'[t] = "crc"
             \/ pc[t] = "crc" /\ pc'[t] = "clear"
             \/ pc[t] = "clear" /\ pc'[t] = "unlock"
      PROVE  StepsLeft(t)' \in 0..(StepsLeft(t) - 1)
  <2>1. /\ PlacesLeft[pc[t]] \in 1..13 /\ PlacesLeft[pc'[t]] \in 1..13
        /\ PlacesLeft[pc'[t]] < PlacesLeft[pc[t]]
    BY <1>3 DEF PlacesLeft
  <2>2. StepsLeft(t)' = PlacesLeft[pc'[t]] + 4 * (TryToAllocateCount - attempts[t][level[t]])
    BY <1>3 DEF StepsLeft, PlacesLeft
  <2> QED
    BY <1>2, <2>1, <2>2 DEF StepsLeft
(* The step that goes back to the loop, at the price of an attempt.        *)
<1>4. ASSUME pc[t] = "remap", pc'[t] = "loop",
             attempts' = [attempts EXCEPT ![t][level[t]] = @ + 1]
      PROVE  StepsLeft(t)' \in 0..(StepsLeft(t) - 1)
  <2>1. attempts'[t][level[t]] = attempts[t][level[t]] + 1
    BY <1>1, <1>4
  <2>2. PlacesLeft["remap"] = 8 /\ PlacesLeft["loop"] = 11
    BY DEF PlacesLeft
  <2>3. StepsLeft(t)' = 11 + 4 * (TryToAllocateCount - (attempts[t][level[t]] + 1))
    BY <1>4, <2>1, <2>2 DEF StepsLeft, PlacesLeft
  <2>4. StepsLeft(t) = 8 + 4 * (TryToAllocateCount - attempts[t][level[t]])
    BY <1>4, <2>2 DEF StepsLeft
  <2> QED
    BY <1>2, <1>4, <2>3, <2>4
<1>5. ASSUME NEW p \in Actors, p # t, \A q \in Actors \ {p} : pc'[q] = pc[q]
      PROVE  FALSE
  BY <1>1, <1>5
<1>6. ASSUME NEW u \in Threads, Driver(u) \/ Procedure(u)
      PROVE  StepsLeft(t)' \in 0..(StepsLeft(t) - 1)
  <2>1. u = t
    <3>1. \A q \in Actors \ {u} : pc'[q] = pc[q]
      BY <1>1, <1>6 DEF Driver, Procedure, MarkBusy, Attempt, GiveUp, GrowFile,
         Remap, LoseContainer, FailToReopen, RollBack, ClearBusy, CheckNeed,
         Write, Complete, RunOutOfMemory, Throw
    <3> QED
      BY <1>5, <3>1 DEF Actors
  <2>2. CASE Remap(t)
    BY <1>1, <1>4, <2>2 DEF Remap
  <2>3. CASE ~Remap(t)
    BY <1>1, <1>3, <1>6, <2>1, <2>3 DEF Driver, Procedure, MarkBusy, Attempt,
       GiveUp, GrowFile, LoseContainer, FailToReopen, RollBack, ClearBusy,
       CheckNeed, Write, Complete, RunOutOfMemory, Throw
  <2> QED
    BY <2>2, <2>3
<1>7. ASSUME NEW p \in Actors, Lock(p) \/ Backup(p)
      PROVE  StepsLeft(t)' \in 0..(StepsLeft(t) - 1)
  <2>1. p = t
    <3>1. \A q \in Actors \ {p} : pc'[q] = pc[q]
      BY <1>1, <1>7 DEF Lock, Backup, CopyFile, StoreCrc, ClearNeed, Unlock
    <3> QED
      BY <1>5, <3>1
  <2>2. ~Unlock(t)
    BY <1>1 DEF Unlock
  <2> QED
    BY <1>1, <1>3, <1>7, <2>1, <2>2 DEF Lock, Backup, CopyFile, StoreCrc, ClearNeed
<1>8. ASSUME NEW u \in Threads, Call(u) PROVE FALSE
  <2>1. level' = [level EXCEPT ![u] = @ + 1] /\ pc' = [pc EXCEPT ![u] = "acquire"]
    BY <1>8 DEF Call
  <2>2. u = t
    BY <1>1, <2>1 DEF Actors
  <2> QED
    BY <1>1, <2>1, <2>2
<1>9. ASSUME Tick \/ RaiseNeed PROVE FALSE
  BY <1>1, <1>9 DEF Tick, RaiseNeed
<1>10. ASSUME Restart PROVE FALSE
  BY <1>1, <1>10 DEF Restart
<1> QED
  BY <1>6, <1>7, <1>8, <1>9, <1>10 DEF Next

(* At any depth of nesting and under any faults, each step that a call     *)
(* makes on its own level brings it nearer to its unlock, so that only a   *)
(* procedure that does not end, or a call that is not scheduled, keeps the *)
(* mutex: the part of HolderLeaves that is about the code.                 *)
THEOREM CallsEnd == Spec => CallsWindDown
<1>1. Init => AttemptsLeft
  BY SizesAssumption DEF Init, AttemptsLeft, Levels, Actors
<1> QED
  BY <1>1, InitInv, NextInv, AttemptsNext, WindStep, PTL DEF Spec, CallsWindDown
-----------------------------------------------------------------------------
(* The container at any depth of nesting: wherever the file is mapped, it  *)
(* is there or it is not found.                                            *)
LEMMA CurrentNext == Current /\ [Next]_vars => Current'
<1> SUFFICES ASSUME Current, [Next]_vars PROVE Current'
  OBVIOUS
<1>1. ASSUME UNCHANGED <<mapping, container>> PROVE Current'
  BY <1>1 DEF Current
<1>2. ASSUME NEW t \in Threads, Remap(t) \/ LoseContainer(t) PROVE Current'
  BY <1>2 DEF Current, Remap, LoseContainer
<1>3. ASSUME NEW t \in Threads, Driver(t), ~Remap(t), ~LoseContainer(t)
      PROVE  Current'
  BY <1>1, <1>3 DEF Driver, MarkBusy, Attempt, GiveUp, GrowFile, FailToReopen,
     RollBack, ClearBusy, CheckNeed, memory
<1>4. ASSUME NEW t \in Threads, Call(t) \/ Procedure(t) PROVE Current'
  BY <1>1, <1>4 DEF Call, Procedure, Write, Complete, RunOutOfMemory, Throw, memory
<1>5. ASSUME NEW p \in Actors, Lock(p) \/ Backup(p) PROVE Current'
  BY <1>1, <1>5 DEF Lock, Backup, CopyFile, StoreCrc, ClearNeed, Unlock, memory
<1>6. ASSUME Tick \/ RaiseNeed PROVE Current'
  BY <1>1, <1>6 DEF Tick, RaiseNeed, memory
<1>7. ASSUME Restart PROVE Current'
  BY <1>7 DEF Restart, Current
<1>8. ASSUME UNCHANGED vars PROVE Current'
  BY <1>1, <1>8 DEF vars
<1> QED
  BY <1>2, <1>3, <1>4, <1>5, <1>6, <1>7, <1>8 DEF Next

LEMMA StaleStep ==
  Inv /\ Current /\ [Next]_vars =>
    [\A t \in Threads : ~Stale(t) /\ Stale(t)' => level'[t] < level[t]]_vars
<1> SUFFICES ASSUME Inv, Current, Next, NEW t \in Threads, ~Stale(t), Stale(t)',
                    ~(level'[t] < level[t])
             PROVE  FALSE
  OBVIOUS
<1> USE ActorsAssumption DEF Goto
<1>1. /\ pc \in [Actors -> CallPlaces \cup TickPlaces \cup BackupPlaces]
      /\ level \in [Actors -> 0..MaxNesting]
      /\ view \in [Threads -> [Levels -> Addresses \cup {Null}]]
      /\ t \in Actors /\ t # Ticker /\ Threads \subseteq Actors
      /\ \A u \in Threads : pc[u] = "idle" <=> level[u] = 0
  BY DEF Inv, TypeOK, LevelDiscipline, Actors
<1>2. pc'[t] = "body" /\ view'[t][level'[t]] \notin {mapping'.base, Null}
  BY DEF Stale
(* A step that leaves the thread, what it points to and the mapping.       *)
<1>3. ASSUME pc'[t] = pc[t], view'[t] = view[t], level'[t] = level[t],
             mapping' = mapping
      PROVE  FALSE
  BY <1>3 DEF Stale
<1>4. ASSUME NEW u \in Threads, Attempt(u) PROVE FALSE
  <2>1. /\ level' = level /\ mapping' = mapping /\ pc[u] = "loop"
        /\ view' = [view EXCEPT ![u][level[u]] = container]
        /\ pc' = [pc EXCEPT ![u] = "body"]
    BY <1>4 DEF Attempt, memory
  <2>2. CASE u = t
    <3>1. level[t] \in Levels
      BY <1>1, <2>1, <2>2 DEF Levels
    <3>2. view'[t][level'[t]] = container
      BY <1>1, <2>1, <2>2, <3>1
    <3> QED
      BY <1>2, <2>1, <3>2 DEF Current
  <2>3. CASE u # t
    BY <1>1, <1>3, <2>1, <2>3
  <2> QED
    BY <2>2, <2>3
(* Whoever maps the file anew is alone inside.                             *)
<1>5. ASSUME NEW u \in Threads, Remap(u) \/ LoseContainer(u) PROVE FALSE
  <2>1. pc[u] = "remap" /\ pc'[u] # "body" /\ (u # t => pc'[t] = pc[t])
    BY <1>1, <1>5 DEF Remap, LoseContainer
  <2> QED
    BY <1>1, <1>2, <2>1, OneInside DEF Inside, CallPlaces, BackupPlaces
<1>6. ASSUME NEW u \in Threads, Driver(u) \/ Procedure(u),
             ~Attempt(u), ~Remap(u), ~LoseContainer(u)
      PROVE  FALSE
  <2>1. /\ UNCHANGED <<view, level, mapping>>
        /\ pc'[u] = pc[u] \/ pc'[u] # "body"
        /\ \A q \in Actors \ {u} : pc'[q] = pc[q]
    BY <1>1, <1>6 DEF Driver, Procedure, MarkBusy, GiveUp, GrowFile, FailToReopen,
       RollBack, ClearBusy, CheckNeed, Write, Complete, RunOutOfMemory, Throw, memory
  <2> QED
    BY <1>1, <1>2, <1>3, <2>1
<1>7. ASSUME NEW u \in Threads, Call(u) PROVE FALSE
  <2>1. /\ UNCHANGED <<view, mapping>> /\ pc'[u] # "body"
        /\ \A q \in Actors \ {u} : pc'[q] = pc[q] /\ level'[q] = level[q]
    BY <1>1, <1>7 DEF Call, memory
  <2> QED
    BY <1>1, <1>2, <1>3, <2>1
<1>8. ASSUME NEW p \in Actors, Lock(p) \/ CopyFile(p) \/ StoreCrc(p) \/ ClearNeed(p)
      PROVE  FALSE
  <2>1. /\ UNCHANGED <<view, level, mapping>>
        /\ pc'[p] = pc[p] \/ pc'[p] # "body"
        /\ \A q \in Actors \ {p} : pc'[q] = pc[q]
    BY <1>1, <1>8 DEF Lock, CopyFile, StoreCrc, ClearNeed, memory
  <2> QED
    BY <1>1, <1>2, <1>3, <2>1
<1>9. ASSUME NEW p \in Actors, Unlock(p) PROVE FALSE
  <2>1. /\ mapping' = mapping
        /\ \A q \in Actors \ {p} : pc'[q] = pc[q] /\ level'[q] = level[q]
        /\ \A u \in Threads \ {p} : view'[u] = view[u]
        /\ level'[p] = level[p] - 1
    BY <1>1, <1>9 DEF Unlock, memory
  <2> QED
    BY <1>1, <1>3, <2>1
<1>10. ASSUME Tick \/ RaiseNeed PROVE FALSE
  <2>1. UNCHANGED <<view, mapping>> /\ pc'[t] = pc[t] /\ level'[t] = level[t]
    BY <1>1, <1>10 DEF Tick, RaiseNeed, memory
  <2> QED
    BY <1>3, <2>1
<1>11. ASSUME Restart PROVE FALSE
  BY <1>1, <1>2, <1>11, RestartOutside
<1> QED
  BY <1>4, <1>5, <1>6, <1>7, <1>8, <1>9, <1>10, <1>11 DEF Next, Backup

(* At any depth of nesting: no other thread, no growth of another call and *)
(* no fault takes the region from under a procedure; only the return of an *)
(* inner transaction of its own shows it a pointer into an old one.        *)
THEOREM StaleByInnerOnly == Spec => StaleOnlyByInner
<1>1. Init => Current
  BY DEF Init, Current
<1> QED
  BY <1>1, InitInv, NextInv, CurrentNext, StaleStep, PTL DEF Spec, StaleOnlyByInner

-----------------------------------------------------------------------------
(* The busy flag at any depth.  Who has it set is in its procedure, or has *)
(* left it for an inner call that asks for the mutex again.                *)
BusyWhere == busy =>
    \E t \in Threads : \/ pc[t] \in Working
                       \/ pc[t] \in {"acquire", "mark"} /\ level[t] > 1

LEMMA BusyWhereNext == Inv /\ BusyWhere /\ [Next]_vars => BusyWhere'
<1> SUFFICES ASSUME Inv, BusyWhere, [Next]_vars PROVE BusyWhere'
  OBVIOUS
<1> USE DEF Goto, flags, Working
<1>1. /\ pc \in [Actors -> CallPlaces \cup TickPlaces \cup BackupPlaces]
      /\ level \in [Actors -> 0..MaxNesting]
      /\ \A t \in Threads : pc[t] = "idle" <=> level[t] = 0
      /\ Threads \subseteq Actors /\ Ticker \notin Threads
  BY ActorsAssumption DEF Inv, TypeOK, LevelDiscipline, Actors
(* A step that moves one actor, and not out of the places of BusyWhere.    *)
<1>2. ASSUME NEW p \in Actors, busy' = busy,
             \A q \in Actors \ {p} : pc'[q] = pc[q] /\ level'[q] = level[q],
             \/ p \notin Threads
             \/ pc'[p] \in Working
             \/ pc'[p] \in {"acquire", "mark"} /\ level'[p] > 1
             \/ pc[p] \notin Working /\ ~(pc[p] \in {"acquire", "mark"} /\ level[p] > 1)
      PROVE  BusyWhere'
  BY <1>1, <1>2 DEF BusyWhere
<1>3. ASSUME NEW t \in Threads, MarkBusy(t) PROVE BusyWhere'
  <2>1. pc'[t] \in Working
    BY <1>1, <1>3 DEF MarkBusy
  <2> QED
    BY <2>1 DEF BusyWhere
<1>4. ASSUME NEW t \in Threads, ClearBusy(t) PROVE BusyWhere'
  BY <1>4 DEF ClearBusy, BusyWhere
<1>5. ASSUME NEW t \in Threads, Driver(t) \/ Procedure(t),
             ~MarkBusy(t), ~ClearBusy(t)
      PROVE  BusyWhere'
  <2>1. /\ busy' = busy /\ level' = level
        /\ \A q \in Actors \ {t} : pc'[q] = pc[q]
        /\ pc'[t] \in Working \/ pc[t] = "check"
    BY <1>1, <1>5 DEF Driver, Procedure, Attempt, GiveUp, GrowFile, Remap,
       LoseContainer, FailToReopen, RollBack, CheckNeed, Write, Complete,
       RunOutOfMemory, Throw
  <2> QED
    BY <1>1, <1>2, <2>1
<1>6. ASSUME NEW t \in Threads, Call(t) PROVE BusyWhere'
  <2>1. /\ busy' = busy /\ pc[t] \in {"idle", "body"} /\ pc'[t] = "acquire"
        /\ level'[t] = level[t] + 1
        /\ \A q \in Actors \ {t} : pc'[q] = pc[q] /\ level'[q] = level[q]
    BY <1>1, <1>6 DEF Call
  <2>2. pc[t] = "body" => level'[t] > 1
    BY <1>1, <2>1
  <2> QED
    BY <1>1, <1>2, <2>1, <2>2
<1>7. ASSUME NEW p \in Actors, Lock(p) PROVE BusyWhere'
  <2>1. /\ busy' = busy /\ level' = level /\ pc[p] = "acquire"
        /\ p \in Threads => pc'[p] = "mark"
        /\ \A q \in Actors \ {p} : pc'[q] = pc[q]
    BY <1>1, <1>7 DEF Lock
  <2> QED
    BY <1>1, <1>2, <2>1
<1>8. ASSUME NEW p \in Actors, Backup(p) PROVE BusyWhere'
  <2>1. /\ busy' = busy /\ pc[p] \in BackupPlaces
        /\ \A q \in Actors \ {p} : pc'[q] = pc[q] /\ level'[q] = level[q]
    BY <1>1, <1>8 DEF Backup, CopyFile, StoreCrc, ClearNeed, Unlock, BackupPlaces
  <2> QED
    BY <1>2, <2>1 DEF BackupPlaces
<1>9. ASSUME Tick \/ RaiseNeed PROVE BusyWhere'
  <2>1. /\ busy' = busy
        /\ \A q \in Actors \ {Ticker} : pc'[q] = pc[q] /\ level'[q] = level[q]
    BY <1>1, <1>9 DEF Tick, RaiseNeed
  <2> QED
    BY <1>1, <1>2, <2>1 DEF Actors
<1>10. ASSUME Restart PROVE BusyWhere'
  BY <1>10 DEF Restart, BusyWhere
<1>11. ASSUME UNCHANGED vars PROVE BusyWhere'
  BY <1>11 DEF vars, BusyWhere
<1> QED
  BY <1>3, <1>4, <1>5, <1>6, <1>7, <1>8, <1>9, <1>10, <1>11 DEF Next

(* However transactions nest, the flag that the handler reads without the  *)
(* lock is never set with no transaction inside.                           *)
THEOREM BusyAnyDepth == Spec => []BusyMeansHeld
<1>1. Init => BusyWhere
  BY DEF Init, BusyWhere
<1>2. Inv /\ BusyWhere => BusyMeansHeld
  <2> SUFFICES ASSUME Inv, BusyWhere, busy PROVE owner \in Threads
    BY DEF BusyMeansHeld
  <2>1. PICK t \in Threads : \/ pc[t] \in Working
                             \/ pc[t] \in {"acquire", "mark"} /\ level[t] > 1
    BY DEF BusyWhere
  <2>2. CASE pc[t] \in Inside
    BY <2>2, InsideOwns DEF Actors
  <2>3. CASE pc[t] = "acquire" /\ level[t] > 1
    <3>1. Held(t) = level[t] - 1
      BY <2>3 DEF Held
    <3>2. Held(t) = IF t = owner THEN depth ELSE 0
      BY DEF Inv, LockDiscipline, Actors
    <3>3. level[t] \in 0..MaxNesting
      BY DEF Inv, TypeOK, Actors
    <3> QED
      BY <2>3, <3>1, <3>2, <3>3, BoundsAssumption
  <2> QED
    BY <2>1, <2>2, <2>3 DEF Inside, Working, CallPlaces
<1> QED
  BY <1>1, <1>2, InitInv, NextInv, BusyWhereNext, PTL DEF Spec

-----------------------------------------------------------------------------
(* The mutex as one lock of Locks.  The calls of an actor are as many       *)
(* entries as it holds, all for this database.                             *)
Entries(n) == [k \in 1..n |-> "database"]
Asking(p) == IF pc[p] = "acquire" THEN "database" ELSE "nothing"

LEMMA EntriesGrow ==
  ASSUME NEW n \in Nat
  PROVE  /\ Entries(n) \in Seq({"database"})
         /\ Len(Entries(n)) = n
         /\ Append(Entries(n), "database") = Entries(n + 1)
         /\ SubSeq(Entries(n + 1), 1, n) = Entries(n)
BY DEF Entries

(* Who holds nothing of this lock but entries for it, holds no m_Access.   *)
LEMMA HoldsEntries ==
  ASSUME NEW p \in Actors, Held(p) \in Nat
  PROVE  /\ Locking!Holds(p, "database") <=> Held(p) > 0
         /\ ~Locking!InManager(p)
         /\ Locking!HeldBy(p) \subseteq {"database"}
<1>1. Locking!HeldBy(p) = {"database" : k \in 1..Held(p)}
  BY DEF Locking!HeldBy
<1> QED
  BY <1>1 DEF Locking!Holds, Locking!InManager

LEMMA LockingNext == Inv /\ Inv' /\ [Next]_vars => [Locking!Next \/ Restart]_(Locking!vars)
<1> SUFFICES ASSUME Inv, Inv', [Next]_vars
             PROVE  [Locking!Next \/ Restart]_(Locking!vars)
  OBVIOUS
<1> USE ActorsAssumption, BoundsAssumption DEF Goto
<1> DEFINE stay == \A q \in Actors : Held(q)' = Held(q) /\ Asking(q)' = Asking(q)
           others(p) == \A q \in Actors \ {p} : Held(q)' = Held(q) /\ Asking(q)' = Asking(q)
<1>1. /\ pc \in [Actors -> CallPlaces \cup TickPlaces \cup BackupPlaces]
      /\ level \in [Actors -> 0..MaxNesting]
      /\ Threads \subseteq Actors /\ Ticker \in Actors /\ Ticker \notin Threads
  BY DEF Inv, TypeOK, Actors
<1>2. ASSUME NEW p \in Actors
      PROVE  /\ Held(p) \in Nat /\ Held(p) <= level[p]
             /\ Held(p) = IF p = owner THEN depth ELSE 0
             /\ pc[p] = "acquire" => Held(p) = level[p] - 1
             /\ pc[p] # "acquire" => Held(p) = level[p]
  <2>1. depth \in Nat /\ Held(p) = IF p = owner THEN depth ELSE 0
    BY DEF Inv, TypeOK, LockDiscipline
  <2> QED
    BY <1>1, <2>1 DEF Held
<1>3. ASSUME stay PROVE UNCHANGED Locking!vars
  BY <1>3 DEF Locking!vars, Asking
(* A step that moves one actor, on the same level, between places where it *)
(* does not ask for the mutex.                                             *)
<1>4. ASSUME NEW p \in Actors, level' = level,
             \A q \in Actors \ {p} : pc'[q] = pc[q],
             pc[p] # "acquire", pc'[p] # "acquire"
      PROVE  UNCHANGED Locking!vars
  <2>1. stay
    BY <1>4 DEF Held, Asking
  <2> QED
    BY <1>3, <2>1
<1>5. ASSUME NEW t \in Threads, Driver(t) \/ Procedure(t) PROVE UNCHANGED Locking!vars
  <2>1. /\ level' = level /\ pc[t] # "acquire" /\ pc'[t] # "acquire"
        /\ \A q \in Actors \ {t} : pc'[q] = pc[q]
    BY <1>1, <1>5 DEF Driver, Procedure, MarkBusy, Attempt, GiveUp, GrowFile, Remap,
       LoseContainer, FailToReopen, RollBack, ClearBusy, CheckNeed, Write, Complete,
       RunOutOfMemory, Throw
  <2> QED
    BY <1>1, <1>4, <2>1
<1>6. ASSUME NEW p \in Actors, CopyFile(p) \/ StoreCrc(p) \/ ClearNeed(p)
      PROVE  UNCHANGED Locking!vars
  <2>1. /\ level' = level /\ pc[p] # "acquire" /\ pc'[p] # "acquire"
        /\ \A q \in Actors \ {p} : pc'[q] = pc[q]
    BY <1>1, <1>6 DEF CopyFile, StoreCrc, ClearNeed
  <2> QED
    BY <1>4, <2>1
(* An actor asks for the mutex.                                            *)
<1>7. ASSUME NEW p \in Actors, pc[p] # "acquire", Held(p) < MaxNesting,
             pc' = [pc EXCEPT ![p] = "acquire"],
             level' = [level EXCEPT ![p] = @ + 1]
      PROVE  Locking!Transaction(p, "database")
  <2>1. \A q \in Actors : Held(q)' = Held(q)
    <3>1. ASSUME NEW q \in Actors, q = p PROVE Held(q)' = Held(q)
      <4>1. pc'[q] = "acquire" /\ level'[q] = level[q] + 1
        BY <1>1, <1>7, <3>1
      <4> QED
        BY <1>1, <1>7, <3>1, <4>1 DEF Held
    <3>2. ASSUME NEW q \in Actors, q # p PROVE Held(q)' = Held(q)
      BY <1>1, <1>7, <3>2 DEF Held
    <3> QED
      BY <3>1, <3>2
  <2>2. [q \in Actors |-> Asking(q)]' = [[q \in Actors |-> Asking(q)] EXCEPT ![p] = "database"]
    BY <1>1, <1>7 DEF Asking
  <2>3. Len(Entries(Held(p))) = Held(p)
    BY <1>2, EntriesGrow
  <2>4. Locking!Free(p)
    BY <1>2, <1>7, <2>3, HoldsEntries DEF Locking!Free, Entries
  <2>5. Locking!InOrder(p, "database")
    <3>1. Held(p) = 0 => Locking!HeldBy(p) = {}
      BY DEF Locking!HeldBy
    <3> QED
      BY <1>2, <3>1, HoldsEntries DEF Locking!InOrder
  <2> QED
    BY <2>1, <2>2, <2>4, <2>5 DEF Locking!Transaction, Asking
<1>8. ASSUME NEW t \in Threads, Call(t) PROVE Locking!Next
  <2>1. Locking!Transaction(t, "database")
    BY <1>1, <1>2, <1>7, <1>8 DEF Call
  <2> QED
    BY <1>1, <2>1 DEF Locking!Next
<1>9. ASSUME Tick PROVE [Locking!Next]_(Locking!vars)
  <2>1. CASE busy
    BY <1>1, <1>4, <1>9, <2>1 DEF Tick
  <2>2. CASE ~busy
    <3>1. level[Ticker] = 0 /\ pc[Ticker] = "armed"
      BY <1>9 DEF Tick, Inv, LevelDiscipline
    <3>2. Locking!Transaction(Ticker, "database")
      BY <1>1, <1>2, <1>7, <1>9, <2>2, <3>1 DEF Tick
    <3> QED
      BY <1>1, <3>2 DEF Locking!Next
  <2> QED
    BY <2>1, <2>2
<1>10. ASSUME RaiseNeed PROVE UNCHANGED Locking!vars
  BY <1>1, <1>4, <1>10 DEF RaiseNeed
(* The mutex is granted.                                                   *)
<1>11. ASSUME NEW p \in Actors, Lock(p) PROVE Locking!Next
  <2>1. /\ pc[p] = "acquire" /\ owner \in {Nobody, p} /\ level' = level
        /\ pc'[p] # "acquire" /\ \A q \in Actors \ {p} : pc'[q] = pc[q]
    BY <1>1, <1>11 DEF Lock
  <2>2. \A u \in Actors : ~Locking!Blocks(u, p)
    <3>1. ASSUME NEW u \in Actors, u # p PROVE ~Locking!Holds(u, "database")
      BY <1>2, <2>1, <3>1, HoldsEntries DEF Actors
    <3> QED
      BY <2>1, <3>1 DEF Locking!Blocks
  <2>3. Held(p)' = Held(p) + 1 /\ \A q \in Actors \ {p} : Held(q)' = Held(q)
    BY <1>1, <2>1 DEF Held
  <2>4. [q \in Actors |-> Entries(Held(q))]' =
          [[q \in Actors |-> Entries(Held(q))] EXCEPT ![p] = Append(@, "database")]
    <3>1. Append(Entries(Held(p)), "database") = Entries(Held(p) + 1)
      BY <1>2, EntriesGrow
    <3> QED
      BY <2>3, <3>1 DEF Entries
  <2>5. [q \in Actors |-> Asking(q)]' = [[q \in Actors |-> Asking(q)] EXCEPT ![p] = "nothing"]
    BY <2>1 DEF Asking
  <2>6. Locking!Grant(p)
    BY <2>1, <2>2, <2>4, <2>5 DEF Locking!Grant, Entries, Asking
  <2> QED
    BY <2>6 DEF Locking!Next
(* A call lets go what it took.                                            *)
<1>12. ASSUME NEW p \in Actors, Unlock(p) PROVE Locking!Next
  <2>1. /\ pc[p] = "unlock" /\ level' = [level EXCEPT ![p] = @ - 1]
        /\ pc'[p] # "acquire" /\ \A q \in Actors \ {p} : pc'[q] = pc[q]
    BY <1>1, <1>12 DEF Unlock
  <2>2. Held(p) > 0
    BY <1>2, <2>1, InsideOwns DEF Inside, BackupPlaces
  <2>3. Held(p)' = Held(p) - 1 /\ \A q \in Actors \ {p} : Held(q)' = Held(q)
    BY <1>1, <2>1 DEF Held
  <2>4. [q \in Actors |-> Entries(Held(q))]' =
          [[q \in Actors |-> Entries(Held(q))] EXCEPT ![p] = SubSeq(@, 1, Len(@) - 1)]
    <3>1. PICK n \in Nat : Held(p) = n + 1
      BY <1>2, <2>2
    <3>2. Len(Entries(n + 1)) = n + 1
      <4>1. n + 1 \in Nat
        OBVIOUS
      <4> QED
        BY <4>1, EntriesGrow
    <3>3. SubSeq(Entries(Held(p)), 1, Len(Entries(Held(p))) - 1) = Entries(Held(p) - 1)
      <4>1. SubSeq(Entries(n + 1), 1, n) = Entries(n)
        BY EntriesGrow
      <4> QED
        BY <3>1, <3>2, <4>1
    <3> QED
      BY <2>3, <3>3 DEF Entries
  <2>5. \A q \in Actors : Asking(q)' = Asking(q)
    BY <2>1 DEF Asking
  <2>6. Entries(Held(p)) # <<>> /\ Asking(p) = "nothing"
    BY <1>2, <2>1, <2>2, EntriesGrow DEF Asking
  <2>7. Locking!Done(p)
    BY <2>4, <2>5, <2>6 DEF Locking!Done, Entries, Asking
  <2> QED
    BY <2>7 DEF Locking!Next
<1>13. ASSUME UNCHANGED vars PROVE UNCHANGED Locking!vars
  <2>1. stay
    BY <1>13 DEF vars, Held, Asking
  <2> QED
    BY <1>3, <2>1
<1> QED
  BY <1>5, <1>6, <1>8, <1>9, <1>10, <1>11, <1>12, <1>13 DEF Next, Backup

(* For any number of threads, any nesting and any faults, an instance uses *)
(* its mutex as Locks takes it to: it asks where client code may call, is  *)
(* granted what no other thread has, and lets go call by call.             *)
THEOREM LocksImplemented == Spec => ImplementsLocks
<1>1. Init => Locking!Init
  <2> SUFFICES ASSUME Init PROVE Locking!Init
    OBVIOUS
  <2>1. \A p \in Actors : Held(p) = 0 /\ pc[p] # "acquire"
    BY DEF Init, Held
  <2>2. Entries(0) = <<>>
    BY EntriesGrow DEF Entries
  <2> QED
    BY <2>1, <2>2 DEF Locking!Init, Entries
<1> QED
  BY <1>1, InitInv, NextInv, LockingNext, PTL DEF Spec, ImplementsLocks
=============================================================================
