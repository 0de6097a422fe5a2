------------------------------ MODULE DataBase ------------------------------
(***************************************************************************)
(* One live database instance of the CppDb library: the transactions that  *)
(* client threads run on it through Session::Transaction, the memory       *)
(* mapped file that they grow, and the backup that the timer requests.     *)
(*                                                                         *)
(* The instance is the C++ object BaseDataBase/ConcreteDataBase.  Its      *)
(* transaction lock is a recursive mutex, so that a transaction procedure  *)
(* may itself run a transaction: level[t] is the number of Transaction     *)
(* calls that thread t has open, and pc[t] is the place where the          *)
(* innermost of them stands (the outer ones are all in their procedures).  *)
(* The process may die at any place and be run again on the same files.    *)
(***************************************************************************)
EXTENDS Integers

CONSTANTS
    Threads,            \* client threads
    Ticker,             \* the worker thread that runs the timer's handler
    Nobody,             \* the owner of an unlocked mutex
    Addresses,          \* places where the file can be mapped
    Null,               \* the null container pointer
    Absent,             \* no backup file
    Damaged,            \* what a failed copy leaves in the backup file
    Earlier,            \* the backup a previous run of the program left
    MaxNesting,         \* bound: open transactions per thread
    MaxStamp,           \* bound: number of updates of the data
    TryToAllocateCount, \* ControllInformation::tryToAllocateCount
    PageSize,           \* ControllInformation::pageSize
    DiskSize,           \* what the file system can give to the file
    Faults,             \* the calls that may fail for reasons of their own,
                        \* and "crash": the process may die
    WorkerEnabled       \* whether a thread runs the timer's io_service

(* The file cannot be empty, and growing by an empty page is of no use.    *)
ASSUME SizesAssumption ==
    /\ PageSize \in Nat \ {0}
    /\ DiskSize \in Nat /\ DiskSize >= PageSize
    /\ TryToAllocateCount \in Nat

ASSUME BoundsAssumption ==
    /\ MaxNesting \in Nat \ {0}
    /\ MaxStamp \in Nat

ASSUME ActorsAssumption ==
    /\ Ticker \notin Threads
    /\ Nobody \notin Threads \cup {Ticker}

ASSUME FaultsAssumption ==
    /\ Faults \subseteq {"grow", "reopen", "lookup", "copy", "crash"}
    /\ WorkerEnabled \in BOOLEAN
    /\ Null \notin Addresses

VARIABLES
    owner, depth,       \* m_TransactionAccess, a recursive mutex
    busy, need,         \* m_TransactionBusy, m_NeedCreateBackup
    pc,                 \* where each thread is in its innermost call
    level,              \* number of calls each thread has open
    attempts,           \* attempts made so far, per open call
    view,               \* container pointer the procedure of a call works on
    outcome,            \* how the innermost call of a thread will end
    segment,            \* size of the segment, as the file's header has it
    mapping,            \* m_Memory: address and size of the mapped region
    container,          \* m_Container: the mapping it points into, or Null
    stamp,              \* version of the data: counts the updates
    backup,             \* version of the data that the backup file holds
    crc,                \* version that the stored checksum was computed from
    cut,                \* whether a process ended inside a backup, and no
                        \* backup was completed since (not in the code)
    failed,             \* which of the calls "copy" and "reopen" failed and
                        \* did not succeed since (not in the code, which
                        \* forgets it)
    alive               \* FALSE once the process is terminated

locks   == <<owner, depth>>
flags   == <<busy, need>>
memory  == <<segment, mapping, container>>
archive == <<backup, crc, cut, failed>>
vars    == <<owner, depth, busy, need, pc, level, attempts, view, outcome,
             segment, mapping, container, stamp, backup, crc, cut, failed,
             alive>>

Actors == Threads \cup {Ticker}
Levels == 1..MaxNesting
Stamps == 0..MaxStamp

(* The places of a call of Session::Transaction, of the timer's handler,   *)
(* and of _CreateBackup, which both of them run.                           *)
CallPlaces   == {"idle", "acquire", "mark", "loop", "body", "grow", "remap",
                 "catch", "release", "check"}
TickPlaces   == {"armed", "seen", "acquire", "fired"}
BackupPlaces == {"copy", "crc", "clear", "unlock"}

-----------------------------------------------------------------------------
(* The calls a thread has open whose lock() has returned.                  *)
Held(p) == IF pc[p] = "acquire" THEN level[p] - 1 ELSE level[p]

Goto(p, place) == pc' = [pc EXCEPT ![p] = place]

(* Both flags are initialized to false, the mutex is new (its name is      *)
(* random), and the file is mapped as a whole.  A backup file, if any, is  *)
(* an old one or one of the file's present content, with its checksum: a   *)
(* process that ends inside a backup is what Restart is for.               *)
Init ==
    /\ owner = Nobody /\ depth = 0
    /\ busy = FALSE /\ need = FALSE
    /\ pc = [p \in Actors |-> IF p = Ticker THEN "armed" ELSE "idle"]
    /\ level = [p \in Actors |-> 0]
    /\ attempts = [t \in Threads |-> [n \in Levels |-> 0]]
    /\ view = [t \in Threads |-> [n \in Levels |-> Null]]
    /\ outcome = [t \in Threads |-> "none"]
    /\ segment \in {s \in PageSize..DiskSize : s % PageSize = 0}
    /\ \E a \in Addresses : /\ mapping = [base |-> a, size |-> segment]
                            /\ container = a
    /\ stamp = 0
    /\ backup \in {Absent, Earlier, 0}
    /\ crc = backup
    /\ cut = FALSE
    /\ failed = {}
    /\ alive = TRUE

-----------------------------------------------------------------------------
(* Session::Transaction is called, by an idle thread or by the procedure   *)
(* of a transaction of the same thread.                                    *)
Call(t) ==
    /\ pc[t] \in {"idle", "body"}
    /\ level[t] < MaxNesting
    /\ level' = [level EXCEPT ![t] = @ + 1]
    /\ Goto(t, "acquire")
    /\ UNCHANGED <<locks, flags, attempts, view, outcome, memory, stamp,
                   archive, alive>>

(* Variants of Lock with a bug: the busy flag is asked instead of the      *)
(* mutex, as if transactions that do not write could share it; the handler *)
(* goes the way of a transaction.                                          *)
LockByFlag(p) ==
    /\ pc[p] = "acquire"
    /\ owner \in {Nobody, p} \/ ~busy
    /\ owner' = p
    /\ depth' = depth + 1
    /\ Goto(p, IF p = Ticker THEN "copy" ELSE "mark")
    /\ UNCHANGED <<flags, level, attempts, view, outcome, memory, stamp,
                   archive, alive>>

LockAsTransaction(p) ==
    /\ pc[p] = "acquire"
    /\ owner \in {Nobody, p}
    /\ owner' = p
    /\ depth' = depth + 1
    /\ Goto(p, "mark")
    /\ UNCHANGED <<flags, level, attempts, view, outcome, memory, stamp,
                   archive, alive>>

(* m_TransactionAccess.lock() returns, for a transaction or for the tick.  *)
Lock(p) ==
    /\ pc[p] = "acquire"
    /\ owner \in {Nobody, p}
    /\ owner' = p
    /\ depth' = depth + 1
    /\ Goto(p, IF p = Ticker THEN "copy" ELSE "mark")
    /\ UNCHANGED <<flags, level, attempts, view, outcome, memory, stamp,
                   archive, alive>>

(* The second half of AcquireTransaction, and the test of doTransaction:   *)
(* an empty procedure has nothing to do.                                   *)
MarkBusy(t) ==
    /\ pc[t] = "mark"
    /\ busy' = TRUE
    /\ \E empty \in BOOLEAN :
         /\ Goto(t, IF empty THEN "release" ELSE "loop")
         /\ outcome' = [outcome EXCEPT ![t] = IF empty THEN "done" ELSE @]
    /\ UNCHANGED <<locks, need, level, attempts, view, memory, stamp, archive,
                   alive>>

(* One more pass of the loop: the procedure starts and asks its context    *)
(* for the container.                                                      *)
Attempt(t) ==
    /\ pc[t] = "loop"
    /\ attempts[t][level[t]] < TryToAllocateCount
    /\ view' = [view EXCEPT ![t][level[t]] = container]
    /\ Goto(t, "body")
    /\ UNCHANGED <<locks, flags, level, attempts, outcome, memory, stamp,
                   archive, alive>>

(* Variant of GiveUp: one attempt more is waited for than is ever made.    *)
GiveUpLate(t) ==
    /\ pc[t] = "loop"
    /\ attempts[t][level[t]] > TryToAllocateCount
    /\ outcome' = [outcome EXCEPT ![t] = "gaveup"]
    /\ Goto(t, "release")
    /\ UNCHANGED <<locks, flags, level, attempts, view, memory, stamp,
                   archive, alive>>

(* The loop ends because the attempts are used up: Transaction returns.    *)
GiveUp(t) ==
    /\ pc[t] = "loop"
    /\ attempts[t][level[t]] >= TryToAllocateCount
    /\ outcome' = [outcome EXCEPT ![t] = "gaveup"]
    /\ Goto(t, "release")
    /\ UNCHANGED <<locks, flags, level, attempts, view, memory, stamp,
                   archive, alive>>

-----------------------------------------------------------------------------
(* What a transaction procedure may do.  It updates the data through the   *)
(* pointer it has; a region that was unmapped since makes the access fault *)
(* and the process die.                                                    *)
Write(t) ==
    /\ pc[t] = "body"
    /\ view[t][level[t]] # Null
    /\ stamp < MaxStamp
    /\ IF view[t][level[t]] = mapping.base
       THEN stamp' = stamp + 1 /\ UNCHANGED alive
       ELSE alive' = FALSE /\ UNCHANGED stamp
    /\ UNCHANGED <<locks, flags, pc, level, attempts, view, outcome, memory,
                   archive>>

(* It returns.                                                             *)
Complete(t) ==
    /\ pc[t] = "body"
    /\ outcome' = [outcome EXCEPT ![t] = "done"]
    /\ Goto(t, "release")
    /\ UNCHANGED <<locks, flags, level, attempts, view, memory, stamp,
                   archive, alive>>

(* It throws bad_alloc or length_error.                                    *)
RunOutOfMemory(t) ==
    /\ pc[t] = "body"
    /\ Goto(t, "grow")
    /\ UNCHANGED <<locks, flags, level, attempts, view, outcome, memory,
                   stamp, archive, alive>>

(* It throws anything else.                                                *)
Throw(t) ==
    /\ pc[t] = "body"
    /\ Goto(t, "catch")
    /\ UNCHANGED <<locks, flags, level, attempts, view, outcome, memory,
                   stamp, archive, alive>>

-----------------------------------------------------------------------------
(* tManagedMappedFile::grow adds a page to the file and to the segment, or *)
(* returns false, which nobody looks at.                                   *)
GrowFile(t) ==
    /\ pc[t] = "grow"
    /\ \/ /\ segment + PageSize <= DiskSize
          /\ segment' = segment + PageSize
       \/ /\ segment + PageSize > DiskSize \/ "grow" \in Faults
          /\ UNCHANGED segment
    /\ Goto(t, "remap")
    /\ UNCHANGED <<locks, flags, level, attempts, view, outcome, mapping,
                   container, stamp, archive, alive>>

(* Variants of Remap: the file is not mapped anew; the container is not    *)
(* looked up again.                                                        *)
KeepMapping(t) ==
    /\ pc[t] = "remap"
    /\ attempts' = [attempts EXCEPT ![t][level[t]] = @ + 1]
    /\ Goto(t, "loop")
    /\ UNCHANGED <<locks, flags, level, view, outcome, memory, stamp,
                   archive, alive>>

KeepContainer(t) ==
    /\ pc[t] = "remap"
    /\ \E a \in Addresses \ {mapping.base} :
         mapping' = [base |-> a, size |-> segment]
    /\ attempts' = [attempts EXCEPT ![t][level[t]] = @ + 1]
    /\ Goto(t, "loop")
    /\ failed' = failed \ {"reopen"}
    /\ UNCHANGED <<locks, flags, level, view, outcome, segment, container,
                   stamp, backup, crc, cut, alive>>

(* OnGrow maps the file anew, at an address that the old mapping does not  *)
(* have, and finds the container in it; the next attempt begins.           *)
Remap(t) ==
    /\ pc[t] = "remap"
    /\ \E a \in Addresses \ {mapping.base} :
         /\ mapping' = [base |-> a, size |-> segment]
         /\ container' = a
    /\ attempts' = [attempts EXCEPT ![t][level[t]] = @ + 1]
    /\ Goto(t, "loop")
    /\ failed' = failed \ {"reopen"}
    /\ UNCHANGED <<locks, flags, level, view, outcome, segment, stamp,
                   backup, crc, cut, alive>>

(* Variant of LoseContainer: another attempt is made, and not counted.     *)
SeekContainer(t) ==
    /\ pc[t] = "remap"
    /\ "lookup" \in Faults
    /\ \E a \in Addresses \ {mapping.base} :
         mapping' = [base |-> a, size |-> segment]
    /\ container' = Null
    /\ Goto(t, "loop")
    /\ failed' = failed \ {"reopen"}
    /\ UNCHANGED <<locks, flags, level, attempts, view, outcome, segment,
                   stamp, backup, crc, cut, alive>>

(* The container is not found: the pointer is null, OnGrow throws.         *)
LoseContainer(t) ==
    /\ pc[t] = "remap"
    /\ "lookup" \in Faults
    /\ \E a \in Addresses \ {mapping.base} :
         mapping' = [base |-> a, size |-> segment]
    /\ container' = Null
    /\ Goto(t, "catch")
    /\ failed' = failed \ {"reopen"}
    /\ UNCHANGED <<locks, flags, level, attempts, view, outcome, segment,
                   stamp, backup, crc, cut, alive>>

(* The file cannot be opened: the old mapping stays, OnGrow throws.        *)
FailToReopen(t) ==
    /\ pc[t] = "remap"
    /\ "reopen" \in Faults
    /\ Goto(t, "catch")
    /\ failed' = failed \cup {"reopen"}
    /\ UNCHANGED <<locks, flags, level, attempts, view, outcome, memory,
                   stamp, backup, crc, cut, alive>>

(* The roll back procedure, if there is one, changes the data or not; the  *)
(* exception is thrown on.                                                 *)
RollBack(t) ==
    /\ pc[t] = "catch"
    /\ \/ UNCHANGED stamp
       \/ container # Null /\ stamp < MaxStamp /\ stamp' = stamp + 1
    /\ outcome' = [outcome EXCEPT ![t] = "threw"]
    /\ Goto(t, "release")
    /\ UNCHANGED <<locks, flags, level, attempts, view, memory, archive,
                   alive>>

-----------------------------------------------------------------------------
(* Variant of ClearBusy: the flag is not reset.                            *)
StayBusy(t) ==
    /\ pc[t] = "release"
    /\ Goto(t, "check")
    /\ UNCHANGED <<locks, flags, level, attempts, view, outcome, memory,
                   stamp, archive, alive>>

(* ReleaseTransaction, which the scope exit runs however the call ends.    *)
ClearBusy(t) ==
    /\ pc[t] = "release"
    /\ busy' = FALSE
    /\ Goto(t, "check")
    /\ UNCHANGED <<locks, need, level, attempts, view, outcome, memory,
                   stamp, archive, alive>>

(* Variants of CheckNeed: the request is dropped before the copy; it is    *)
(* not looked at.                                                          *)
ClearFirst(t) ==
    /\ pc[t] = "check"
    /\ need' = FALSE
    /\ Goto(t, IF need THEN "copy" ELSE "unlock")
    /\ UNCHANGED <<locks, busy, level, attempts, view, outcome, memory,
                   stamp, archive, alive>>

SkipBackup(t) ==
    /\ pc[t] = "check"
    /\ Goto(t, "unlock")
    /\ UNCHANGED <<locks, flags, level, attempts, view, outcome, memory,
                   stamp, archive, alive>>

(* _OnReleaseTransaction: a request is answered before the lock is let go. *)
CheckNeed(t) ==
    /\ pc[t] = "check"
    /\ Goto(t, IF need THEN "copy" ELSE "unlock")
    /\ UNCHANGED <<locks, flags, level, attempts, view, outcome, memory,
                   stamp, archive, alive>>

(* _CreateBackup copies the file.  The error of a copy that fails is       *)
(* dropped; the copy may not have begun, or have been cut short.           *)
CopyFile(p) ==
    /\ pc[p] = "copy"
    /\ \/ /\ backup' = stamp
          /\ failed' = failed \ {"copy"}
       \/ /\ "copy" \in Faults
          /\ backup' \in {backup, Damaged}
          /\ failed' = failed \cup {"copy"}
    /\ Goto(p, "crc")
    /\ UNCHANGED <<locks, flags, level, attempts, view, outcome, memory,
                   stamp, crc, cut, alive>>

(* Variant of StoreCrc: the checksum is that of the data.                  *)
StoreCrcOfData(p) ==
    /\ pc[p] = "crc"
    /\ \/ /\ backup \in {Absent, Damaged}
          /\ alive' = FALSE
          /\ UNCHANGED <<crc, cut, pc>>
       \/ /\ backup # Absent
          /\ crc' = stamp
          /\ cut' = FALSE
          /\ Goto(p, "clear")
          /\ UNCHANGED alive
    /\ UNCHANGED <<locks, flags, level, attempts, view, outcome, memory,
                   stamp, backup, failed>>

(* The checksum of the backup is computed and stored.  A backup that does  *)
(* not exist, or that the failed copy left empty, cannot be mapped: the    *)
(* exception leaves a destructor, or the worker's function, and the        *)
(* process is terminated.                                                  *)
StoreCrc(p) ==
    /\ pc[p] = "crc"
    /\ \/ /\ backup \in {Absent, Damaged}
          /\ alive' = FALSE
          /\ UNCHANGED <<crc, cut, pc>>
       \/ /\ backup # Absent
          /\ crc' = backup
          /\ cut' = FALSE
          /\ Goto(p, "clear")
          /\ UNCHANGED alive
    /\ UNCHANGED <<locks, flags, level, attempts, view, outcome, memory,
                   stamp, backup, failed>>

ClearNeed(p) ==
    /\ pc[p] = "clear"
    /\ need' = FALSE
    /\ Goto(p, "unlock")
    /\ UNCHANGED <<locks, busy, level, attempts, view, outcome, memory,
                   stamp, archive, alive>>

(* Variant of Unlock: the first unlock frees the mutex.                    *)
UnlockAll(p) ==
    /\ pc[p] = "unlock"
    /\ depth' = 0
    /\ owner' = Nobody
    /\ level' = [level EXCEPT ![p] = @ - 1]
    /\ IF p = Ticker
       THEN Goto(p, "fired") /\ UNCHANGED <<attempts, view, outcome>>
       ELSE /\ Goto(p, IF level[p] = 1 THEN "idle" ELSE "body")
            /\ attempts' = [attempts EXCEPT ![p][level[p]] = 0]
            /\ view' = [view EXCEPT ![p][level[p]] = Null]
            /\ outcome' = [outcome EXCEPT ![p] = "none"]
    /\ UNCHANGED <<flags, memory, stamp, archive, alive>>

(* m_TransactionAccess.unlock(): the call is over.  An inner transaction   *)
(* returns into the procedure that made it.                                *)
Unlock(p) ==
    /\ pc[p] = "unlock"
    /\ depth' = depth - 1
    /\ owner' = IF depth = 1 THEN Nobody ELSE owner
    /\ level' = [level EXCEPT ![p] = @ - 1]
    /\ IF p = Ticker
       THEN Goto(p, "fired") /\ UNCHANGED <<attempts, view, outcome>>
       ELSE /\ Goto(p, IF level[p] = 1 THEN "idle" ELSE "body")
            /\ attempts' = [attempts EXCEPT ![p][level[p]] = 0]
            /\ view' = [view EXCEPT ![p][level[p]] = Null]
            /\ outcome' = [outcome EXCEPT ![p] = "none"]
    /\ UNCHANGED <<flags, memory, stamp, archive, alive>>

-----------------------------------------------------------------------------
(* Variant of Tick: a handler that finds the instance free needs no lock.  *)
TickWithoutLock ==
    /\ WorkerEnabled
    /\ pc[Ticker] = "armed"
    /\ IF busy THEN Goto(Ticker, "seen") /\ UNCHANGED level
               ELSE Goto(Ticker, "copy") /\ level' = [level EXCEPT ![Ticker] = 1]
    /\ UNCHANGED <<locks, flags, attempts, view, outcome, memory, stamp,
                   archive, alive>>

(* _BackUpTimerTick reads m_TransactionBusy.  The timer is armed once, in  *)
(* the constructor; its handler runs if some thread runs the io_service.   *)
Tick ==
    /\ WorkerEnabled
    /\ pc[Ticker] = "armed"
    /\ IF busy THEN Goto(Ticker, "seen") /\ UNCHANGED level
               ELSE Goto(Ticker, "acquire") /\ level' = [level EXCEPT ![Ticker] = 1]
    /\ UNCHANGED <<locks, flags, attempts, view, outcome, memory, stamp,
                   archive, alive>>

(* A transaction was running when the handler looked.                      *)
RaiseNeed ==
    /\ pc[Ticker] = "seen"
    /\ need' = TRUE
    /\ Goto(Ticker, "fired")
    /\ UNCHANGED <<locks, busy, level, attempts, view, outcome, memory,
                   stamp, archive, alive>>

-----------------------------------------------------------------------------
(* The process dies, or is dead, and the next one opens the database.  The *)
(* files stay as they are, but for a copy that was under way.  The flags   *)
(* are initialized, and the mutex is another one: its name is drawn anew,  *)
(* so that a lock the dead process held stops nobody.                      *)
Restart ==
    /\ "crash" \in Faults
    /\ owner' = Nobody /\ depth' = 0
    /\ busy' = FALSE /\ need' = FALSE
    /\ pc' = [p \in Actors |-> IF p = Ticker THEN "armed" ELSE "idle"]
    /\ level' = [p \in Actors |-> 0]
    /\ attempts' = [t \in Threads |-> [n \in Levels |-> 0]]
    /\ view' = [t \in Threads |-> [n \in Levels |-> Null]]
    /\ outcome' = [t \in Threads |-> "none"]
    /\ \E a \in Addresses : /\ mapping' = [base |-> a, size |-> segment]
                            /\ container' = a
    /\ \E midway \in {FALSE} \cup {pc[p] = "copy" : p \in Actors} :
         /\ backup' = IF midway THEN Damaged ELSE backup
         /\ cut' = (cut \/ midway \/ \E p \in Actors : pc[p] = "crc")
    /\ failed' = {}
    /\ alive' = TRUE
    /\ UNCHANGED <<segment, stamp, crc>>

-----------------------------------------------------------------------------
(* The steps of the library between two lines of client code.              *)
Driver(t) ==
    \/ MarkBusy(t) \/ Attempt(t) \/ GiveUp(t)
    \/ GrowFile(t) \/ Remap(t) \/ LoseContainer(t) \/ FailToReopen(t)
    \/ RollBack(t) \/ ClearBusy(t) \/ CheckNeed(t)

Procedure(t) ==
    Write(t) \/ Complete(t) \/ RunOutOfMemory(t) \/ Throw(t)

Backup(p) == CopyFile(p) \/ StoreCrc(p) \/ ClearNeed(p) \/ Unlock(p)

Next ==
    \/ /\ alive
       /\ \/ \E t \in Threads : Call(t) \/ Driver(t) \/ Procedure(t)
          \/ \E p \in Actors : Lock(p) \/ Backup(p)
          \/ Tick \/ RaiseNeed
    \/ Restart

Spec == Init /\ [][Next]_vars

(* The library's own steps are taken: they run on threads that hold the    *)
(* mutex and wait for nothing.  A transaction procedure ends (client code, *)
(* assumed of it).  The worker, if there is one, runs the handler.  The    *)
(* mutex gives no order among waiting threads: a free mutex is taken by    *)
(* some waiting thread, no thread is promised to be that one.              *)
Fairness ==
    /\ \A t \in Threads : /\ WF_vars(alive /\ Driver(t))
                          /\ WF_vars(alive /\ (Complete(t) \/ Throw(t)
                                                \/ RunOutOfMemory(t)))
    /\ \A p \in Actors : WF_vars(alive /\ Backup(p))
    /\ WF_vars(alive /\ \E p \in Actors : Lock(p))
    /\ WF_vars(alive /\ (Tick \/ RaiseNeed))

FairSpec == Spec /\ Fairness

-----------------------------------------------------------------------------
(* Every variable has a value of the kind the code gives it.               *)
TypeOK ==
    /\ owner \in Actors \cup {Nobody}
    /\ depth \in Nat
    /\ busy \in BOOLEAN /\ need \in BOOLEAN
    /\ cut \in BOOLEAN /\ alive \in BOOLEAN
    /\ failed \subseteq {"copy", "reopen"}
    /\ pc \in [Actors -> CallPlaces \cup TickPlaces \cup BackupPlaces]
    /\ \A t \in Threads : pc[t] \in CallPlaces \cup BackupPlaces
    /\ pc[Ticker] \in TickPlaces \cup BackupPlaces
    /\ level \in [Actors -> 0..MaxNesting]
    /\ attempts \in [Threads -> [Levels -> Nat]]
    /\ view \in [Threads -> [Levels -> Addresses \cup {Null}]]
    /\ outcome \in [Threads -> {"none", "done", "threw", "gaveup"}]
    /\ segment \in Nat
    /\ mapping \in [base : Addresses, size : Nat]
    /\ container \in Addresses \cup {Null}
    /\ stamp \in Stamps
    /\ backup \in Stamps \cup {Absent, Damaged, Earlier}
    /\ crc \in Stamps \cup {Absent, Damaged, Earlier}

(* The recursive mutex counts what the threads have locked and not yet     *)
(* unlocked: however transactions nest and end, every AcquireTransaction   *)
(* is paid back by one ReleaseTransaction of the same thread.              *)
LockDiscipline ==
    /\ \A p \in Actors : Held(p) = IF p = owner THEN depth ELSE 0
    /\ owner = Nobody <=> depth = 0

(* Two threads are never both between AcquireTransaction and the end of    *)
(* ReleaseTransaction, nor is a thread there while the handler backs up.   *)
MutualExclusion ==
    \A p, q \in Actors : Held(p) > 0 /\ Held(q) > 0 => p = q

(* m_TransactionBusy is set without the tick's knowledge and read without  *)
(* the lock.  Where transactions do not nest it still says exactly whether *)
(* a procedure is under way, so the tick never waits behind a procedure    *)
(* that it could see, nor defers for one that is over.                     *)
Working == {"loop", "body", "grow", "remap", "catch", "release"}
BusyIsAccurate == busy <=> \E t \in Threads : pc[t] \in Working

(* At any depth of nesting, where an inner transaction resets the flag     *)
(* under the outer one, it is at least never set with nobody inside: the   *)
(* tick defers only for a transaction that has yet to look at the request  *)
(* when the tick reads the flag.                                           *)
BusyMeansHeld == busy => owner \in Threads

(* A procedure works on the container where the file is mapped now: growth *)
(* never leaves it with a pointer into the region that was given up.       *)
PointersValid ==
    \A t \in Threads : pc[t] = "body" =>
        view[t][level[t]] \in {mapping.base, Null}

(* At any depth, a procedure is started on the present mapping, and keeps  *)
(* a pointer into it through whatever other threads do: it finds it stale  *)
(* only when an inner transaction of its own, that had the file grow,      *)
(* returns into it.                                                        *)
Stale(t) == pc[t] = "body" /\ view[t][level[t]] \notin {mapping.base, Null}

StaleOnlyByInner ==
    [][\A t \in Threads : ~Stale(t) /\ Stale(t)' => level'[t] < level[t]]_vars

(* The segment's header promises a procedure more memory than the region   *)
(* it runs on covers only if a file that had grown could not be opened     *)
(* again and no later growth mapped it anew: the code then keeps the old   *)
(* mapping and goes on taking transactions.  No other path through growth, *)
(* nesting, exceptions and restarts leaves a region short.                 *)
SegmentCovered ==
    \A t \in Threads : pc[t] = "body" =>
        segment <= mapping.size \/ "reopen" \in failed

(* The checksum in the information file is the checksum of the backup file *)
(* at all times but between the copy and the store that follows it.  Only  *)
(* a process that ends just there leaves the two apart, and the next       *)
(* backup that is completed, in whatever process, brings them together.    *)
CrcMatchesBackup ==
    ~cut /\ (\A p \in Actors : pc[p] # "crc") => crc = backup

(* A request for a backup is dropped with a backup that is not the data as *)
(* they are only if the copy made for it failed: the code drops the copy's *)
(* error and then the request.  A release that did not copy does not reset *)
(* m_NeedCreateBackup, and no update comes between the copy and the reset; *)
(* the request is also forgotten by a process that ends.                   *)
RequestServed ==
    [][need /\ ~need' =>
         backup = stamp \/ "copy" \in failed \/ Restart]_vars

(* No data race on what the mutex protects: the data, the segment, its     *)
(* mapping, the container, the backup and its checksum change only by a    *)
(* step of a thread that has the mutex and keeps it, at any depth of       *)
(* nesting, while nobody else is inside; or in the next process.           *)
OnlyOwnerChanges ==
    [][\/ UNCHANGED <<memory, stamp, backup, crc>>
       \/ \E p \in Actors :
            /\ owner = p /\ owner' = p
            /\ \A q \in Actors \ {p} : Held(q) = 0 /\ pc'[q] = pc[q]
       \/ Restart]_vars

(* What a call has before it at most: the places it may come through, and  *)
(* once more those of an attempt for each attempt it has left.             *)
PlacesLeft ==
    [unlock |-> 1, clear |-> 2, crc |-> 3, copy |-> 4, check |-> 5,
     release |-> 6, catch |-> 7, remap |-> 8, grow |-> 9, body |-> 10,
     loop |-> 11, mark |-> 12, acquire |-> 13]

StepsLeft(t) ==
    PlacesLeft[pc[t]] + 4 * (TryToAllocateCount - attempts[t][level[t]])

(* A call comes to its end: whatever the file system, the container and    *)
(* the procedure do, each step of a call brings it nearer to its unlock;   *)
(* it makes no more than 13 + 4 * TryToAllocateCount of them, besides the  *)
(* updates and the inner calls of its procedure.                           *)
CallsWindDown ==
    [][\A t \in Threads :
         level[t] > 0 /\ level'[t] = level[t] /\ pc'[t] # pc[t] =>
             StepsLeft(t)' \in 0..(StepsLeft(t) - 1)]_vars

(* The instance is one lock of Locks: Call and Tick ask for it, Lock is    *)
(* what grants it, and Unlock, however the call went, lets go what its     *)
(* call took and nothing else.  A process that dies lets go everything.    *)
Locking == INSTANCE Locks WITH
    Threads   <- Actors,
    Instances <- {"database"},
    Access    <- "access",
    Nothing   <- "nothing",
    Rank      <- [i \in {"database"} |-> 0],
    MaxRank   <- 0,
    MaxDepth  <- MaxNesting,
    calls     <- [p \in Actors |-> [n \in 1..Held(p) |-> "database"]],
    waits     <- [p \in Actors |-> IF pc[p] = "acquire" THEN "database"
                                                       ELSE "nothing"],
    ordered   <- TRUE

ImplementsLocks == Locking!Init /\ [][Locking!Next \/ Restart]_(Locking!vars)

(* Whoever gets the mutex lets it go, or dies with the process: no path    *)
(* through the loop, the growth of the file, the exceptions or the backup  *)
(* keeps it, and what a dead process held is not waited for by the next.   *)
HolderLeaves == \A p \in Actors : owner = p ~> owner # p \/ ~alive

(* A request for a backup is granted as long as transactions keep coming:  *)
(* the one that raises the flag late is served by the next that releases.  *)
RequestEventuallyServed ==
    []<>(\E t \in Threads : pc[t] = "check") => (need ~> ~need)

(* The instance keeps the promise of SerialStore: a turn is a transaction  *)
(* (or the handler's backup), it closes when the procedure is over, and    *)
(* the backup file is the snapshot.                                        *)
Closing == \E p \in Actors : Held(p) = 1 /\ pc[p] \in {"check"} \cup BackupPlaces

Store == INSTANCE SerialStore WITH
    Contents  <- Stamps,
    Snapshots <- Stamps \cup {Absent, Damaged, Earlier},
    Spoiled   <- Damaged,
    holder    <- owner,
    phase     <- IF owner = Nobody THEN "open"
                 ELSE IF Closing THEN "closing" ELSE "working",
    content   <- stamp,
    snapshot  <- backup

ImplementsStore == Store!Spec

(* "Text about cpp_db details", line 5: when the file system does not give *)
(* the memory, the driver raises FatalError.  The code returns as if the   *)
(* transaction had been done.                                              *)
ExhaustionReported ==
    \A t \in Threads :
        pc[t] = "release" /\ segment + PageSize > DiskSize => outcome[t] # "gaveup"

=============================================================================
