# CppDb: specifications, model checking and proofs

CppDb (`development/CppDB`) is a C++ library for databases that live in memory
mapped files: a client defines the types of its tables, asks the `Manager` for
a database, opens a session on it and runs procedures in transactions. The
procedures work directly on containers inside the mapped file; when the file is
full the library grows it, maps it again and runs the procedure again. A timer
asks for backups of the file.

This directory has a TLA+ model of the library, TLC configurations that check
it on small instances, and proofs of its main safety properties for every
value of the constants. Paths below are relative to the repository; `libCppDb`
stands for `development/CppDB/libCppDb`.

1. [The system](#1-the-system)
2. [The modules](#2-the-modules)
3. [Model checking](#3-model-checking)
4. [Proofs](#4-proofs)
5. [Where code and documents disagree](#5-where-code-and-documents-disagree)
6. [What is left out, and why](#6-what-is-left-out-and-why)
7. [Plan](#7-plan)

## 1. The system

### Components

| component | state it keeps | operations | source |
|---|---|---|---|
| Database instance (`BaseDataBase`, `ConcreteDataBase`) | the recursive named mutex `m_TransactionAccess`, the flags `m_TransactionBusy` and `m_NeedCreateBackup`, the mapping `m_Memory`, the pointer `m_Container`, `m_SessionStore` | `AcquireTransaction`, `ReleaseTransaction`, `Grow`/`OnGrow`, `_CreateBackup`, `_BackUpTimerTick`, `CreateSession`, `CloseSession` | `libCppDb/source/BaseDataBase.cpp`, `libCppDb/include/CppDb/details/ConcreteDataBase.hpp` |
| Session | pointer to its instance | `Transaction` | `libCppDb/source/Session.cpp` |
| Backup timer (`PeriodicTimer`) | an `io_service` and a deadline timer | `Wait`, `Cancel` | `libCppDb/source/PeriodicTimer.cpp` |
| File system presenter | the paths of the data, information and backup files | its constructor | `libCppDb/source/FileSystemPresenter.cpp`, `FileSystemStructure.cpp` |
| Control information | the information file: build header, settings, checksum of the backup, mapped read-write | its constructor, `StoreDataBaseBackupFileCrc`, getters | `libCppDb/source/ControllInformationHolder.cpp`, `ControllInformation.cpp`, `MappedFile*.cpp` |
| Manager | `m_Store`, a multi-index container with unique id and unique path, under `m_Access` | `AcquireDataBase` by name and by id, `ReleaseDataBase` | `libCppDb/include/CppDb/Manager.hpp`, `libCppDb/source/Manager.cpp`, `AtomUtils.cpp` |
| Singleton | the one `Manager`, a mutex | `Instance`, `KillInstance` | `libCppDb/include/CppDb/details/SingletonTemplate.hpp` |
| Demonstration program | tables of a sample database | transaction procedures | `development/CppDB/CppDB/CppDB.cpp` |

Exceptions, interfaces and forwarding headers have no behaviour of their own.
`development/examples-multi_index_container.cpp` is an example of a Boost
library, not a part of this one.

### How they interact

* `Manager::AcquireDataBase` constructs, under `m_Access`, a
  `FileSystemPresenter`, a `ControllInformationHolder` and a database instance,
  in that order; each can throw. The store, the clients and the sessions hold
  the instance by `shared_ptr`. The last one to let go destroys it, which
  shrinks the data file.
* `Session::Transaction` locks the instance's mutex, sets the busy flag and runs
  the client's procedure up to `tryToAllocateCount` times. If the procedure
  throws `bad_alloc` or `length_error` the instance grows: the file is
  extended, mapped anew (at another address, because the old mapping is
  released only afterwards) and the container is looked up again. Any other
  exception goes to the roll back procedure and on to the caller. However the
  call ends, a scope exit clears the busy flag, makes a backup if one is asked
  for, and unlocks.
* The timer's handler runs on a thread of its own. If the busy flag is set it
  asks for a backup (`m_NeedCreateBackup`), otherwise it locks the mutex and
  makes one.
* A backup copies the data file, computes the checksum of the copy and stores
  it in the information file.
* Processes share nothing but the directory and its files.
* A procedure is client code and may call the library again: run a transaction
  on the same or on another database, acquire and release databases. `m_Access`
  is the innermost lock: as the code reads, nothing that is done under it takes
  another one.

### What is hard about it

* *Interleaving.* Client threads, the handler that reads the busy flag without
  the lock, `ReleaseDataBase` while others use the database, two processes that
  open one directory.
* *Re-entrance.* The mutex is recursive, so a procedure may run a transaction;
  the flags and the pointers of the outer one are not prepared for it.
* *Moving memory.* Every growth invalidates all pointers into the mapping.
* *Partial failure.* Growing, mapping, looking up, copying and writing can each
  fail after the step before succeeded; some errors are thrown, some dropped.
* *Crashes* in the middle of opening a database, of a transaction and of a backup.
* *Locks of several databases*, taken in whatever order clients nest.
* *Lifetime* by reference counts, with a cycle between instance and session.

The list of hazards, each at its line and with the properties that cover it, is
in `PROJECT.json`.

### What makes each component correct

* Instance: one actor at a time works on data, mapping and backup; the mutex is
  balanced; procedures never see an old mapping, nor one smaller than the
  segment unless the file could not be opened again; a backup is a copy of whole
  transactions, its checksum is its own; a request for a backup is lost only
  with a copy that failed; nobody keeps the lock for ever, not even a process
  that died with it.
* Opening: a database opens only over files of its own build and with the
  settings its client chose; an opening fails only for known reasons; with
  clients that retry, everybody gets in.
* Manager: nothing in use is destroyed, and nothing stays that nobody owns; users
  of one database exclude each other and keep the settings they asked for.
* Locks: threads wait in a circle only if clients nest databases without an
  order.

## 2. The modules

```
SerialStore            what an instance promises
   ^ implemented by
DataBase  <- MCDataBase, DataBaseProofs, DataBaseStepProofs
   |                   one instance: transactions, growth, backup, restart
   v implements
Locks     <- MCLocks, LocksProofs            the locks of several instances and the Manager's
Startup   <- MCStartup, StartupProofs        opening one database, processes and crashes
Ownership              what shared pointers promise
   ^ implemented by
Registry  <- MCRegistry, RegistryProofs      Manager, lifetimes, several instances
Singleton <- MCSingleton, SingletonProofs    how threads get at the one Manager
Demonstration <- DemonstrationProofs         a client: what retries leave behind
```

The modules are views of one system from different distances. `DataBase` is one
instance with every step of a transaction; in `Registry` a transaction is
`Begin`, `Grow` and `End` on one of many instances, and in `Locks` it is the
lock that it holds. What one module takes as a step another takes apart: the
opening of `Startup` is a part of `Acquire` of `Registry`, which is an
operation of the Manager in `Locks`. Three of these views are tied together
formally: `DataBase` implements `SerialStore` and one lock of `Locks`,
`Registry` implements `Ownership`.

The MC modules only give names to small sets. Each of the operators called a
*variant* in the modules is a plausible bug of the action that follows it; they
are used by nothing and document, for each property, a change of the code that
the property notices (`PROJECT.json`, `mutants`).

### DataBase

One instance after its construction. Actors are the client `Threads` and the
`Ticker`, the thread of the timer's handler.

| variables | code |
|---|---|
| `owner`, `depth` | `m_TransactionAccess`, the recursive mutex |
| `busy`, `need` | `m_TransactionBusy`, `m_NeedCreateBackup` |
| `pc`, `level`, `attempts`, `view` | the stack of each thread: where its innermost `Transaction` call is, how many it has open, and per call the loop's `i` and the container pointer its procedure took from the context |
| `outcome` | how the last call ended: normally, by an exception, or because the loop ran out of attempts |
| `segment`, `mapping`, `container` | the segment's size in the file's header, the region `m_Memory` maps, where `m_Container` points |
| `stamp` | version of the data (the number of updates so far) |
| `backup`, `crc` | what the backup file is a copy of; what the stored checksum was computed from |
| `cut` | not in the code: whether a process ended within a backup and none was completed since |
| `failed` | not in the code, which drops the one error and forgets the other: which of reopening the grown file and copying the backup failed and did not succeed since |
| `alive` | whether the process has been terminated |

The data are abstracted to their version. A checksum is abstracted to what it
was computed from. Actions follow the calls in program order, one for each step
another thread could observe:

| action | code |
|---|---|
| `Call`, `Lock`, `MarkBusy` | `Session::Transaction`, `BaseDataBase::AcquireTransaction`, the test of `doTransaction` |
| `Attempt`, `GiveUp` | the head of the loop |
| `Write`, `Complete`, `RunOutOfMemory`, `Throw` | what a procedure may do; a write through a pointer into a region that is gone kills the process |
| `GrowFile`, `Remap`, `LoseContainer`, `FailToReopen` | `BaseDataBase::Grow` and `ConcreteDataBase::OnGrow`, with the two ways it fails |
| `RollBack` | the `catch (...)` block |
| `ClearBusy`, `CheckNeed`, `CopyFile`, `StoreCrc`, `ClearNeed`, `Unlock` | `ReleaseTransaction`, `_OnReleaseTransaction`, `_CreateBackup` |
| `Tick`, `RaiseNeed` | the timer's handler, which shares `Lock` and the backup with transactions |
| `Restart` | the process dies, at any place or because it was terminated, and the constructors of the next one run over its files |

Some details the model keeps because properties depend on them: the result of
`grow` is ignored, so that a full disk leads to the same attempt again; the
*last* failed attempt still grows the file; the error code of the copy is
dropped, and the checksum of whatever is there is stored; if nothing is there
the exception leaves a destructor and the process ends; the release of an inner
transaction clears the flag of the outer one.

`Restart` keeps what is in files: the data as far as they were written (the file
is mapped, so that what a procedure wrote is there although its transaction did
not end), the segment, the backup and the checksum. A copy that was under way is
left cut short, or not begun. The mutex, a named one, outlives the process; but
its name is drawn at random by every instance, so that the next one has a free
mutex of its own. Opening itself, with the ways in which that can be cut short,
is in `Startup`.

`Faults` is the set of calls that may fail for reasons of their own, and says
whether the process may die.
`WorkerEnabled` says whether a thread runs the timer's `io_service`. In the code
as it stands none does: the line that would start one is commented out
(`PeriodicTimer.cpp:12`), and that line alone would not be enough, because line
14 and the thread would both run the `io_service` before the timer is armed, when
it has no work and returns at once. A worker that runs it after the timer was
armed, or that is kept waiting, is needed. All runs but `database_exhausted`
and all theorems about an instance allow for one, so that what they say of the
handler, of requests and of backups is about a part of the code that is latent
now; what they say of transactions, growth and locks holds with and without it.

### SerialStore

What an instance promises, without locks, flags, memory and files: actors take
turns, work on the data, close their turn, and only while a turn closes is a
snapshot taken: of the data, or spoiled. A crash ends the turn, and spoils at
most a snapshot that was being taken. `DataBase` implements it under
the mapping given at `Store`: the holder is the mutex's owner, the turn is
closing from `check` on, the snapshot is the backup file.

### Locks

The locks as threads see them when procedures call the library again. `calls`
are the locks of the calls each thread has open, in order, `waits` the one it
waits for. A transaction takes the recursive mutex of its instance, an operation
of the Manager `m_Access`, a `std::mutex` for which even its owner would wait.
`Free` says where client code runs, and with it where calls are made: never in
an operation of the Manager, because none of them, constructors and destructors
of instances included, calls back. This is read from that code, which is not in
this module; the property and the theorem rest on it. The timers' handlers are threads that use
one lock. That an instance uses its mutex as this module has it, from the call
to the unlock and through every way a call can end, is not assumed: `DataBase`
implements `Locks` for one database (`ImplementsLocks`), with the calls of an
actor as many entries as it holds and the one that asks for the mutex as the one
that waits. `ordered`, chosen at the start, says whether clients nest transactions
only in an order of the databases; the library neither imposes nor documents
one. The mutex of `Singleton` is let go before `Instance` returns, nothing else
is locked under it, and it is left to its own module.

### Startup

How processes open one database: `FileSystemPresenter` (`Present`, `MakeDir`),
`ControllInformationHolder` (`LookForInfo`, `CreateInfo`, `WriteInfo`,
`MapInfo`, `CheckHeader`, `Settle`), the data file (`SizeData`, `OpenData`,
`FormatData`) and the timer (`ArmTimer`). `dir`, `info` and `data` are what the
disk has; `build`, `given` and `paths` belong to each process.

The data file is made by Boost's `open_or_create` in two steps: it is there
without content (`"partial"`), then with a segment (`"whole"`); a failure between
the two leaves it partial, or marked as unusable (`"spoiled"`). Who finds it
partial either reads the size 0 and fails (`SizeData`), or waits for it.

`racing`, chosen at the start and never changed, says which of two histories is
told. In one, processes open the database one at a time, may be killed at every
place (`Exit`) and come back as another build. In the other, processes of one
build open it at the same time, interleaving freely because nothing locks the
directory, and nobody is killed. In both the system may refuse every call that
an opening makes, for its own reasons (`Refused`: no permission, no room, no
descriptor, no root directory), and a write may be lost to a full disk
(`WriteInfo`). These, and processes killed inside a constructor, are *mishaps*;
`mishaps` counts them, and `MaxMishaps` bounds them. Reading or writing
through a mapping whose file another process has truncated kills the process,
also in the data file's constructor, which reads `pageSize` there, in
`ArmTimer`, which reads `backupTimeout`, and in a transaction (`ReadSettings`).

Settings whose page is too small for an empty segment and the container are
left out: with them the first opening always throws.

### Registry

The Manager and the lifetimes. A Manager operation is one step because
`m_Access` is held throughout; transactions of clients run beside it. `base`
says which database each instance object is for, `store` is `m_Store`,
`handles` and `sessions` are the clients' pointers, `kept` the instances that
hold a session that holds them, `inside` who is in a transaction, and `torn` the
instances whose mapping is not exactly the file any more, because another
instance of the same database has grown or shrunk it, or because the instance
grew it and could not open it again; `behind`, which is not in the code, are
those that last failed so. `settings` is what each
information file has, `given` what each instance was acquired with: a
construction writes the first, also one that then throws or is refused by the
store, and every instance reads it. `KeepContext` is a procedure that keeps the
pointer its context gave it. `Collect` is what the
reference counts do after a pointer is dropped.

`answer` is what the last `AcquireDataBase` by name returned, to any client.

`careful` is chosen at the start and never changes: careful clients do not
acquire a database while an instance of it is alive. Some properties
hold only for them; they are stated with that hypothesis, and what happens to
others is in section 5.

### Ownership

What `shared_ptr` promises of an object: it is made with an owner, gets further
owners only while it lives, and ends in the very step in which its last owner
lets it go; one owner of one object is let go at a time. `Registry` implements
it under the mapping given at `Shared`: an instance is owned by the store, by
each client that has a pointer to it, and by the sessions in its own
`m_SessionStore`.

### Singleton

`Instance` step by step: the test of the pointer without the mutex (`Ask`),
`Lock`, `Retest`, the allocation, the constructor, the store to the pointer
(`Allocate`, `Construct`, `Publish`), `Unlock`, and the second reading of the
pointer (`Return`); and `KillInstance` (`Kill`, `Lock`, `Reset`, `Unlock`). The
pointer is not atomic, so that the test races with the store. The model takes
of this what a build can do: the stores of the constructor and of the pointer
take effect in either order. `inOrder` says that this build keeps the order,
`killing` that clients call `KillInstance`; both are chosen at the start and
never change. A thread that finds a null pointer at `Return` has `crashed` the
program.

### Demonstration

The client that comes with the library (`CppDB.cpp`, the part that is compiled):
one transaction fills the table if it is empty, one extends it, one prints it.
`Transaction` is here what a client sees of it: a procedure that runs out of
memory (`Insert`, when there is no room for another row) is run again from its
beginning on the rows it left, in a file that has grown if the disk let it
(`Grow`), until the attempts are used up (`GiveUp`) and the program proceeds
without knowing. The program may die between two steps and is run again; rows
and file stay. `rows` are the keys in the table, `next` and `limit` the loop of
the procedure.

## 3. Model checking

| run | module, configuration | distinct states | checks |
|---|---|---|---|
| `database_faults` | `MCDataBase`, `DataBaseFaults` | 542,000 | `TypeOK`, `BusyIsAccurate`, `PointersValid`, `CrcMatchesBackup`, `ImplementsStore`, `HolderLeaves`, `RequestEventuallyServed` |
| `database_nested` | `MCDataBase`, `DataBaseNested` | 927,168 | `LockDiscipline`, `MutualExclusion`, `SegmentCovered`, `BusyMeansHeld`, `RequestServed`, `OnlyOwnerChanges`, `CallsWindDown`, `ImplementsLocks`, `StaleOnlyByInner` |
| `locks` | `MCLocks`, `Locks` | 97,654 | `TypeOK`, `NoCircle` |
| `database_exhausted` | `MCDataBase`, `DataBaseExhausted` | violation | `ExhaustionReported` |
| `startup_all` | `MCStartup`, `StartupAll` | 706,732 | `TypeOK`, `OpenedOnOwnTerms`, `FailureExplained`, `WholeStaysWhole`, `AllOpenInTheEnd` |
| `startup_first` | `MCStartup`, `StartupFirst` | violation | `OpensOrCreates` |
| `registry_all` | `MCRegistry`, `RegistryAll` | 1,008,770 | `TypeOK`, `UsedIsAlive`, `CarefulClientsExclude`, `CarefulMappingsWhole`, `SettingsKept`, `ImplementsOwnership` |
| `registry_sharing` | `MCRegistry`, `RegistrySharing` | violation | `OneTransactionPerDatabase` |
| `registry_release` | `MCRegistry`, `RegistryRelease` | violation | `ReleasedIsDestroyed` |
| `registry_answer` | `MCRegistry`, `RegistryAnswer` | violation | `AcquireAnswers` |
| `singleton` | `MCSingleton`, `Singleton` | 703 | `TypeOK`, `OneManager`, `GotTheManager` |
| `demonstration` | `Demonstration`, `Demonstration` | 457 | `TypeOK`, `NoGaps`, `DiskFills` |

What the passing runs show:

* **database_faults.** Whatever fails and wherever the process dies, as long as
  transactions do not nest, an instance behaves like `SerialStore`: the backup
  is a copy of what whole transactions, or a crash, left, or a failed copy. The
  flag that the handler reads without the lock says exactly whether a procedure
  is under way. No procedure has a pointer into a region that is gone. The
  stored checksum is that of the backup file except while a backup is made or
  after a process died in one. Every holder of the mutex lets it go, also when
  growth fails in each of its ways and when attempts run out, and a process
  that died with it stops nobody. A request for a backup is served as long as
  transactions keep coming, even one that is raised after the transaction that
  the handler saw has already looked for requests.
* **database_nested.** With nested transactions of three threads the mutex is
  still balanced and exclusive, whatever fails. Growth in an inner transaction
  leaves the region covering the segment for the outer one too: a procedure runs
  on a region that is too small only where a file that had grown could not be
  opened again, which the code does not mend before the next growth. A request
  for a backup is dropped without a backup of the data as they are only after a
  copy that failed, whose error the code drops, or with the process. Data, mapping, backup and checksum are changed by the owner of
  the mutex only. Every step that a call makes on its own level brings it nearer
  to its unlock, so that no fault sends it round for ever. The busy flag, which
  an inner transaction clears under the outer one, is at least never set with
  nobody inside. A procedure's pointer goes stale in one way only: an inner
  transaction of its own had the file grow and returns into it. As a lock, the
  instance does what `Locks` says.
* **locks.** Three threads, three databases and the Manager: clients that nest
  their transactions in an order of the databases never wait in a circle, at
  whatever depth they use the Manager. Clients without an order do.
* **startup_all.** After any sequence of mishaps and upgrades a database opens
  only over the information of its own build and runs with its own client's
  settings. An opening fails for four reasons only: the directory was not there;
  the system refused it a call; one of the two files is made and not finished,
  which another process is just about to do or which an earlier mishap has left
  so; or, where processes do not race, the file is of another build. Where
  processes do not race, no opening of any build, wherever it fails or dies,
  spoils a whole information file or takes it from the build that made it
  (`WholeStaysWhole`). Two processes that race may truncate the file under each
  other, and one may fail or die of it, even when it already has the database
  open; but if their clients keep trying both end with the database open over
  whole files, unless a mishap has left one of the files unfinished for good,
  which nothing in the code mends.
* **registry_all.** In every order of acquiring, releasing and using two
  databases whose ids collide, an instance is destroyed in the step in which the
  last of its owners lets it go and no sooner, nothing in use is destroyed,
  contexts that procedures have kept included, and no release under an id that
  two paths share takes two instances. Clients that are careful exclude each
  other and keep the settings they gave, whatever was refused, failed or
  destroyed before; their instances have all of the file mapped, unless they
  grew it and could not open it again.
* **singleton.** However many threads find no instance at the same time, however
  it is killed in between, and in whichever order the stores take effect, two
  managers never exist together. Where nobody kills the instance, every thread
  gets the one manager. It is constructed if the build keeps the order of the
  stores. If it does not, which nothing in the template forbids, a thread can be
  given a manager that another thread, which holds the mutex, is still
  constructing; this is as far as it goes. With killing, `GotTheManager` does
  not hold.
* **demonstration.** Retries, attempts that are used up and deaths leave no hole
  in the table, so that each attempt of the second procedure goes on where the
  last one stopped; and the program, run again and again, fills the disk.

### Bounds, and why they are enough

* `Threads`: two, and the handler; three with nesting. The instance distinguishes only the owner of
  the mutex and the others; with three actors there is an owner, one that waits
  and one that is elsewhere. The theorems hold for any number.
* `Addresses`: two or three. A new mapping is never where the old one is, so
  two are the least; a third lets a nested growth come back to an address that an
  outer procedure still points to (the access then hits mapped memory) or not
  (the process dies).
* `PageSize = 1`, `DiskSize` 1 or 2: growth succeeds once, then the disk is
  full; or the disk is full at once.
* `TryToAllocateCount` 2 or 3: attempts can be used up with and without growth
  in between.
* `Faults`: all of them, in both passing runs of `DataBase`.
* `MaxStamp` 1 (nested) or 2: backups of the present data, of older data and of the
  previous run can be told apart. It caps `Write` and `RollBack`, which changes
  nothing else than that procedures stop updating.
* `MaxNesting` 1 or 2: with 2 every case of entering and leaving an inner
  transaction occurs.
* `Instances`: two objects alive at a time (an acquiring client waits until an
  object is free, which is the bound); two of one database is what it takes for
  the interesting cases.
* `Locks`: three threads and three databases make circles of two and of three;
  with `MaxDepth = 3` a thread can hold two transactions and wait for a third
  lock, or hold one twice.
* `Settings` of `Registry`: two, so that they can differ.
* Restarts are not bounded: a crash leads back to states with the same files.
* `BitCounts`, `Versions`: two values each, so that two builds differ in either or both.
* `Processes`: two, the fewest that can race.
* `MaxMishaps = 2`: one that leaves something unfinished and one that meets it,
  or two in one opening. In `startup_first` it is 0: the opening fails with
  nothing amiss outside.
* Three threads for `Singleton`: one that makes the instance, one that waits for
  the mutex, one that tests the pointer; two places for managers, so that a
  second one could exist.
* `Batch = 3`, `Factor = 2`, `RowsPerPage = 2`, `DiskPages = 8`,
  `TryToAllocateCount = 2`: the first procedure needs more than a page, so that
  it is run again; the attempts of the second are used up before the disk is
  full; its end, twice its start, is reached in some run. `MaxDeaths = 2`
  bounds how often the program dies.
* What a configuration permutes (threads, addresses, clients, instances) no
  property and no other constant tells apart; the runs with symmetry check no
  liveness.

### Fairness

`FairSpec` of `DataBase` assumes no more than the threads' being scheduled:

* the library's own steps between two lines of client code are taken; they run
  on a thread that holds the mutex and waits for nothing;
* a transaction procedure ends in some way (an assumption about client code);
* a free mutex for which threads wait is taken by *some* of them. Named recursive mutexes
  give no order, so no particular thread is promised to get it, and none of the
  properties says that a particular thread does;
* the handler runs if a thread runs the `io_service`.

Nothing makes a client call `Transaction`: that a request is served is
conditional on transactions that keep coming. `Startup`'s `FairSpec` has
constructors run to their end and clients retry. `Demonstration`'s has the
program run, and run again when it has ended; dying is never forced. Nor is
`Restart` of `DataBase`.

`Locks` and `Registry` assume no fairness: nothing is claimed of them that must
happen.

`CHECK_DEADLOCK FALSE` is set where the modelled system may really stop: in
`Locks` clients that nest without an order deadlock; in `StartupAll` and
`StartupFirst` nothing is left to do when every process has the database open;
in `Singleton` the program has crashed on a null pointer. Where `Restart` is
possible there is always a next step, so that it is `HolderLeaves`, not the
search for deadlocks, that shows that nobody is stuck.

## 4. Proofs

### An instance: `DataBaseProofs`

`DataBaseProofs` is checked by TLAPS. Everything in it holds for any sets of
threads and addresses, any sizes, attempts, nesting and faults that satisfy the
assumptions stated in `DataBase` (with or without crashes): sizes are natural numbers and a page is not
empty, the ticker and the mutex's "nobody" are not client threads, `Null` is no
address.

| theorem | says | further hypothesis |
|---|---|---|
| `TypeCorrect` | `Spec => []TypeOK` | |
| `LockAccounting` | `Spec => []LockDiscipline` | |
| `Exclusion` | `Spec => []MutualExclusion` | |
| `ChecksumCorrect` | `Spec => []CrcMatchesBackup` | |
| `RequestsServed` | `Spec => RequestServed` | |
| `GrowthCovered` | `Spec => []SegmentCovered` | |
| `PointersCorrect` | `Spec => []PointersValid` | `MaxNesting = 1` |
| `BusyCorrect` | `Spec => []BusyIsAccurate` | `MaxNesting = 1` |
| `StoreImplemented` | `Spec => ImplementsStore` | `MaxNesting = 1` |

The further hypothesis is necessary: without it TLC finds, for each of the three,
a behaviour that violates the property.

**The inductive invariant.** Mutual exclusion alone is not inductive: from a
state in which the mutex is free while a thread is inside, another could enter.
`LockDiscipline` says that the mutex's `depth` is exactly the number of calls
its owner has between lock and unlock and that nobody else has any; exclusion
follows from it (`OwnerExcludes`). It is in turn inductive only with the types
(`depth` stays natural because whoever unlocks is the owner) and with
`LevelDiscipline`, which ties the number of open calls to the place of a thread:
a thread outside has none, one inside at least one. `Inv` is the three together;
`InitInv` and `NextInv` are its proof, with one step per action.

**What rests on it.** The other theorems each add one formula to `Inv`, and use
exclusion in one form, `OneInside`: of two actors one is outside.

* `CrcMatchesBackup` needs nothing more: between copy and store nobody else can
  copy, and a crash there sets `cut`.
* `Fresh`: between the copy and the reset of the request the backup is the
  data, unless the copy failed, because whoever could update them is outside.
* `Covered`: the region covers the segment unless somebody is between growing
  and mapping, when procedures are outside, or reopening failed and nobody has
  mapped the file since.
* `Current`: the container lies in the present mapping or is null; without
  nesting, a procedure took its pointer from there and nobody maps the file
  anew while it runs.
* `BusyIsAccurate` is inductive by itself over `Inv` when transactions do not
  nest.
* `StoreImplemented` is the usual step simulation. `PhaseKnown` derives from
  `Inv` that the place of the owner determines the phase of the turn; then each
  action maps to `Enter`, `Update`, `Close`, `Save`, `Leave` or a stutter, and
  `Restart` to `Crash`.

### The steps of an instance: `DataBaseStepProofs`

All at any depth of nesting, with any faults and crashes:

| theorem | says |
|---|---|
| `ChangesGuarded` | `Spec => OnlyOwnerChanges` |
| `CallsEnd` | `Spec => CallsWindDown` |
| `StaleByInnerOnly` | `Spec => StaleOnlyByInner` |
| `BusyAnyDepth` | `Spec => []BusyMeansHeld` |
| `LocksImplemented` | `Spec => ImplementsLocks` |

They use the accounting of the mutex in the form `InsideOwns`: who stands
inside is the owner, and nobody else holds anything.

* `OnlyOwnerChanges` needs no more than that, action by action.
* `CallsWindDown` gives each call a number, the places it may still come
  through, plus four for each attempt it has left, and says that its steps
  lower it and never below zero. What is needed is `AttemptsLeft`: the attempts
  of every open call, at every level, are within what the settings allow, and
  strictly so where a procedure is under way or waits for an inner call. The
  difficult step is the one back to the head of the loop, which costs an
  attempt (`WindStep`). This is the part of `HolderLeaves` that is about the
  code; the rest of it is fairness.
* `StaleOnlyByInner` needs `Current`, here without the bound on nesting, and
  that whoever maps the file anew is alone inside: the only procedures that can
  be left with an old pointer are those of the same thread further out.
* `BusyMeansHeld` is not inductive. `BusyWhere` is: the flag is set only while a
  thread is in its procedure, or has left one for an inner call that is about
  to set the flag again.
* `LocksImplemented` is a step simulation: `Call` and `Tick` are `Transaction`,
  `Lock` is `Grant`, `Unlock` is `Done`, everything else stutters, and a dying
  process is `Restart`, which `Locks` does not have. With it `Locks` is about
  what the instances do, and not about what they are taken to do.

### The locks together: `LocksProofs`

| theorem | says | holds for |
|---|---|---|
| `TypeCorrect` | `Spec => []TypeOK` | any threads, databases, order, depth |
| `NobodyWaitsInACircle` | `Spec => []NoCircle` | the same |

`NoCircle` is about every set of threads. Its invariant says that a lock has one
holder, that whoever holds `m_Access` waits for nothing, and that under
`ordered` what a thread waits for comes after all that it holds (or is among
it). With `m_Access` as the last in the order, whoever keeps a thread waiting and
waits itself waits for a later lock (`BlockerHigher`); of a set of threads, those
that wait for the latest lock are kept waiting by nobody of the set, because the
order ends (`ClimbEnds`, by well-founded induction over the naturals).

### The Manager and the instances: `RegistryProofs`

| theorem | says |
|---|---|
| `TypeCorrect` | `Spec => []TypeOK` |
| `NothingUsedIsGone` | `Spec => []UsedIsAlive` |
| `CarefulExclusion` | `Spec => []CarefulClientsExclude` |
| `CarefulMappings` | `Spec => []CarefulMappingsWhole` |
| `CarefulSettings` | `Spec => []SettingsKept` |
| `InstancesShared` | `Spec => ImplementsOwnership` |

They hold for any clients, databases, instances and settings, and for any hash
`IdOf`, collisions included. `UsedIsAlive` is not inductive: that an instance
stays for a session is known only because the session is in the instance's own
store (`sessions[c] \subseteq kept`), and for a transaction because its client
has a session; this is `Kept`. `OwnLock` says that the lock of an instance is
one client's. `Single` says of careful clients that a database has one live
instance, that no mapping is torn but for what could not be opened again, and
that settings are the instance's own;
the three last theorems follow from it, the first of them with `OwnLock`. The
lemma `CollectInv` does `Release` and `Drop` at once: a step that only takes
holders away destroys nothing that has one left. `InstancesShared` adds
`NoOrphans`: every live instance has an owner, so that what `Collect` destroys
is what the step itself has taken the last owner from. A release by id lets go
at most one instance because ids in the store are unique (`IdsUnique`, a part of
the invariant).

### Opening: `StartupProofs`

| theorem | says | holds for |
|---|---|---|
| `TypeCorrect` | `Spec => []TypeOK` | any processes, builds, settings |
| `OwnTerms` | `Spec => []OpenedOnOwnTerms` | the same |
| `Failures` | `Spec => FailureExplained` | the same |
| `WholeKept` | `Spec => WholeStaysWhole` | the same |

The invariant: of processes that do not race only one is in its constructors
(`Alone`), the information file does not vanish once somebody found or made it
(`FileStays`), and who has passed the test of the header has a file of its own
build (`HeaderKnown`). `Failures` needs two more parts. `Accounted`: a file that
is made and not finished is in the hands of the process that makes it, or there
was a mishap. `OneBuild`: processes that race and the file are all of one build,
so that the test of the header never fails there. `WholeKept` needs that who is
about to truncate the file has not found any, and who is about to write it has
just made it (`BeforeWhole`): that is true only where nobody races, which is why
the property says so.

### `SingletonProofs` and `DemonstrationProofs`

| theorem | says | holds for |
|---|---|---|
| `SingletonProofs!TypeCorrect` | `Spec => []TypeOK` | any threads and objects |
| `OneAtATime` | `Spec => []OneManager` | any threads and objects, both orders of stores, with and without killing |
| `DoubleCheckSound` | `Spec => []GotTheManager` | any threads and objects |
| `DemonstrationProofs!TypeCorrect` | `Spec => []TypeOK` | any batch, factor greater than 1, page, disk, attempts and deaths |
| `NoHole` | `Spec => []NoGaps` | the same |

`OneAtATime` and `DoubleCheckSound` rest on an inductive invariant that says that
the mutex is held exactly from lock to unlock, that the pointer is null while its
holder is about to make an instance, and that only that thread has made one.
`Kept` adds, for where nobody kills: a pointer that is not null stays, and is to
a constructed manager or, where the stores change places, to one whose maker is
in the constructor (`BeingMade`); and whoever goes on to `Return` has seen it not
null. Because a call of `Instance` forgets what the last one returned, the maker
is another thread than the one that has got the pointer.

`NoGaps` follows from an invariant of two parts: the table is the numbers below
some number, and while a procedure inserts, that number is the key its loop is
at. The second part is what an attempt that is cut short hands to the next. Its
lemma `LastOfInitial` says that the greatest of the first so many numbers is
one less than their count, which is where the second procedure starts.
`TypeOK` bounds the keys by what the disk holds, and needs besides that an attempt
under way is one of those that the loop has left (`UnderWay`).

**Only model-checked:** the liveness properties `HolderLeaves`,
`RequestEventuallyServed`, `AllOpenInTheEnd` and `DiskFills`, which need fairness
and `ENABLED`. Of `HolderLeaves` the theorems have the part that is about single
steps (`CallsEnd`). Every invariant and every action property that a passing run
checks is also proved.

## 5. Where code and documents disagree

Each of these has a run in which TLC finds the behaviour.

* *A full disk is not reported* (`database_exhausted`). When the attempts are
  used up `Transaction` returns as if all were well (`Session.cpp:25`);
  `text about cpp_db details.txt:5` says that the driver raises `FatalError`.
* *The first opening fails* (`startup_first`). `FileSystemPresenter.cpp:77`
  creates the directory but leaves the paths empty, the information file cannot
  be opened and the constructor throws; in `cpp_db_hls.uml:401` the manager
  opens or creates the file, and returns the database (line 510).
* *A registered database is not found* (`registry_answer`). It is looked up
  under its directory's path in an index keyed by its file's path
  (`Manager.hpp:59`): a second `AcquireDataBase` returns `nullptr`.
* *Two instances do not exclude each other* (`registry_sharing`). The mutex's
  name is random (`BaseDataBase.cpp:117`), so an instance made after
  `ReleaseDataBase`, while the old one is in use, has a lock of its own;
  `text about cpp_db details.txt:4` says that the threads that use a database
  are synchronized.

* *A released database is not destroyed* (`registry_release`). A session owns its
  instance, and `CreateSession` stores it in the instance (`BaseDataBase.cpp:37`),
  so that an instance that ever had a session stays when the database was
  released and all clients have let go of it; in `cpp_db_hls.uml:1163-1308`
  `ReleaseDataBase` ends with step 29, "destroy internal environment context()".
  It is also the only thing that keeps `~Session` from running, which would
  terminate the process (`Session.cpp:11` asks for a shared pointer in a
  destructor).

Further differences that no run shows, because they are about a constant or a
wording, or follow from a line: the timer never fires, because no thread runs its
`io_service` (`PeriodicTimer.cpp:12,14`, `WorkerEnabled` of the model), while
`text about cpp_db details.txt:6` says that backups are made by timer; a grown
file that cannot be opened again is reported by an exception of Boost's, but
the next transaction runs on the region that is too small, while line 5 of the
same text says that works should be stopped; a copy that fails is not reported at
all, and the request for it is dropped; the demonstration's first procedure, run again after it ran out of
memory half way, finds a table that is not empty and leaves fewer than 1000
rows; the default backup timeout is 1 ns (`ControllInformation.cpp:6`) and
not 30 minutes; the mutex has no readers, only owners; a backup is made whether
or not the data changed since the last; the file is grown while the old mapping
is still there, and not after all contexts are destroyed.

## 6. What is left out, and why

* The containers and what procedures do with them: client code. The model lets
  a procedure do what matters to the library (`Write` and the three ways to end).
* A roll back procedure that runs transactions itself: as nested transactions
  of a procedure, for which `Call` is there.
* The handler's path for a cancelled wait: only the destructor cancels.
* How Boost creates and opens managed segments, its spinning on a half-made
  one, its named mutex in the operating system: external; used as documented.
* The name policy of the file system presenter and its existence checks
  (`FileSystemPresenter.cpp:56-76`), which are inverted, but whose exceptions
  are compiled to nothing: they have no effect.
* The segment manager's own mutex, which Boost keeps in the mapped file and
  which a process that dies within an allocation leaves locked, and containers
  that such a death leaves half changed: external, and promised by nobody.
* `m_SessionStore` is changed without a lock: what two insertions that race do
  to a `std::set` is undefined, and nothing ever reads it again.
* The timer in the destructor: it only cancels a wait. In a build with a worker
  thread the handler, which has a bare pointer to the instance, could then
  outlive it; but how that thread would be ended is not in the code.
* `Singleton`: what else a data race may do, beyond the order of two stores; a
  client's use of a manager after `KillInstance`.
* `Demonstration`: the strings, which are made from the keys; keys beyond the
  range of `int`, for which a disk would need to hold that many rows; an
  insertion interrupted by death in its middle, which the containers do not
  promise to survive; growth that fails to reopen the file, which is in
  `DataBase`; the opening, which is in `Startup`.
* A `tryToAllocateCount` of 0: no run sets it. The loop then ends before the first
  attempt, by the way that `database_exhausted` shows; the theorems allow it.
* Exceptions, interfaces, what is under `#if 0` in `CppDB.cpp`, and the Boost
  example.

## 7. Plan

Done, in this order: `DataBase` and its runs (transactions, growth, backup,
faults, nesting), `SerialStore` and the refinement, `Startup`, `Registry`, the
proofs about `DataBase`, `Singleton` and `Demonstration` with their proofs;
then crashes and restarts in `DataBase` and `SerialStore`, `Locks` with its
proofs, settings, kept contexts and failing constructors in `Registry`, and the
proofs about `Registry` and `Startup`; then what no step of an instance does at
any depth of nesting (`DataBaseStepProofs`), `DataBase` as a lock of `Locks`,
`Ownership` with the refinement, `WholeStaysWhole`, and `FailureExplained` for
processes that race; then every fault in the nested run, the data file and the
refused calls in `Startup`, failed reopening in `Registry`, and the theorems
about them without hypotheses on what may fail.

Next to prove: that the first failure of each attempt leaves what the next one
goes on from, as a refinement of the client in `Demonstration` to procedures of
`DataBase`; and which parts of `AllOpenInTheEnd` and `RequestEventuallyServed`
are about single steps.

What could still be added: a refinement of `Acquire` of `Registry` to the steps
of `Startup`; a worker thread for the timer with its end, once the code has one.
