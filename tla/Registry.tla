------------------------------ MODULE Registry ------------------------------
(***************************************************************************)
(* The life of database instances in one process: the Manager's store, the *)
(* pointers that clients hold, and the sessions, which hold the instance   *)
(* that holds them.  A Manager operation is one step, because m_Access is  *)
(* held throughout, the construction and the destruction of an instance    *)
(* included; clients run transactions meanwhile.                           *)
(*                                                                         *)
(* The directory of each database is taken to exist (see Startup).         *)
(***************************************************************************)
EXTENDS FiniteSets, Sequences

CONSTANTS
    Clients,      \* threads that use the library
    Databases,    \* names of databases in the root directory
    Instances,    \* bound: instance objects that are ever alive together
    Settings,     \* values of ControllInformation
    None,         \* what an instance that is not alive has for a database
    IdOf          \* the hash CreateAtom gives the path of a database's file

ASSUME RegistryAssumption ==
    /\ None \notin Databases \cup Instances \cup Settings
    /\ DOMAIN IdOf = Databases
    /\ {"store", "sessions"} \cap Clients = {}

VARIABLES
    base,         \* the database of each instance, or None
    store,        \* Manager::m_Store
    handles,      \* the instances each client has a tIDataBasePtr to
    sessions,     \* the instances each client has a tSessionPtr of
    kept,         \* the instances with something in m_SessionStore
    inside,       \* the instance whose transaction lock a client has
    torn,         \* live instances whose mapping is not all of the file
    behind,       \* live instances that could not open the file again when
                  \* they last had it grow (not in the code)
    settings,     \* what the information file of each database has
    given,        \* the settings each instance was acquired with
    answer,       \* what AcquireDataBase by name returned last
    careful       \* whether the clients acquire a database only while no
                  \* instance of it is alive; never changes

(* What keeps instances alive besides the store.                           *)
held == <<handles, sessions, kept>>
mappings == <<torn, behind>>
terms == <<settings, given>>
vars == <<base, store, handles, sessions, kept, inside, torn, behind, settings,
          given, answer, careful>>

Ids == {IdOf[d] : d \in Databases}

Alive      == {i \in Instances : base[i] # None}
AliveOf(d) == {i \in Alive : base[i] = d}

(* What the Manager looks for, and what its index by path is keyed with.   *)
DirPath(d)  == <<d>>
FilePath(d) == <<d, "db">>

Init ==
    /\ base = [i \in Instances |-> None]
    /\ store = {}
    /\ handles = [c \in Clients |-> {}]
    /\ sessions = [c \in Clients |-> {}]
    /\ kept = {}
    /\ inside = [c \in Clients |-> None]
    /\ torn = {} /\ behind = {}
    /\ settings = [d \in Databases |-> None]
    /\ given = [i \in Instances |-> None]
    /\ answer = "none"
    /\ careful \in BOOLEAN

(* After store and handles have changed, the instances that nothing holds  *)
(* are destroyed.  Each shrinks its file, with which other instances of    *)
(* the same database lose the end of what they have mapped.                *)
Unheld == {i \in Alive : /\ i \notin store' \cup kept
                         /\ \A c \in Clients : i \notin handles'[c]}

Collect ==
    /\ base' = [i \in Instances |-> IF i \in Unheld THEN None ELSE base[i]]
    /\ given' = [i \in Instances |-> IF i \in Unheld THEN None ELSE given[i]]
    /\ torn' = {i \in Alive \ Unheld :
                  i \in torn \/ \E j \in Unheld : base[j] = base[i]}
    /\ behind' = behind \ Unheld

-----------------------------------------------------------------------------
(* The database is looked up under a path that no key has; a new instance  *)
(* is constructed and put into the store, which refuses it if the id or    *)
(* the path of its file is there already.  Then it is destroyed, which     *)
(* shrinks the file, and the answer is nullptr.                            *)
Found(d) == {i \in store : FilePath(base[i]) = DirPath(d)}

(* Variant of Refused: only the path is unique, the id is not.             *)
RefusedByPath(d) == \E j \in store : FilePath(base[j]) = FilePath(d)

Refused(d) == \E j \in store : \/ IdOf[base[j]] = IdOf[d]
                               \/ FilePath(base[j]) = FilePath(d)

(* Variant of Stored: the settings are written with the file, not again.   *)
StoredOnce(d, s) == IF settings[d] = None THEN s ELSE settings[d]

(* What the information file has after a construction: what the client     *)
(* gave, whatever was there before.                                        *)
Stored(d, s) == s

(* AcquireDataBase by name.  A constructor that throws (Startup has where) *)
(* may have come as far as the settings, or as the file, which is shrunk   *)
(* again; one that does not is for an instance that the store takes or     *)
(* refuses.                                                                *)
Acquire(c, d, s) ==
    /\ careful => AliveOf(d) = {}
    /\ IF Found(d) # {}
       THEN /\ \E i \in Found(d) : handles' = [handles EXCEPT ![c] = @ \cup {i}]
            /\ answer' = "database"
            /\ UNCHANGED <<base, store, torn, terms>>
       ELSE /\ settings' = [settings EXCEPT ![d] = Stored(d, s)]
            /\ \/ /\ torn' \in {torn, torn \cup AliveOf(d)}
                  /\ UNCHANGED <<base, store, handles, given, answer>>
               \/ /\ Refused(d)
                  /\ torn' = torn \cup AliveOf(d)
                  /\ answer' = "null"
                  /\ UNCHANGED <<base, store, handles, given>>
               \/ /\ ~Refused(d)
                  /\ \E i \in Instances \ Alive :
                       /\ base' = [base EXCEPT ![i] = d]
                       /\ given' = [given EXCEPT ![i] = s]
                       /\ store' = store \cup {i}
                       /\ handles' = [handles EXCEPT ![c] = @ \cup {i}]
                  /\ answer' = "database"
                  /\ UNCHANGED torn
    /\ UNCHANGED <<sessions, kept, inside, behind, careful>>

(* Variant of AcquireById: what find returned is not compared with end.    *)
AcquireUnchecked(c, id) ==
    /\ LET found == {i \in store : IdOf[base[i]] = id}
       IN  handles' = [handles EXCEPT ![c] =
                         @ \cup (IF found = {} THEN {None} ELSE found)]
    /\ UNCHANGED <<base, store, sessions, kept, inside, mappings, terms, answer,
                   careful>>

(* AcquireDataBase by id; nullptr if there is none.                        *)
AcquireById(c, id) ==
    /\ \E i \in store : /\ IdOf[base[i]] = id
                        /\ handles' = [handles EXCEPT ![c] = @ \cup {i}]
    /\ UNCHANGED <<base, store, sessions, kept, inside, mappings, terms, answer,
                   careful>>

(* ReleaseDataBase drops the Manager's own pointer, whoever has others.    *)
Release(id) ==
    /\ store' = {i \in store : IdOf[base[i]] # id}
    /\ UNCHANGED handles
    /\ Collect
    /\ UNCHANGED <<sessions, kept, inside, settings, answer, careful>>

(* A client lets a pointer go.                                             *)
Drop(c, i) ==
    /\ i \in handles[c]
    /\ handles' = [handles EXCEPT ![c] = @ \ {i}]
    /\ UNCHANGED store
    /\ Collect
    /\ UNCHANGED <<sessions, kept, inside, settings, answer, careful>>

(* Variant of CreateSession: the session is not kept, and does not keep the *)
(* instance.                                                               *)
CreateSessionWeak(c, i) ==
    /\ i \in handles[c]
    /\ sessions' = [sessions EXCEPT ![c] = @ \cup {i}]
    /\ UNCHANGED <<base, store, handles, kept, inside, mappings, terms, answer,
                   careful>>

(* CreateSession: the session points to the instance, and stays in the     *)
(* instance's m_SessionStore; only its own destructor would take it out.   *)
CreateSession(c, i) ==
    /\ i \in handles[c]
    /\ sessions' = [sessions EXCEPT ![c] = @ \cup {i}]
    /\ kept' = kept \cup {i}
    /\ UNCHANGED <<base, store, handles, inside, mappings, terms, answer, careful>>

(* A client lets its session go; m_SessionStore still has it.              *)
DropSession(c, i) ==
    /\ i \in sessions[c] /\ inside[c] # i
    /\ sessions' = [sessions EXCEPT ![c] = @ \ {i}]
    /\ UNCHANGED <<base, store, handles, kept, inside, mappings, terms, answer,
                   careful>>

-----------------------------------------------------------------------------
(* Variant of Begin: the lock is not waited for.                           *)
BeginUnlocked(c, i) ==
    /\ i \in sessions[c] /\ inside[c] = None
    /\ inside' = [inside EXCEPT ![c] = i]
    /\ UNCHANGED <<base, store, held, mappings, terms, answer, careful>>

(* A transaction (DataBase has its steps): the lock is the instance's own, *)
(* its name is drawn at random when the instance is constructed.           *)
Begin(c, i) ==
    /\ i \in sessions[c] /\ inside[c] = None
    /\ \A d \in Clients : inside[d] # i
    /\ inside' = [inside EXCEPT ![c] = i]
    /\ UNCHANGED <<base, store, held, mappings, terms, answer, careful>>

(* Variant of Grow: the file is not mapped anew.                           *)
GrowFileOnly(c) ==
    /\ inside[c] # None
    /\ torn' = torn \cup AliveOf(base[inside[c]])
    /\ UNCHANGED <<base, store, held, inside, behind, terms, answer, careful>>

(* Growing extends the file, or does not, and maps it anew for this        *)
(* instance; if the file cannot be opened the old mapping stays.  Others   *)
(* of the same database keep a mapping that is now too short.              *)
Grow(c) ==
    /\ inside[c] # None
    /\ \E grown, reopened \in BOOLEAN :
         LET longer == IF grown THEN AliveOf(base[inside[c]]) ELSE {}
             mapped == IF reopened THEN {inside[c]} ELSE {}
         IN  /\ torn' = (torn \cup longer) \ mapped
             /\ behind' = (behind \cup {inside[c]}) \ mapped
    /\ UNCHANGED <<base, store, held, inside, terms, answer, careful>>

(* The procedure locks its context and keeps the pointer, which shares in  *)
(* the ownership of the instance, for as long as the client likes.         *)
KeepContext(c) ==
    /\ inside[c] # None
    /\ handles' = [handles EXCEPT ![c] = @ \cup {inside[c]}]
    /\ UNCHANGED <<base, store, sessions, kept, inside, mappings, terms, answer,
                   careful>>

End(c) ==
    /\ inside[c] # None
    /\ inside' = [inside EXCEPT ![c] = None]
    /\ UNCHANGED <<base, store, held, mappings, terms, answer, careful>>

Next ==
    \/ \E c \in Clients, d \in Databases, s \in Settings : Acquire(c, d, s)
    \/ \E c \in Clients, id \in Ids : AcquireById(c, id)
    \/ \E id \in Ids : Release(id)
    \/ \E c \in Clients, i \in Instances :
         Drop(c, i) \/ CreateSession(c, i) \/ DropSession(c, i) \/ Begin(c, i)
    \/ \E c \in Clients : Grow(c) \/ KeepContext(c) \/ End(c)

Spec == Init /\ [][Next]_vars

-----------------------------------------------------------------------------
TypeOK ==
    /\ base \in [Instances -> Databases \cup {None}]
    /\ store \subseteq Instances
    /\ handles \in [Clients -> SUBSET Instances]
    /\ sessions \in [Clients -> SUBSET Instances]
    /\ kept \subseteq Instances
    /\ inside \in [Clients -> Instances \cup {None}]
    /\ torn \subseteq Instances /\ behind \subseteq Instances
    /\ settings \in [Databases -> Settings \cup {None}]
    /\ given \in [Instances -> Settings \cup {None}]
    /\ answer \in {"none", "database", "null"}
    /\ careful \in BOOLEAN

(* Nobody uses an instance that was destroyed: ReleaseDataBase, called by  *)
(* any thread at any time, does not pull an instance from under a pointer, *)
(* a session, a transaction or a context that a procedure has kept.        *)
UsedIsAlive ==
    \A c \in Clients :
        /\ handles[c] \cup sessions[c] \subseteq Alive
        /\ inside[c] # None => inside[c] \in Alive

(* Who keeps an instance alive.                                            *)
Owners == Clients \cup {"store", "sessions"}

OwnersOf(i) ==
    {h \in Owners : \/ h \in Clients /\ i \in handles[h]
                    \/ h = "store" /\ i \in store
                    \/ h = "sessions" /\ i \in kept}

(* The instances are owned as Ownership has it, by the store, by clients,  *)
(* and by the sessions in their own m_SessionStore: an instance goes in    *)
(* the step in which the last of these lets it go, never earlier and never *)
(* later, and no step lets two go, not even a release under an id that     *)
(* the hashes of two paths share.                                          *)
Shared == INSTANCE Ownership WITH
    Objects <- Instances,
    live    <- Alive,
    owned   <- [i \in Instances |-> OwnersOf(i)]

ImplementsOwnership == Shared!Spec

(* "Text about cpp_db details", line 4: the threads that use a database    *)
(* are synchronized, one writer at a time.                                 *)
OneTransactionPerDatabase ==
    \A c, d \in Clients :
        inside[c] # None /\ inside[d] # None =>
            (base[inside[c]] = base[inside[d]] => c = d)

(* For careful clients it is so: the lock of the one instance is enough,   *)
(* whoever releases the database in the meantime.                          *)
CarefulClientsExclude == careful => OneTransactionPerDatabase

(* For careful clients, an instance has the whole file mapped, neither     *)
(* more nor less, unless it grew the file itself and could not open it     *)
(* again: nobody else grows or shrinks the file under it, however the      *)
(* database is acquired, used and released before and after.               *)
CarefulMappingsWhole == careful => torn \subseteq behind

(* For careful clients, an instance runs with the settings it was acquired *)
(* with for as long as it is alive, after whatever other instances: it     *)
(* reads them in the file each time, where every construction writes.      *)
SettingsKept == careful => \A i \in Alive : settings[base[i]] = given[i]

(* The sequence diagram of ReleaseDataBase (cpp_db_hls.uml:1163-1308), its *)
(* step 29: the release destroys the environment of the database.  It is   *)
(* put weakly here: it is destroyed once no client has a pointer to it or  *)
(* a session of it any more.                                               *)
ReleasedIsDestroyed ==
    \A i \in Alive : \/ i \in store
                     \/ \E c \in Clients : i \in handles[c] \cup sessions[c]

(* The sequence diagram (cpp_db_hls.uml:510): AcquireDataBase returns the  *)
(* database.                                                               *)
AcquireAnswers == answer # "null"

=============================================================================
