------------------------------- MODULE Startup ------------------------------
(***************************************************************************)
(* How processes open one database: the constructors of                    *)
(* FileSystemPresenter, ControllInformationHolder and BaseDataBase run in  *)
(* that order over the directory and the files that earlier openings, or   *)
(* openings cut short, have left.  Within a process the Manager's mutex is *)
(* held all the while, so that a process opens one database at a time;     *)
(* between processes nothing is held.                                      *)
(***************************************************************************)
EXTENDS Naturals

CONSTANTS
    Processes,    \* processes that open the database
    BitCounts,    \* values of _GetOsBitCount in the builds about
    Versions,     \* values of CPP_ABSTRACT_DATA_BASE_VERSION in them
    Settings,     \* values of ControllInformation whose page has room for
                  \* an empty segment and the container
    Default,      \* ControllInformation::GetDefault()
    NoSettings,   \* AcquireDataBase called without any
    Absent,       \* no information file
    Empty,        \* an information file without content
    MaxMishaps    \* bound: mishaps in a history

ASSUME SettingsAssumption ==
    /\ Default \in Settings
    /\ NoSettings \notin Settings

ASSUME BoundAssumption == MaxMishaps \in Nat

VARIABLES
    dir,          \* whether the directory of the database exists
    info,         \* the information file
    data,         \* the data file: a segment in it is made in two steps
    pc,           \* how far each process is with opening
    build,        \* the build that a process runs
    given,        \* the settings its client gives
    paths,        \* whether its FileSystemPresenter has the three paths
    racing,       \* which of two histories is told, never changes: processes
                  \* of one build that open at the same time, while nobody
                  \* is killed; or processes one at a time, of any builds,
                  \* that may be killed at any place
    mishaps       \* counts what comes from outside: calls that the system
                  \* refused or did not finish, and processes that were
                  \* killed inside a constructor (not in the code)

files == <<dir, info, data>>
self  == <<build, given, paths, racing>>
vars  == <<dir, info, data, pc, build, given, paths, racing, mishaps>>

Builds  == [bits : BitCounts, version : Versions]
Records == [build : Builds, settings : Settings]

(* A record that the disk does not hold: the file is missing or empty.     *)
ASSUME FilesAssumption == Absent # Empty /\ {Absent, Empty} \cap Records = {}

(* Where an opening stands; the calls that the system may refuse; and the  *)
(* places of a process that an opening keeps busy.                         *)
Calls   == {"present", "mkdir", "look", "create", "map", "memory", "data",
            "format", "timer"}
Inside  == Calls \cup {"write", "check", "settle"}
Places  == Inside \cup {"down", "open", "failed"}

Goto(p, place) == pc' = [pc EXCEPT ![p] = place]

(* InitHelper: the settings that are given, or else the default ones.      *)
Chosen(p) == IF given[p] = NoSettings THEN Default ELSE given[p]

Init ==
    /\ dir \in BOOLEAN /\ info = Absent /\ data = "none"
    /\ pc = [p \in Processes |-> "down"]
    /\ racing \in BOOLEAN
    /\ build \in [Processes -> Builds]
    /\ racing => \A p, q \in Processes : build[p] = build[q]
    /\ given = [p \in Processes |-> NoSettings]
    /\ paths = [p \in Processes |-> FALSE]
    /\ mishaps = 0

-----------------------------------------------------------------------------
(* AcquireDataBase constructs the database; a client whose last try failed *)
(* may try again.                                                          *)
Acquire(p) ==
    /\ pc[p] \in {"down", "failed"}
    /\ racing \/ \A q \in Processes : pc[q] \in {"down", "failed"}
    /\ \E s \in Settings \cup {NoSettings} : given' = [given EXCEPT ![p] = s]
    /\ paths' = [paths EXCEPT ![p] = FALSE]
    /\ Goto(p, "present")
    /\ UNCHANGED <<files, build, racing, mishaps>>

(* Something from outside that the constructors have to live with.         *)
Mishap == mishaps < MaxMishaps /\ mishaps' = mishaps + 1

(* A call fails for reasons of the system's: no permission, no room, no    *)
(* descriptor, the root directory gone.  The exception leaves the          *)
(* constructor.  The data file is made before it gets its size and its     *)
(* segment; if these fail it stays as it is, or is marked as spoiled.      *)
Refused(p) ==
    /\ pc[p] \in Calls
    /\ Mishap
    /\ IF pc[p] = "format" THEN data' \in {"partial", "spoiled"}
                           ELSE UNCHANGED data
    /\ Goto(p, "failed")
    /\ UNCHANGED <<dir, info, self>>

(* FileSystemPresenter: the paths are set only if the directory is there;  *)
(* if it is not, they stay empty.                                          *)
Present(p) ==
    /\ pc[p] = "present"
    /\ paths' = [paths EXCEPT ![p] = dir]
    /\ Goto(p, IF dir THEN "look" ELSE "mkdir")
    /\ UNCHANGED <<files, build, given, racing, mishaps>>

(* Variant of MakeDir: a directory that is missing is not created.         *)
MakeNoDir(p) ==
    /\ pc[p] = "mkdir"
    /\ Goto(p, "look")
    /\ UNCHANGED <<files, self, mishaps>>

(* The directory is created.  It is no error if another process was faster. *)
MakeDir(p) ==
    /\ pc[p] = "mkdir"
    /\ dir' = TRUE
    /\ Goto(p, "look")
    /\ UNCHANGED <<info, data, self, mishaps>>

(* Variants of LookForInfo: the test for the file is inverted.             *)
LookInverted(p) ==
    /\ pc[p] = "look"
    /\ Goto(p, IF paths[p] /\ info = Absent THEN "map" ELSE "create")
    /\ UNCHANGED <<files, self, mishaps>>

(* Variant of LookForInfo: the file is written anew at every start.        *)
LookNotAtAll(p) ==
    /\ pc[p] = "look"
    /\ Goto(p, "create")
    /\ UNCHANGED <<files, self, mishaps>>

(* _CtrInfo1stStart: is there a file at the path?  Not at an empty one.    *)
LookForInfo(p) ==
    /\ pc[p] = "look"
    /\ Goto(p, IF paths[p] /\ info # Absent THEN "map" ELSE "create")
    /\ UNCHANGED <<files, self, mishaps>>

(* The stream truncates the file it opens; on the empty path it does not   *)
(* open, and the constructor throws.                                       *)
CreateInfo(p) ==
    /\ pc[p] = "create"
    /\ IF paths[p] THEN info' = Empty /\ Goto(p, "write")
                   ELSE Goto(p, "failed") /\ UNCHANGED info
    /\ UNCHANGED <<dir, data, self, mishaps>>

(* What was written is not checked: a full disk leaves the file empty, and *)
(* the constructor goes on.                                                *)
WriteInfo(p) ==
    /\ pc[p] = "write"
    /\ \/ /\ info' = [build |-> build[p], settings |-> Chosen(p)]
          /\ UNCHANGED mishaps
       \/ Mishap /\ UNCHANGED info
    /\ Goto(p, "map")
    /\ UNCHANGED <<dir, data, self>>

(* MappedFileReadWrite: a file that is missing or empty cannot be mapped.  *)
Mappable == info \notin {Absent, Empty}

(* If the file cannot be mapped the constructor throws.                    *)
MapInfo(p) ==
    /\ pc[p] = "map"
    /\ Goto(p, IF ~Mappable THEN "failed" ELSE "check")
    /\ UNCHANGED <<files, self, mishaps>>

(* Variant of CheckHeader: the version is not compared.                    *)
CheckBitsOnly(p) ==
    /\ pc[p] = "check"
    /\ Goto(p, IF info = Empty THEN "down"
               ELSE IF info.build.bits = build[p].bits THEN "settle" ELSE "failed")
    /\ UNCHANGED <<files, self, mishaps>>

(* The header must be of this build.  If another process has truncated the *)
(* file under the mapping, there is nothing to read and the process dies.  *)
CheckHeader(p) ==
    /\ pc[p] = "check"
    /\ Goto(p, IF info = Empty THEN "down"
               ELSE IF /\ info.build.bits = build[p].bits
                       /\ info.build.version = build[p].version
                    THEN "settle" ELSE "failed")
    /\ UNCHANGED <<files, self, mishaps>>

(* Variant of Settle: what the client gives is stored, even nothing.       *)
SettleGiven(p) ==
    /\ pc[p] = "settle"
    /\ IF info = Empty
       THEN Goto(p, "down") /\ UNCHANGED info
       ELSE Goto(p, "memory") /\ info' = [info EXCEPT !.settings = given[p]]
    /\ UNCHANGED <<dir, data, self, mishaps>>

(* The settings in the file are replaced.                                  *)
Settle(p) ==
    /\ pc[p] = "settle"
    /\ IF info = Empty
       THEN Goto(p, "down") /\ UNCHANGED info
       ELSE Goto(p, "memory") /\ info' = [info EXCEPT !.settings = Chosen(p)]
    /\ UNCHANGED <<dir, data, self, mishaps>>

(* _GetTrueMemorySize: the size of the data file, or the page size for a   *)
(* new one, which is read in the mapped information file.  A file of size  *)
(* zero, which another process is making, or one that was spoiled, is too  *)
(* small for a segment: m_Memory throws.                                   *)
SizeData(p) ==
    /\ pc[p] = "memory"
    /\ \/ info = Empty /\ Goto(p, "down")
       \/ info # Empty /\ data # "spoiled" /\ Goto(p, "data")
       \/ info # Empty /\ data \in {"partial", "spoiled"} /\ Goto(p, "failed")
    /\ UNCHANGED <<files, self, mishaps>>

(* open_or_create makes the file, if nobody has; it waits for one that is  *)
(* there to have its segment, and throws if it is spoiled.                 *)
OpenData(p) ==
    /\ pc[p] = "data"
    /\ \/ data = "none" /\ data' = "partial" /\ Goto(p, "format")
       \/ data = "whole" /\ Goto(p, "timer") /\ UNCHANGED data
       \/ data = "spoiled" /\ Goto(p, "failed") /\ UNCHANGED data
    /\ UNCHANGED <<dir, info, self, mishaps>>

(* The new file gets its size and an empty segment.                        *)
FormatData(p) ==
    /\ pc[p] = "format"
    /\ data' = "whole"
    /\ Goto(p, "timer")
    /\ UNCHANGED <<dir, info, self, mishaps>>

(* _RestartBackUpTimer reads backupTimeout in the information file; then   *)
(* the container is found or made in the segment.                          *)
ArmTimer(p) ==
    /\ pc[p] = "timer"
    /\ Goto(p, IF info = Empty THEN "down" ELSE "open")
    /\ UNCHANGED <<files, self, mishaps>>

(* A transaction reads the settings in the file, too: it dies if another   *)
(* process has truncated it by then.                                       *)
ReadSettings(p) ==
    /\ pc[p] = "open" /\ info = Empty
    /\ Goto(p, "down")
    /\ UNCHANGED <<files, self, mishaps>>

(* The process is killed or exits.  The next one may be of another build.  *)
Exit(p) ==
    /\ pc[p] # "down"
    /\ ~racing
    /\ IF pc[p] \in Inside THEN Mishap ELSE UNCHANGED mishaps
    /\ Goto(p, "down")
    /\ \E b \in Builds : build' = [build EXCEPT ![p] = b]
    /\ UNCHANGED <<files, given, paths, racing>>

Construct(p) ==
    \/ Present(p) \/ MakeDir(p) \/ LookForInfo(p) \/ CreateInfo(p)
    \/ WriteInfo(p) \/ MapInfo(p) \/ CheckHeader(p) \/ Settle(p)
    \/ SizeData(p) \/ OpenData(p) \/ FormatData(p) \/ ArmTimer(p)

Next == \E p \in Processes :
    Acquire(p) \/ Construct(p) \/ Refused(p) \/ ReadSettings(p) \/ Exit(p)

Spec == Init /\ [][Next]_vars

(* A constructor runs to its end; a client keeps trying.                   *)
FairSpec == Spec /\ \A p \in Processes :
                       WF_vars(Construct(p)) /\ WF_vars(Acquire(p))

-----------------------------------------------------------------------------
TypeOK ==
    /\ dir \in BOOLEAN
    /\ info \in Records \cup {Absent, Empty}
    /\ data \in {"none", "partial", "spoiled", "whole"}
    /\ pc \in [Processes -> Places]
    /\ build \in [Processes -> Builds]
    /\ given \in [Processes -> Settings \cup {NoSettings}]
    /\ paths \in [Processes -> BOOLEAN]
    /\ racing \in BOOLEAN
    /\ mishaps \in 0..MaxMishaps

(* While one process at a time uses the directory: a database is opened    *)
(* only over an information file of the same bit count and version, and    *)
(* then runs with the settings its own client chose, whatever crashes,     *)
(* upgrades and other settings came before.                                *)
Settled == {"memory", "data", "format", "timer", "open"}

OpenedOnOwnTerms ==
    ~racing => \A p \in Processes : pc[p] \in Settled =>
        info = [build |-> build[p], settings |-> Chosen(p)]

(* A file that was made and does not have its content.                     *)
Unfinished == info = Empty \/ data \in {"partial", "spoiled"}

(* An opening fails for one of four reasons only.  The directory was not   *)
(* there; the system refuses it a call; one of the two files is made and   *)
(* not finished, which another process is just about to do, or which a     *)
(* mishap of an earlier opening has left so; or, while nobody races, the   *)
(* information file is of another build.  In particular, processes of one  *)
(* build that race fail of nothing but a file that one of them is making.  *)
FailureExplained ==
    [][\A p \in Processes : pc[p] # "failed" /\ pc'[p] = "failed" =>
        \/ ~paths[p]
        \/ mishaps' > mishaps
        \/ /\ Unfinished
           /\ \/ mishaps > 0
              \/ \E q \in Processes \ {p} : pc[q] \in {"write", "format"}
        \/ ~racing /\ info \in Records /\ info.build # build[p]]_vars

(* While nobody races, an information file that is whole stays whole and   *)
(* of the build that made it: an opening that fails, dies anywhere, or is  *)
(* of another build leaves a database that its own build can still open.   *)
WholeStaysWhole ==
    [][~racing /\ info \in Records =>
         info' \in Records /\ info'.build = info.build]_vars

(* Openings that race each other in processes of one build may fail or     *)
(* die of each other, but clients that keep trying all get the database in *)
(* the end, over whole files, unless a mishap left a file unfinished that  *)
(* nobody ever finishes.                                                   *)
AllOpen ==
    /\ info \in Records /\ data = "whole"
    /\ \A p \in Processes : pc[p] = "open" /\ info.build = build[p]

AllOpenInTheEnd ==
    racing => <>[]AllOpen \/ <>[](mishaps > 0 /\ Unfinished)

(* The sequence diagram (cpp_db_hls.uml:401,510): AcquireDataBase opens or *)
(* creates the file and returns the database.                              *)
OpensOrCreates == \A p \in Processes : pc[p] # "failed"

=============================================================================
