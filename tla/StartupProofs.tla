---------------------------- MODULE StartupProofs ---------------------------
(***************************************************************************)
(* For any number of processes, builds, settings and mishaps: what a       *)
(* database that was opened runs on, why an opening fails, and what a      *)
(* failed one leaves, whether processes race or open one at a time and may *)
(* be killed at any place.                                                 *)
(***************************************************************************)
EXTENDS Startup, TLAPS

Opening == Places \ {"down", "failed"}

(* The information file does not vanish once it has been found or made;    *)
(* processes that do not race are alone; and what they know of the file    *)
(* stays true while they are.                                              *)
FileStays == \A p \in Processes :
    pc[p] \in {"write", "map", "check", "settle"} => info # Absent

Alone == ~racing => \A p, q \in Processes :
    pc[p] \in Opening /\ pc[q] \in Opening => p = q

HeaderKnown == ~racing => \A p \in Processes :
    pc[p] = "settle" => info \in Records /\ info.build = build[p]

Inv == TypeOK /\ FileStays /\ Alone /\ HeaderKnown /\ OpenedOnOwnTerms

LEMMA InitInv == Init => Inv
BY SettingsAssumption, FilesAssumption, BoundAssumption DEF Init, Inv, TypeOK,
   FileStays, Alone, HeaderKnown, OpenedOnOwnTerms, Places, Settled, Opening

(* The two variables that most steps of an opening leave alone.            *)
Loose == /\ data \in {"none", "partial", "spoiled", "whole"}
         /\ mishaps \in 0..MaxMishaps

LEMMA MishapType == TypeOK /\ Mishap => mishaps' \in 0..MaxMishaps
BY BoundAssumption DEF TypeOK, Mishap

(* What is chosen is a value of the settings.                              *)
LEMMA ChosenType == ASSUME TypeOK, NEW p \in Processes PROVE Chosen(p) \in Settings
BY SettingsAssumption DEF TypeOK, Chosen

(* A step of an opening that leaves the information file alone and comes   *)
(* to no place where more is known of it.                                  *)
LEMMA QuietStep ==
  ASSUME Inv, NEW p \in Processes, NEW place \in Places,
         pc[p] \in Opening, Goto(p, place), UNCHANGED <<info, build, given, racing>>,
         dir' \in BOOLEAN, paths' \in [Processes -> BOOLEAN], Loose',
         place \in {"write", "map", "check", "settle"} => info # Absent,
         place # "settle", place \in Settled => pc[p] \in Settled
  PROVE  Inv'
<1> USE DEF Inv
<1>1. \A q \in Processes : pc'[q] = IF q = p THEN place ELSE pc[q]
  BY DEF Goto, TypeOK
<1>2. TypeOK'
  BY DEF TypeOK, Loose, Goto
<1>3. FileStays'
  BY <1>1 DEF FileStays
<1>4. Alone'
  BY <1>1 DEF Alone
<1>5. HeaderKnown'
  BY <1>1 DEF HeaderKnown
<1>6. OpenedOnOwnTerms'
  BY <1>1 DEF OpenedOnOwnTerms, Settled, Chosen
<1> QED
  BY <1>2, <1>3, <1>4, <1>5, <1>6

(* A step of an opening that writes the information file.                  *)
LEMMA WritingStep ==
  ASSUME Inv, NEW p \in Processes, NEW place \in {"write", "map", "memory"},
         pc[p] \in Opening, Goto(p, place), UNCHANGED <<dir, build, given, paths, racing>>,
         Loose', info' \in Records \cup {Empty},
         ~racing /\ place = "memory" =>
             info' = [build |-> build[p], settings |-> Chosen(p)]
  PROVE  Inv'
<1> USE DEF Inv
<1>1. \A q \in Processes : pc'[q] = IF q = p THEN place ELSE pc[q]
  BY DEF Goto, TypeOK
<1>2. TypeOK'
  BY DEF TypeOK, Loose, Goto, Places, Inside, Calls
<1>3. FileStays'
  BY FilesAssumption DEF FileStays
<1>4. Alone'
  BY <1>1 DEF Alone
<1>5. ASSUME ~racing, NEW q \in Processes, q # p PROVE pc'[q] \in {"down", "failed"}
  BY <1>1, <1>5 DEF Alone, Opening, TypeOK
<1>6. HeaderKnown'
  BY <1>1, <1>5 DEF HeaderKnown
<1>7. OpenedOnOwnTerms'
  BY <1>1, <1>5 DEF OpenedOnOwnTerms, Settled, Chosen
<1> QED
  BY <1>2, <1>3, <1>4, <1>6, <1>7

(* The steps of an opening after the settings are in the file.             *)
AtData(p) == \/ SizeData(p) \/ OpenData(p) \/ FormatData(p) \/ ArmTimer(p)
             \/ ReadSettings(p)

LEMMA NextInv == Inv /\ [Next]_vars => Inv'
<1> SUFFICES ASSUME Inv, [Next]_vars PROVE Inv'
  OBVIOUS
<1> USE DEF Inv
<1> USE DEF Places, Inside, Calls
<1>1. ASSUME NEW p \in Processes, Acquire(p) PROVE Inv'
  <2>1. /\ pc[p] \in {"down", "failed"}
        /\ pc' = [pc EXCEPT ![p] = "present"]
        /\ UNCHANGED <<dir, info, data, build, racing, mishaps>>
        /\ \A q \in Processes \ {p} : given'[q] = given[q]
        /\ racing \/ \A q \in Processes : pc[q] \in {"down", "failed"}
    BY <1>1 DEF Acquire, Goto, files, TypeOK
  <2>2. TypeOK'
    BY <1>1, <2>1 DEF Acquire, TypeOK
  <2>3. \A q \in Processes : pc'[q] = IF q = p THEN "present" ELSE pc[q]
    BY <2>1 DEF TypeOK
  <2>4. FileStays' /\ HeaderKnown'
    BY <2>1, <2>3 DEF FileStays, HeaderKnown
  <2>5. Alone' /\ OpenedOnOwnTerms'
    BY <2>1, <2>3 DEF Alone, Opening, OpenedOnOwnTerms, Settled
  <2> QED
    BY <2>2, <2>4, <2>5
<1>2. ASSUME NEW p \in Processes, Present(p) \/ MakeDir(p) PROVE Inv'
  <2>1. paths' \in [Processes -> BOOLEAN] /\ dir' \in BOOLEAN /\ Loose'
    BY <1>2 DEF Present, MakeDir, files, self, TypeOK, Loose
  <2>2. /\ UNCHANGED <<info, build, given, racing>>
        /\ pc[p] \in {"present", "mkdir"} /\ (Goto(p, "look") \/ Goto(p, "mkdir"))
    BY <1>2 DEF Present, MakeDir, files, self
  <2> QED
    BY <2>1, <2>2, QuietStep DEF Opening, Settled
<1>3. ASSUME NEW p \in Processes, LookForInfo(p) PROVE Inv'
  <2>1. UNCHANGED <<dir, info, build, given, paths, racing>> /\ Loose' /\ pc[p] = "look"
    BY <1>3 DEF LookForInfo, files, self, Loose, TypeOK
  <2>2. Goto(p, "create") \/ (info # Absent /\ Goto(p, "map"))
    BY <1>3 DEF LookForInfo
  <2> QED
    BY <2>1, <2>2, QuietStep DEF Opening, Settled, TypeOK
<1>4. ASSUME NEW p \in Processes, CreateInfo(p) PROVE Inv'
  <2>1. UNCHANGED <<dir, build, given, paths, racing>> /\ Loose' /\ pc[p] = "create"
    BY <1>4 DEF CreateInfo, self, Loose, TypeOK
  <2>2. (info' = Empty /\ Goto(p, "write")) \/ (info' = info /\ Goto(p, "failed"))
    BY <1>4 DEF CreateInfo
  <2>3. CASE info' = Empty /\ Goto(p, "write")
    BY <2>1, <2>3, WritingStep DEF Opening
  <2>4. CASE info' = info /\ Goto(p, "failed")
    BY <2>1, <2>4, QuietStep DEF Opening, Settled, TypeOK
  <2> QED
    BY <2>2, <2>3, <2>4
<1>5. ASSUME NEW p \in Processes, WriteInfo(p) PROVE Inv'
  <2>1. /\ UNCHANGED <<dir, build, given, paths, racing>>
        /\ pc[p] = "write" /\ Goto(p, "map")
    BY <1>5 DEF WriteInfo, self
  <2>2. info' \in Records \cup {Empty}
    BY <1>5, ChosenType DEF WriteInfo, Records, TypeOK, FileStays
  <2>3. Loose'
    BY <1>5, MishapType DEF WriteInfo, Loose, TypeOK
  <2> QED
    BY <2>1, <2>2, <2>3, WritingStep DEF Opening
<1>6. ASSUME NEW p \in Processes, MapInfo(p) PROVE Inv'
  <2>1. UNCHANGED <<dir, info, build, given, paths, racing>> /\ Loose' /\ pc[p] = "map"
    BY <1>6 DEF MapInfo, files, self, Loose, TypeOK
  <2>2. Goto(p, "failed") \/ Goto(p, "check")
    BY <1>6 DEF MapInfo
  <2>3. info # Absent
    BY <2>1 DEF FileStays
  <2> QED
    BY <2>1, <2>2, <2>3, QuietStep DEF Opening, Settled, TypeOK
<1>7. ASSUME NEW p \in Processes, CheckHeader(p) PROVE Inv'
  <2>1. /\ UNCHANGED <<dir, info, data, build, given, paths, racing, mishaps>>
        /\ Loose' /\ pc[p] = "check"
    BY <1>7 DEF CheckHeader, files, self, Loose, TypeOK
  <2>2. \/ Goto(p, "down") \/ Goto(p, "failed")
        \/ /\ Goto(p, "settle") /\ info # Empty
           /\ info.build.bits = build[p].bits /\ info.build.version = build[p].version
    BY <1>7 DEF CheckHeader
  <2>3. CASE Goto(p, "down") \/ Goto(p, "failed")
    BY <2>1, <2>3, QuietStep DEF Opening, Settled, TypeOK
  <2>4. CASE /\ Goto(p, "settle") /\ info # Empty
             /\ info.build.bits = build[p].bits /\ info.build.version = build[p].version
    <3>1. info \in Records
      BY <2>1, <2>4 DEF TypeOK, FileStays
    <3>2. info.build = build[p]
      BY <2>4, <3>1 DEF Records, Builds, TypeOK
    <3>3. \A q \in Processes : pc'[q] = IF q = p THEN "settle" ELSE pc[q]
      BY <2>4 DEF Goto, TypeOK
    <3>4. TypeOK'
      BY <2>1, <2>4 DEF TypeOK, Goto
    <3>5. FileStays' /\ Alone'
      BY <2>1, <3>3 DEF FileStays, Alone, Opening
    <3>6. HeaderKnown' /\ OpenedOnOwnTerms'
      BY <2>1, <3>1, <3>2, <3>3 DEF HeaderKnown, OpenedOnOwnTerms, Settled, Chosen
    <3> QED
      BY <3>4, <3>5, <3>6
  <2> QED
    BY <2>2, <2>3, <2>4
<1>8. ASSUME NEW p \in Processes, Settle(p) PROVE Inv'
  <2>1. /\ UNCHANGED <<dir, build, given, paths, racing>>
        /\ Loose' /\ pc[p] = "settle"
    BY <1>8 DEF Settle, self, Loose, TypeOK
  <2>2. CASE info = Empty
    BY <1>8, <2>1, <2>2, QuietStep DEF Settle, Opening, Settled, TypeOK
  <2>3. CASE info # Empty
    <3>1. Goto(p, "memory") /\ info' = [info EXCEPT !.settings = Chosen(p)]
      BY <1>8, <2>3 DEF Settle
    <3>2. info \in Records
      BY <2>1, <2>3 DEF TypeOK, FileStays
    <3>3. info' = [build |-> info.build, settings |-> Chosen(p)]
      BY <3>1, <3>2 DEF Records
    <3>4. info' \in Records
      BY <3>2, <3>3, ChosenType DEF Records
    <3>5. ~racing => info.build = build[p]
      BY <2>1 DEF HeaderKnown
    <3> QED
      BY <2>1, <3>1, <3>3, <3>4, <3>5, WritingStep DEF Opening
  <2> QED
    BY <2>2, <2>3
<1>9. ASSUME NEW p \in Processes, AtData(p) PROVE Inv'
  <2>1. UNCHANGED <<dir, info, build, given, paths, racing>> /\ Loose'
    BY <1>9 DEF AtData, SizeData, OpenData, FormatData, ArmTimer, ReadSettings,
       files, self, Loose, TypeOK
  <2>2. PICK place \in {"down", "failed", "data", "format", "timer", "open"} :
          pc[p] \in Settled /\ Goto(p, place)
    BY <1>9 DEF AtData, SizeData, OpenData, FormatData, ArmTimer, ReadSettings,
       Settled
  <2> QED
    BY <2>1, <2>2, QuietStep DEF Opening, Settled, TypeOK
<1>10. ASSUME NEW p \in Processes, Refused(p) PROVE Inv'
  <2>1. UNCHANGED <<dir, info, build, given, paths, racing>>
    BY <1>10 DEF Refused, self
  <2>2. pc[p] \in Calls /\ Goto(p, "failed") /\ Loose'
    BY <1>10, MishapType DEF Refused, Loose, TypeOK
  <2> QED
    BY <2>1, <2>2, QuietStep DEF Opening, Settled, TypeOK
<1>11. ASSUME NEW p \in Processes, Exit(p) PROVE Inv'
  <2>1. /\ UNCHANGED <<dir, info, data, given, paths, racing>>
        /\ pc' = [pc EXCEPT ![p] = "down"]
        /\ \A q \in Processes \ {p} : build'[q] = build[q]
    BY <1>11 DEF Exit, Goto, files, TypeOK
  <2>2. \A q \in Processes : pc'[q] = IF q = p THEN "down" ELSE pc[q]
    BY <2>1 DEF TypeOK
  <2>3. TypeOK'
    <3>1. mishaps' \in 0..MaxMishaps
      BY <1>11, MishapType DEF Exit, TypeOK
    <3>2. build' \in [Processes -> Builds]
      BY <1>11 DEF Exit, TypeOK
    <3> QED
      BY <2>1, <3>1, <3>2 DEF TypeOK
  <2> QED
    BY <2>1, <2>2, <2>3 DEF FileStays, Alone, HeaderKnown, OpenedOnOwnTerms,
       Settled, Opening, Chosen
<1>12. ASSUME UNCHANGED vars PROVE Inv'
  BY <1>12 DEF vars, TypeOK, FileStays, Alone, HeaderKnown, OpenedOnOwnTerms,
     Settled, Chosen
<1> QED
  BY <1>1, <1>2, <1>3, <1>4, <1>5, <1>6, <1>7, <1>8, <1>9, <1>10, <1>11, <1>12
     DEF Next, Construct, AtData

-----------------------------------------------------------------------------
(* Every variable keeps a value of its kind.                               *)
THEOREM TypeCorrect == Spec => []TypeOK
<1>1. Inv => TypeOK
  BY DEF Inv
<1> QED
  BY <1>1, InitInv, NextInv, PTL DEF Spec

(* Whatever crashed, or ran in another build or with other settings,       *)
(* before: who opens a database alone runs on a file of its own build with *)
(* its own settings.                                                       *)
THEOREM OwnTerms == Spec => []OpenedOnOwnTerms
<1>1. Inv => OpenedOnOwnTerms
  BY DEF Inv
<1> QED
  BY <1>1, InitInv, NextInv, PTL DEF Spec

-----------------------------------------------------------------------------
(* In the history where processes race, all of them and the file are of    *)
(* one build.  In the other one, who is about to create the file has not   *)
(* found any, and who is about to write it has just made it.               *)
OneBuild == racing =>
    \A p \in Processes : /\ \A q \in Processes : build[p] = build[q]
                         /\ info \in Records => info.build = build[p]

BeforeWhole == ~racing => \A p \in Processes :
    /\ pc[p] = "create" /\ paths[p] => info = Absent
    /\ pc[p] = "write" => info = Empty

LEMMA HistoryStays == [Next]_vars => racing' = racing
<1> SUFFICES ASSUME [Next]_vars PROVE racing' = racing
  OBVIOUS
<1>1. ASSUME NEW p \in Processes,
             Acquire(p) \/ Construct(p) \/ Refused(p) \/ ReadSettings(p) \/ Exit(p)
      PROVE  racing' = racing
  BY <1>1 DEF Construct, Acquire, Present, MakeDir, LookForInfo, CreateInfo,
     WriteInfo, MapInfo, CheckHeader, Settle, SizeData, OpenData, FormatData,
     ArmTimer, Refused, ReadSettings, Exit, self
<1> QED
  BY <1>1 DEF Next, vars

(* All steps but those that write the information file or end a process.   *)
Aside(p) ==
    \/ Acquire(p) \/ Present(p) \/ MakeDir(p) \/ LookForInfo(p) \/ MapInfo(p)
    \/ CheckHeader(p) \/ Refused(p) \/ AtData(p)

LEMMA StepKinds ==
  ASSUME Next
  PROVE  \E p \in Processes :
           Aside(p) \/ CreateInfo(p) \/ WriteInfo(p) \/ Settle(p) \/ Exit(p)
BY DEF Next, Construct, Aside, AtData

LEMMA AsideKeepsInfo ==
  ASSUME NEW p \in Processes, Aside(p)
  PROVE  UNCHANGED <<info, build, racing>>
BY DEF Aside, AtData, Acquire, Present, MakeDir, LookForInfo, MapInfo,
   CheckHeader, Refused, SizeData, OpenData, FormatData, ArmTimer, ReadSettings,
   files, self

LEMMA OneBuildNext == Inv /\ OneBuild /\ [Next]_vars => OneBuild'
<1> SUFFICES ASSUME Inv, OneBuild, [Next]_vars PROVE OneBuild'
  OBVIOUS
<1>1. ASSUME UNCHANGED <<build, racing>>, info' \in Records => info' = info
      PROVE  OneBuild'
  BY <1>1 DEF OneBuild
<1>2. ASSUME NEW p \in Processes, WriteInfo(p) PROVE OneBuild'
  <2>1. UNCHANGED <<build, racing>>
    BY <1>2 DEF WriteInfo, self
  <2>2. info' = info \/ info' = [build |-> build[p], settings |-> Chosen(p)]
    BY <1>2 DEF WriteInfo
  <2> QED
    BY <1>1, <2>1, <2>2 DEF OneBuild
<1>3. ASSUME NEW p \in Processes, Settle(p) PROVE OneBuild'
  <2>1. UNCHANGED <<build, racing>> /\ pc[p] = "settle"
    BY <1>3 DEF Settle, self
  <2>2. CASE info' = info
    BY <1>1, <2>1, <2>2
  <2>3. CASE info # Empty /\ info' = [info EXCEPT !.settings = Chosen(p)]
    <3>1. info \in Records
      BY <2>1, <2>3 DEF Inv, TypeOK, FileStays
    <3>2. info'.build = info.build
      BY <2>3, <3>1 DEF Records
    <3> QED
      BY <2>1, <3>1, <3>2 DEF OneBuild
  <2> QED
    BY <1>3, <2>2, <2>3 DEF Settle
<1>4. ASSUME NEW p \in Processes, Exit(p) PROVE OneBuild'
  BY <1>4 DEF Exit, OneBuild
<1>5. ASSUME NEW p \in Processes, Aside(p) \/ CreateInfo(p) PROVE OneBuild'
  <2>1. CASE Aside(p)
    BY <1>1, <2>1, AsideKeepsInfo
  <2>2. CASE CreateInfo(p)
    BY <1>1, <2>2, FilesAssumption DEF CreateInfo, self
  <2> QED
    BY <1>5, <2>1, <2>2
<1>6. CASE UNCHANGED vars
  BY <1>1, <1>6 DEF vars
<1> QED
  BY <1>2, <1>3, <1>4, <1>5, <1>6, StepKinds

LEMMA BeforeWholeNext == Inv /\ BeforeWhole /\ [Next]_vars => BeforeWhole'
<1> SUFFICES ASSUME Inv, BeforeWhole, [Next]_vars, ~racing PROVE BeforeWhole'
  BY HistoryStays DEF BeforeWhole
<1> USE DEF Goto, Inside, Calls
<1>1. pc \in [Processes -> Places] /\ paths \in [Processes -> BOOLEAN]
  BY DEF Inv, TypeOK
(* A step of p that leaves the file alone, or after which only p is inside. *)
<1>2. ASSUME NEW p \in Processes,
             \A q \in Processes \ {p} : pc'[q] = pc[q] /\ paths'[q] = paths[q],
             info' = info \/ pc[p] \in Opening,
             pc'[p] = "create" /\ paths'[p] => info' = Absent,
             pc'[p] = "write" => info' = Empty
      PROVE  BeforeWhole'
  <2>1. CASE info' = info
    BY <1>2, <2>1 DEF BeforeWhole
  <2>2. CASE pc[p] \in Opening
    <3>1. \A q \in Processes \ {p} : pc'[q] \notin {"create", "write"}
      BY <1>1, <1>2, <2>2 DEF Inv, Alone, Opening, Places
    <3> QED
      BY <1>2, <3>1 DEF BeforeWhole
  <2> QED
    BY <1>2, <2>1, <2>2
<1>3. ASSUME NEW p \in Processes, Acquire(p) \/ Present(p) PROVE BeforeWhole'
  BY <1>1, <1>2, <1>3 DEF Acquire, Present, files
<1>4. ASSUME NEW p \in Processes, LookForInfo(p) PROVE BeforeWhole'
  BY <1>1, <1>2, <1>4 DEF LookForInfo, files, self
<1>5. ASSUME NEW p \in Processes, CreateInfo(p) PROVE BeforeWhole'
  BY <1>1, <1>2, <1>5 DEF CreateInfo, self, Opening, Places
<1>6. ASSUME NEW p \in Processes, WriteInfo(p) \/ Settle(p) PROVE BeforeWhole'
  <2>1. /\ pc[p] \in Opening /\ paths' = paths
        /\ pc'[p] \notin {"create", "write"}
        /\ \A q \in Processes \ {p} : pc'[q] = pc[q]
    BY <1>1, <1>6 DEF WriteInfo, Settle, self, Opening, Places
  <2> QED
    BY <1>2, <2>1
<1>7. ASSUME NEW p \in Processes,
             MakeDir(p) \/ MapInfo(p) \/ CheckHeader(p) \/ Refused(p) \/ AtData(p)
      PROVE  BeforeWhole'
  <2>1. /\ paths' = paths /\ info' = info
        /\ pc'[p] \notin {"create", "write"}
        /\ \A q \in Processes \ {p} : pc'[q] = pc[q]
    BY <1>1, <1>7 DEF MakeDir, MapInfo, CheckHeader, Refused, AtData, SizeData,
       OpenData, FormatData, ArmTimer, ReadSettings, files, self
  <2> QED
    BY <1>2, <2>1
<1>8. ASSUME NEW p \in Processes, Exit(p) PROVE BeforeWhole'
  BY <1>1, <1>2, <1>8 DEF Exit, files
<1>9. CASE UNCHANGED vars
  BY <1>9 DEF vars, BeforeWhole
<1> QED
  BY <1>3, <1>4, <1>5, <1>6, <1>7, <1>8, <1>9, StepKinds DEF Aside

-----------------------------------------------------------------------------
(* As long as nothing has happened from outside, whoever made a file is    *)
(* still there to finish it.                                               *)
Accounted == mishaps = 0 =>
    /\ info = Empty => \E q \in Processes : pc[q] = "write"
    /\ data = "partial" => \E q \in Processes : pc[q] = "format"
    /\ data # "spoiled"

LEMMA AccountedNext == Inv /\ Accounted /\ [Next]_vars => Accounted'
<1> SUFFICES ASSUME Inv, Accounted, [Next]_vars, mishaps' = 0 PROVE Accounted'
  BY DEF Accounted
<1> USE DEF Goto, Inside, Calls
<1>1. /\ pc \in [Processes -> Places]
      /\ mishaps \in Nat
  BY BoundAssumption DEF Inv, TypeOK
<1>2. mishaps = 0 /\ ~Mishap
  <2>1. ~Mishap
    BY <1>1 DEF Mishap
  <2>2. mishaps' = mishaps
    BY <2>1 DEF Next, Construct, Acquire, Present, MakeDir, LookForInfo,
       CreateInfo, WriteInfo, MapInfo, CheckHeader, Settle, SizeData, OpenData,
       FormatData, ArmTimer, Refused, ReadSettings, Exit, vars
  <2> QED
    BY <2>1, <2>2
<1>3. /\ info = Empty => \E q \in Processes : pc[q] = "write"
      /\ data = "partial" => \E q \in Processes : pc[q] = "format"
      /\ data # "spoiled"
  BY <1>2 DEF Accounted
(* A step that takes nobody from the places where files are finished.      *)
<1>4. ASSUME NEW p \in Processes, \A q \in Processes \ {p} : pc'[q] = pc[q],
             pc[p] \notin {"write", "format"}, UNCHANGED <<info, data>>
      PROVE  Accounted'
  BY <1>3, <1>4 DEF Accounted
<1>5. ASSUME NEW p \in Processes, Aside(p), ~OpenData(p), ~FormatData(p)
      PROVE  Accounted'
  BY <1>1, <1>2, <1>4, <1>5 DEF Aside, AtData, Acquire, Present, MakeDir,
     LookForInfo, MapInfo, CheckHeader, Refused, SizeData, ArmTimer,
     ReadSettings, files, self
<1>6. ASSUME NEW p \in Processes, Exit(p) PROVE Accounted'
  BY <1>1, <1>2, <1>4, <1>6 DEF Exit, files
<1>7. ASSUME NEW p \in Processes, OpenData(p) PROVE Accounted'
  <2>1. /\ info' = info /\ pc[p] = "data"
        /\ \A q \in Processes \ {p} : pc'[q] = pc[q]
        /\ \/ data' = "partial" /\ pc'[p] = "format"
           \/ data' = data
    BY <1>1, <1>7 DEF OpenData
  <2> QED
    BY <1>3, <2>1 DEF Accounted
<1>8. ASSUME NEW p \in Processes, FormatData(p) PROVE Accounted'
  <2>1. /\ info' = info /\ pc[p] = "format" /\ data' = "whole"
        /\ \A q \in Processes \ {p} : pc'[q] = pc[q]
    BY <1>1, <1>8 DEF FormatData
  <2> QED
    BY <1>3, <2>1 DEF Accounted
<1>9. ASSUME NEW p \in Processes, CreateInfo(p) PROVE Accounted'
  <2>1. /\ data' = data /\ pc[p] = "create"
        /\ \A q \in Processes \ {p} : pc'[q] = pc[q]
        /\ pc'[p] = "write" \/ info' = info
    BY <1>1, <1>9 DEF CreateInfo
  <2> QED
    BY <1>3, <2>1 DEF Accounted
<1>10. ASSUME NEW p \in Processes, WriteInfo(p) PROVE Accounted'
  <2>1. /\ data' = data /\ pc[p] = "write"
        /\ \A q \in Processes \ {p} : pc'[q] = pc[q]
        /\ info' = [build |-> build[p], settings |-> Chosen(p)]
    BY <1>1, <1>2, <1>10 DEF WriteInfo
  <2>2. info' \in Records
    BY <2>1, ChosenType DEF Records, Inv, TypeOK
  <2>3. info' # Empty
    BY <2>2, FilesAssumption
  <2> QED
    BY <1>3, <2>1, <2>3 DEF Accounted
<1>11. ASSUME NEW p \in Processes, Settle(p) PROVE Accounted'
  <2>1. /\ data' = data /\ pc[p] = "settle"
        /\ \A q \in Processes \ {p} : pc'[q] = pc[q]
    BY <1>1, <1>11 DEF Settle
  <2>2. CASE info' = info
    BY <1>4, <2>1, <2>2
  <2>3. CASE info # Empty /\ info' = [info EXCEPT !.settings = Chosen(p)]
    <3>1. info \in Records
      BY <2>1, <2>3 DEF Inv, TypeOK, FileStays
    <3>2. info' \in Records
      BY <2>3, <3>1, ChosenType DEF Records, Inv
    <3>3. info' # Empty
      BY <3>2, FilesAssumption
    <3> QED
      BY <1>3, <2>1, <3>3 DEF Accounted
  <2> QED
    BY <1>11, <2>2, <2>3 DEF Settle
<1>12. CASE UNCHANGED vars
  BY <1>3, <1>12 DEF vars, Accounted
<1> QED
  BY <1>5, <1>6, <1>7, <1>8, <1>9, <1>10, <1>11, <1>12, StepKinds

-----------------------------------------------------------------------------
(* In both histories, with any number of mishaps, an opening fails for one *)
(* of the four reasons only: in particular processes of one build that     *)
(* race fail of each other only over a file that one of them has made and  *)
(* is about to finish.                                                     *)
THEOREM Failures == Spec => FailureExplained
<1> DEFINE Explained(p) ==
      \/ ~paths[p]
      \/ mishaps' > mishaps
      \/ /\ Unfinished
         /\ \/ mishaps > 0
            \/ \E q \in Processes \ {p} : pc[q] \in {"write", "format"}
      \/ ~racing /\ info \in Records /\ info.build # build[p]
<1>1. ASSUME Inv, OneBuild, Accounted, Next, NEW p \in Processes,
             pc[p] # "failed", pc'[p] = "failed"
      PROVE  Explained(p)
  <2> USE DEF Inv, TypeOK, Goto
  <2>1. mishaps \in Nat
    BY <1>1, BoundAssumption
  <2>2. PICK q \in Processes :
          Acquire(q) \/ Construct(q) \/ Refused(q) \/ ReadSettings(q) \/ Exit(q)
    BY <1>1 DEF Next
  <2>3. q = p
    BY <1>1, <2>2 DEF Acquire, Construct, Exit, Present, MakeDir, LookForInfo,
       CreateInfo, WriteInfo, MapInfo, CheckHeader, Settle, SizeData, OpenData,
       FormatData, ArmTimer, Refused, ReadSettings
  <2>4. \/ CreateInfo(p) \/ MapInfo(p) \/ CheckHeader(p) \/ SizeData(p)
        \/ OpenData(p) \/ Refused(p)
    BY <1>1, <2>2, <2>3 DEF Acquire, Construct, Exit, Present, MakeDir,
       LookForInfo, WriteInfo, Settle, FormatData, ArmTimer, ReadSettings
  (* An unfinished file is accounted for, and not by who fails of it.      *)
  <2>5. ASSUME Unfinished, pc[p] \notin {"write", "format"} PROVE Explained(p)
    BY <1>1, <2>1, <2>5 DEF Unfinished, Accounted
  <2>6. CASE CreateInfo(p)
    BY <1>1, <2>6 DEF CreateInfo
  <2>7. CASE MapInfo(p)
    <3>1. pc[p] = "map" /\ Unfinished
      BY <1>1, <2>7 DEF MapInfo, Mappable, FileStays, Unfinished
    <3> QED
      BY <2>5, <3>1
  <2>8. CASE CheckHeader(p)
    <3>1. info \in Records
      BY <1>1, <2>8 DEF CheckHeader, FileStays
    <3>2. info.build.bits # build[p].bits \/ info.build.version # build[p].version
      BY <1>1, <2>8, <3>1, FilesAssumption DEF CheckHeader
    <3> QED
      BY <1>1, <3>1, <3>2 DEF OneBuild
  <2>9. CASE SizeData(p) \/ OpenData(p)
    <3>1. pc[p] \in {"memory", "data"} /\ Unfinished
      BY <1>1, <2>9 DEF SizeData, OpenData, Unfinished
    <3> QED
      BY <2>5, <3>1
  <2>10. CASE Refused(p)
    BY <2>1, <2>10 DEF Refused, Mishap
  <2> QED
    BY <2>4, <2>6, <2>7, <2>8, <2>9, <2>10
<1>2. Inv /\ OneBuild /\ Accounted /\ [Next]_vars =>
        [\A p \in Processes : pc[p] # "failed" /\ pc'[p] = "failed" =>
           \/ ~paths[p]
           \/ mishaps' > mishaps
           \/ /\ Unfinished
              /\ \/ mishaps > 0
                 \/ \E q \in Processes \ {p} : pc[q] \in {"write", "format"}
           \/ ~racing /\ info \in Records /\ info.build # build[p]]_vars
  BY <1>1
<1>3. Init => OneBuild /\ Accounted
  BY FilesAssumption DEF Init, OneBuild, Accounted
<1> QED
  BY <1>2, <1>3, InitInv, NextInv, OneBuildNext, AccountedNext, PTL
     DEF Spec, FailureExplained

(* While nobody races, no opening, however it ends and of whatever build,  *)
(* takes a whole information file from the builds that can open it.        *)
THEOREM WholeKept == Spec => WholeStaysWhole
<1>1. ASSUME Inv, BeforeWhole, Next, ~racing, info \in Records
      PROVE  info' \in Records /\ info'.build = info.build
  <2>1. PICK p \in Processes :
          Aside(p) \/ CreateInfo(p) \/ WriteInfo(p) \/ Settle(p) \/ Exit(p)
    BY <1>1, StepKinds
  <2>2. CASE info' = info
    BY <1>1, <2>2
  <2>3. CASE info' # info
    <3>1. CreateInfo(p) \/ WriteInfo(p) \/ Settle(p)
      BY <2>1, <2>3, AsideKeepsInfo DEF Exit, files
    <3>2. ~CreateInfo(p) /\ ~WriteInfo(p)
      BY <1>1, <2>3, FilesAssumption DEF CreateInfo, WriteInfo, BeforeWhole
    <3>3. info' = [info EXCEPT !.settings = Chosen(p)]
      BY <2>3, <3>1, <3>2 DEF Settle
    <3>4. Chosen(p) \in Settings
      BY <1>1, ChosenType DEF Inv
    <3> QED
      BY <1>1, <3>3, <3>4 DEF Records
  <2> QED
    BY <2>2, <2>3
<1>2. Inv /\ BeforeWhole /\ [Next]_vars =>
        [~racing /\ info \in Records =>
           info' \in Records /\ info'.build = info.build]_vars
  BY <1>1
<1>3. Init => BeforeWhole
  BY DEF Init, BeforeWhole
<1> QED
  BY <1>2, <1>3, InitInv, NextInv, BeforeWholeNext, PTL DEF Spec, WholeStaysWhole
=============================================================================
