--------------------------- MODULE RegistryProofs ---------------------------
(***************************************************************************)
(* For any number of clients, databases, instances and settings, and any   *)
(* hash: what is in use is alive, instances end with their last owner, and *)
(* what clients get that acquire a database only when no instance of it is *)
(* alive.                                                                  *)
(***************************************************************************)
EXTENDS Registry, TLAPS

(* Everything that somebody can reach is alive: pointers and the store     *)
(* keep instances directly, sessions through the instance's own store of   *)
(* them, and who is in a transaction has a session of the instance.        *)
Kept ==
    /\ store \subseteq Alive
    /\ kept \subseteq Alive
    /\ \A c \in Clients : /\ handles[c] \subseteq Alive
                          /\ sessions[c] \subseteq kept
                          /\ inside[c] # None => inside[c] \in sessions[c]

(* The lock of an instance is one client's.                                *)
OwnLock == \A c, d \in Clients : inside[c] # None /\ inside[c] = inside[d] => c = d

(* The store takes no second instance under an id that it has.             *)
IdsUnique == \A i, j \in store : IdOf[base[i]] = IdOf[base[j]] => i = j

(* For careful clients a database has one instance at a time, which has    *)
(* its own settings, and the whole file but for what it could not open     *)
(* again.                                                                  *)
Single ==
    careful =>
        /\ \A i, j \in Alive : base[i] = base[j] => i = j
        /\ torn \subseteq behind
        /\ \A i \in Alive : settings[base[i]] = given[i]

Inv == TypeOK /\ Kept /\ IdsUnique /\ OwnLock /\ Single

LEMMA InitInv == Init => Inv
BY RegistryAssumption DEF Init, Inv, TypeOK, Kept, IdsUnique, OwnLock, Single, Alive

(* A step that only takes holders away destroys no instance that is left   *)
(* with one, and changes no other.                                         *)
LEMMA CollectInv ==
  ASSUME Inv, Collect, store' \subseteq store,
         handles' \in [Clients -> SUBSET Instances],
         \A c \in Clients : handles'[c] \subseteq handles[c],
         UNCHANGED <<sessions, kept, inside, settings, answer, careful>>
  PROVE  Inv'
<1> USE RegistryAssumption DEF Inv
<1>1. /\ \A i \in Instances \ Unheld : base'[i] = base[i] /\ given'[i] = given[i]
      /\ \A i \in Unheld : base'[i] = None
      /\ Unheld \subseteq Instances
  BY DEF Collect, Unheld, Alive
<1>2. /\ Alive' = Alive \ Unheld
      /\ \A i \in Alive' : base'[i] = base[i] /\ given'[i] = given[i]
  BY <1>1 DEF Alive
<1>3. TypeOK'
  <2>1. base' \in [Instances -> Databases \cup {None}]
    BY DEF Collect, TypeOK
  <2>2. given' \in [Instances -> Settings \cup {None}]
    BY DEF Collect, TypeOK
  <2>3. torn' \subseteq Instances /\ behind' \subseteq Instances
    BY DEF Collect, Alive, TypeOK
  <2> QED
    BY <2>1, <2>2, <2>3 DEF TypeOK
<1>4. Kept'
  <2>1. store' \subseteq Alive' /\ kept' \subseteq Alive'
    BY <1>2 DEF Kept, Unheld
  <2>2. ASSUME NEW c \in Clients PROVE handles'[c] \subseteq Alive'
    BY <1>2 DEF Kept, Unheld
  <2> QED
    BY <2>1, <2>2 DEF Kept
<1>5. IdsUnique'
  <2>1. \A i \in store' : i \in store /\ base'[i] = base[i]
    BY <1>2, <1>4 DEF Kept
  <2> QED
    BY <2>1 DEF IdsUnique
<1>6. OwnLock'
  BY DEF OwnLock
<1>7. Single'
  <2>1. ASSUME careful, NEW i \in torn' PROVE i \in behind'
    BY <2>1 DEF Single, Collect, Unheld
  <2> QED
    BY <1>2, <2>1 DEF Single
<1> QED
  BY <1>3, <1>4, <1>5, <1>6, <1>7

LEMMA AcquireInv ==
  ASSUME Inv, NEW c \in Clients, NEW d \in Databases, NEW s \in Settings,
         Acquire(c, d, s)
  PROVE  Inv'
<1> USE RegistryAssumption DEF Inv
<1>1. UNCHANGED <<sessions, kept, inside, behind, careful>> /\ (careful => AliveOf(d) = {})
  BY DEF Acquire
<1>2. answer' \in {"none", "database", "null"}
  BY DEF Acquire, TypeOK
<1>3. CASE Found(d) # {}
  <2>1. PICK i \in store : handles' = [handles EXCEPT ![c] = @ \cup {i}]
    BY <1>3 DEF Acquire, Found
  <2>2. UNCHANGED <<base, store, torn, settings, given>> /\ Alive' = Alive
    BY <1>3 DEF Acquire, terms, Alive
  <2>3. TypeOK'
    BY <1>1, <1>2, <2>1, <2>2 DEF TypeOK
  <2>4. Kept'
    BY <1>1, <2>1, <2>2 DEF Kept, TypeOK
  <2> QED
    BY <1>1, <2>2, <2>3, <2>4 DEF IdsUnique, OwnLock, Single
<1>4. CASE Found(d) = {} /\ UNCHANGED <<base, store, handles, given>>
  <2>1. /\ torn' \in {torn, torn \cup AliveOf(d)}
        /\ settings' = [settings EXCEPT ![d] = s]
        /\ Alive' = Alive
    BY <1>4 DEF Acquire, Stored, Alive
  <2>2. TypeOK'
    BY <1>1, <1>2, <1>4, <2>1 DEF TypeOK, AliveOf, Alive
  <2>3. Single'
    <3>1. ASSUME careful, NEW i \in Alive
          PROVE  settings'[base[i]] = settings[base[i]]
      BY <1>1, <2>1, <3>1 DEF AliveOf, TypeOK
    <3> QED
      BY <1>1, <1>4, <2>1, <3>1 DEF Single
  <2> QED
    BY <1>1, <1>4, <2>1, <2>2, <2>3 DEF Kept, IdsUnique, OwnLock
<1>5. CASE Found(d) = {} /\ ~UNCHANGED <<base, store, handles, given>>
  <2> ~Refused(d)
    BY <1>5 DEF Acquire
  <2>1. PICK i \in Instances \ Alive :
          /\ base' = [base EXCEPT ![i] = d]
          /\ given' = [given EXCEPT ![i] = s]
          /\ store' = store \cup {i}
          /\ handles' = [handles EXCEPT ![c] = @ \cup {i}]
    BY <1>5 DEF Acquire
  <2>2. settings' = [settings EXCEPT ![d] = s] /\ torn' = torn
    BY <1>5 DEF Acquire, Stored
  <2>3. /\ Alive' = Alive \cup {i}
        /\ base'[i] = d /\ given'[i] = s
        /\ \A j \in Alive : j # i /\ base'[j] = base[j] /\ given'[j] = given[j]
    BY <2>1 DEF Alive, TypeOK
  <2>4. TypeOK'
    BY <1>1, <1>2, <2>1, <2>2 DEF TypeOK
  <2>5. Kept'
    BY <1>1, <2>1, <2>3 DEF Kept, TypeOK
  <2>6. IdsUnique'
    BY <1>5, <2>1, <2>3 DEF IdsUnique, Refused, Kept
  <2>7. Single'
    <3>1. ASSUME careful, NEW j \in Alive
          PROVE  base[j] # d /\ settings'[base[j]] = settings[base[j]]
      BY <1>1, <2>2, <3>1 DEF AliveOf, TypeOK, Alive
    <3>2. settings'[d] = s
      BY <2>2 DEF TypeOK
    <3> QED
      BY <1>1, <2>2, <2>3, <3>1, <3>2 DEF Single
  <2> QED
    BY <1>1, <2>4, <2>5, <2>6, <2>7 DEF OwnLock
<1> QED
  BY <1>3, <1>4, <1>5

LEMMA NextInv == Inv /\ [Next]_vars => Inv'
<1> SUFFICES ASSUME Inv, [Next]_vars PROVE Inv'
  OBVIOUS
<1> USE RegistryAssumption DEF Inv
<1>1. ASSUME NEW c \in Clients, NEW d \in Databases, NEW s \in Settings,
             Acquire(c, d, s)
      PROVE  Inv'
  BY <1>1, AcquireInv
<1>2. ASSUME NEW c \in Clients, NEW id \in Ids, AcquireById(c, id) PROVE Inv'
  <2>1. PICK i \in store : handles' = [handles EXCEPT ![c] = @ \cup {i}]
    BY <1>2 DEF AcquireById
  <2>2. /\ UNCHANGED <<base, store, sessions, kept, inside, mappings, terms, answer, careful>>
        /\ Alive' = Alive
    BY <1>2 DEF AcquireById, Alive
  <2> QED
    BY <2>1, <2>2 DEF mappings, terms, TypeOK, Kept, IdsUnique, OwnLock, Single
<1>3. ASSUME NEW id \in Ids, Release(id) PROVE Inv'
  <2>1. Collect /\ store' \subseteq store
    BY <1>3 DEF Release
  <2>2. handles' = handles /\ UNCHANGED <<sessions, kept, inside, settings, answer, careful>>
    BY <1>3 DEF Release
  <2> QED
    BY <2>1, <2>2, CollectInv DEF TypeOK
<1>4. ASSUME NEW c \in Clients, NEW i \in Instances, Drop(c, i) PROVE Inv'
  <2>1. Collect /\ store' = store /\ handles' = [handles EXCEPT ![c] = @ \ {i}]
    BY <1>4 DEF Drop
  <2>2. UNCHANGED <<sessions, kept, inside, settings, answer, careful>>
    BY <1>4 DEF Drop
  <2>3. /\ handles' \in [Clients -> SUBSET Instances]
        /\ \A b \in Clients : handles'[b] \subseteq handles[b]
    BY <2>1 DEF TypeOK
  <2> QED
    BY <2>1, <2>2, <2>3, CollectInv
<1>5. ASSUME NEW c \in Clients, NEW i \in Instances,
             CreateSession(c, i) \/ DropSession(c, i)
      PROVE  Inv'
  <2>1. /\ UNCHANGED <<base, store, handles, inside, mappings, terms, answer, careful>>
        /\ Alive' = Alive
    BY <1>5 DEF CreateSession, DropSession, Alive
  <2>2. /\ sessions' \in [Clients -> SUBSET Instances] /\ kept' \subseteq Instances
        /\ Kept'
    <3>1. CASE CreateSession(c, i)
      BY <2>1, <3>1 DEF CreateSession, Kept, TypeOK
    <3>2. CASE DropSession(c, i)
      BY <2>1, <3>2 DEF DropSession, Kept, TypeOK
    <3> QED
      BY <1>5, <3>1, <3>2
  <2> QED
    BY <2>1, <2>2 DEF mappings, terms, TypeOK, IdsUnique, OwnLock, Single
<1>6. ASSUME NEW c \in Clients, NEW i \in Instances, Begin(c, i) PROVE Inv'
  <2>1. /\ UNCHANGED <<base, store, held, mappings, terms, answer, careful>>
        /\ Alive' = Alive
        /\ inside' = [inside EXCEPT ![c] = i] /\ i \in sessions[c]
        /\ \A d \in Clients : inside[d] # i
    BY <1>6 DEF Begin, Alive
  <2>2. OwnLock'
    BY <2>1 DEF OwnLock, TypeOK
  <2> QED
    BY <2>1, <2>2 DEF held, mappings, terms, TypeOK, Kept, IdsUnique, Single
<1>7. ASSUME NEW c \in Clients, Grow(c) PROVE Inv'
  <2>1. /\ UNCHANGED <<base, store, held, inside, terms, answer, careful>>
        /\ Alive' = Alive
        /\ inside[c] \in Alive
    BY <1>7 DEF Grow, Alive, Kept
  <2>. PICK grown \in BOOLEAN, reopened \in BOOLEAN :
         /\ torn' = (torn \cup (IF grown THEN AliveOf(base[inside[c]]) ELSE {}))
                      \ (IF reopened THEN {inside[c]} ELSE {})
         /\ behind' = (behind \cup {inside[c]})
                        \ (IF reopened THEN {inside[c]} ELSE {})
    BY <1>7 DEF Grow
  <2>2. TypeOK'
    BY <2>1 DEF held, mappings, terms, TypeOK, AliveOf, Alive
  <2>3. careful => torn' \subseteq behind'
    BY <2>1 DEF Single, AliveOf
  <2> QED
    BY <2>1, <2>2, <2>3 DEF held, terms, Kept, IdsUnique, OwnLock, Single
<1>8. ASSUME NEW c \in Clients, KeepContext(c) PROVE Inv'
  <2>1. /\ UNCHANGED <<base, store, sessions, kept, inside, mappings, terms, answer, careful>>
        /\ Alive' = Alive
        /\ handles' = [handles EXCEPT ![c] = @ \cup {inside[c]}]
        /\ inside[c] \in Alive
    BY <1>8 DEF KeepContext, Alive, Kept
  <2>2. TypeOK'
    BY <2>1 DEF mappings, terms, TypeOK, Alive
  <2> QED
    BY <2>1, <2>2 DEF mappings, terms, TypeOK, Kept, IdsUnique, OwnLock, Single
<1>9. ASSUME NEW c \in Clients, End(c) PROVE Inv'
  <2>1. /\ UNCHANGED <<base, store, held, mappings, terms, answer, careful>>
        /\ Alive' = Alive
        /\ inside' = [inside EXCEPT ![c] = None]
    BY <1>9 DEF End, Alive
  <2> QED
    BY <2>1 DEF held, mappings, terms, TypeOK, Kept, IdsUnique, OwnLock, Single
<1>10. ASSUME UNCHANGED vars PROVE Inv'
  BY <1>10 DEF vars, TypeOK, Kept, IdsUnique, OwnLock, Single, Alive
<1> QED
  BY <1>1, <1>2, <1>3, <1>4, <1>5, <1>6, <1>7, <1>8, <1>9, <1>10 DEF Next

-----------------------------------------------------------------------------
(* Every variable keeps a value of its kind.                               *)
THEOREM TypeCorrect == Spec => []TypeOK
<1>1. Inv => TypeOK
  BY DEF Inv
<1> QED
  BY <1>1, InitInv, NextInv, PTL DEF Spec

(* Nobody's pointer, session, context or transaction outlives its instance. *)
THEOREM NothingUsedIsGone == Spec => []UsedIsAlive
<1>1. Inv => UsedIsAlive
  BY DEF Inv, Kept, UsedIsAlive
<1> QED
  BY <1>1, InitInv, NextInv, PTL DEF Spec

(* Clients that acquire a database only when no instance of it is alive    *)
(* never have two transactions on one file.                                *)
THEOREM CarefulExclusion == Spec => []CarefulClientsExclude
<1>1. Inv => CarefulClientsExclude
  <2> SUFFICES ASSUME Inv, careful, NEW c \in Clients, NEW d \in Clients,
                      inside[c] # None, inside[d] # None,
                      base[inside[c]] = base[inside[d]]
               PROVE  c = d
    BY DEF CarefulClientsExclude, OneTransactionPerDatabase
  <2>1. inside[c] \in Alive /\ inside[d] \in Alive
    BY DEF Inv, Kept
  <2>2. inside[c] = inside[d]
    BY <2>1 DEF Inv, Single
  <2> QED
    BY <2>2 DEF Inv, OwnLock
<1> QED
  BY <1>1, InitInv, NextInv, PTL DEF Spec

(* And whatever is acquired, used and released, their instances have the   *)
(* whole file mapped, unless their own growth could not be opened again.   *)
THEOREM CarefulMappings == Spec => []CarefulMappingsWhole
<1>1. Inv => CarefulMappingsWhole
  BY DEF Inv, Single, CarefulMappingsWhole
<1> QED
  BY <1>1, InitInv, NextInv, PTL DEF Spec

(* And their instances run with the settings they were acquired with.      *)
THEOREM CarefulSettings == Spec => []SettingsKept
<1>1. Inv => SettingsKept
  BY DEF Inv, Single, SettingsKept
<1> QED
  BY <1>1, InitInv, NextInv, PTL DEF Spec
-----------------------------------------------------------------------------
(* Ownership.  The other half of Kept: whatever is alive is held.          *)
NoOrphans == \A i \in Alive : OwnersOf(i) # {}

(* Nothing that is not alive has an owner, and what Collect takes is what  *)
(* has none left.                                                          *)
LEMMA OwnedIsAlive ==
  ASSUME Kept, NEW i \in Instances, OwnersOf(i) # {}
  PROVE  i \in Alive
BY DEF Kept, OwnersOf, Owners

LEMMA UnheldUnowned ==
  ASSUME Inv, kept' = kept
  PROVE  Unheld = {i \in Alive : OwnersOf(i)' = {}}
<1>1. ASSUME NEW i \in Alive
      PROVE  OwnersOf(i)' = {} <=> /\ i \notin store' \cup kept
                                   /\ \A c \in Clients : i \notin handles'[c]
  <2>1. OwnersOf(i)' = {h \in Owners : \/ h \in Clients /\ i \in handles'[h]
                                       \/ h = "store" /\ i \in store'
                                       \/ h = "sessions" /\ i \in kept'}
    BY DEF OwnersOf
  <2>2. \A c \in Clients : i \in handles'[c] => c \in OwnersOf(i)'
    BY <2>1 DEF Owners
  <2>3. /\ i \in store' => "store" \in OwnersOf(i)'
        /\ i \in kept' => "sessions" \in OwnersOf(i)'
    BY <2>1 DEF Owners
  <2> QED
    BY <2>1, <2>2, <2>3
<1> QED
  BY <1>1 DEF Unheld

(* The steps of Ownership, seen from the owners of each instance.          *)
LEMMA ShareStep ==
  ASSUME NEW i \in Alive, NEW h \in Owners, Alive' = Alive,
         \A j \in Instances :
           OwnersOf(j)' = IF j = i THEN OwnersOf(i) \cup {h} ELSE OwnersOf(j)
  PROVE  Shared!Next
<1>1. i \in Instances
  BY DEF Alive
<1>2. Shared!Share(i, h)
  BY <1>1 DEF Shared!Share
<1> QED
  BY <1>1, <1>2 DEF Shared!Next

LEMMA LetGoStep ==
  ASSUME Inv, NoOrphans, Collect, kept' = kept,
         NEW i \in Instances, NEW h \in OwnersOf(i),
         \A j \in Instances :
           OwnersOf(j)' = IF j = i THEN OwnersOf(i) \ {h} ELSE OwnersOf(j)
  PROVE  Shared!Next
<1>1. i \in Alive
  BY OwnedIsAlive DEF Inv
<1>2. Unheld = IF OwnersOf(i) = {h} THEN {i} ELSE {}
  BY <1>1, UnheldUnowned DEF NoOrphans, Alive
<1>3. Alive' = Alive \ Unheld
  BY RegistryAssumption DEF Collect, Alive, Unheld
<1>4. Shared!LetGo(i, h)
  BY <1>2, <1>3 DEF Shared!LetGo
<1>5. h \in Owners
  BY DEF OwnersOf
<1> QED
  BY <1>4, <1>5 DEF Shared!Next

LEMMA StutterStep ==
  ASSUME Alive' = Alive, \A j \in Instances : OwnersOf(j)' = OwnersOf(j)
  PROVE  UNCHANGED Shared!vars
BY DEF Shared!vars

(* A step that only takes holders away takes what has none left, and so    *)
(* leaves no orphans; any other adds holders, and an instance with them.   *)
LEMMA OrphansNext == Inv /\ Inv' /\ NoOrphans /\ [Next]_vars => NoOrphans'
<1> SUFFICES ASSUME Inv, Inv', NoOrphans, [Next]_vars PROVE NoOrphans'
  OBVIOUS
<1> USE DEF NoOrphans
<1>1. ASSUME Collect, kept' = kept PROVE NoOrphans'
  <2>1. Alive' = Alive \ Unheld
    BY <1>1, RegistryAssumption DEF Collect, Alive, Unheld
  <2> QED
    BY <1>1, <2>1, UnheldUnowned
<1>2. ASSUME Alive' = Alive, store' = store, kept \subseteq kept',
             \A c \in Clients : handles[c] \subseteq handles'[c]
      PROVE  NoOrphans'
  <2>1. ASSUME NEW i \in Alive PROVE OwnersOf(i) \subseteq OwnersOf(i)'
    BY <1>2 DEF OwnersOf, Owners
  <2> QED
    BY <1>2, <2>1
<1>3. ASSUME NEW c \in Clients, NEW i \in Instances,
             handles' = [handles EXCEPT ![c] = @ \cup {i}]
      PROVE  \A b \in Clients : handles[b] \subseteq handles'[b]
  BY <1>3 DEF Inv, TypeOK
<1>4. ASSUME NEW c \in Clients, NEW d \in Databases, NEW s \in Settings,
             Acquire(c, d, s)
      PROVE  NoOrphans'
  <2>1. CASE base' = base
    <3> \A i \in Instances \ Alive : base' # [base EXCEPT ![i] = d]
      BY <2>1, RegistryAssumption DEF Alive, Inv, TypeOK
    <3>1. Alive' = Alive /\ store' = store /\ kept' = kept
      BY <1>4, <2>1 DEF Acquire, Alive
    <3>2. handles' = handles \/ \E i \in Instances : handles' = [handles EXCEPT ![c] = @ \cup {i}]
      BY <1>4, <2>1 DEF Acquire, Found, Inv, TypeOK
    <3> QED
      BY <1>2, <1>3, <3>1, <3>2
  <2>2. CASE base' # base
    <3>1. PICK i \in Instances \ Alive : /\ base' = [base EXCEPT ![i] = d]
                                         /\ store' = store \cup {i}
                                         /\ handles' = [handles EXCEPT ![c] = @ \cup {i}]
      BY <1>4, <2>2 DEF Acquire
    <3>2. kept' = kept /\ Alive' \subseteq Alive \cup {i}
      BY <1>4, <3>1 DEF Acquire, Alive, Inv, TypeOK
    <3>3. "store" \in OwnersOf(i)'
      BY <3>1 DEF OwnersOf, Owners
    <3>4. ASSUME NEW j \in Alive PROVE OwnersOf(j) \subseteq OwnersOf(j)'
      BY <1>3, <3>1, <3>2 DEF OwnersOf, Owners
    <3> QED
      BY <3>2, <3>3, <3>4
  <2> QED
    BY <2>1, <2>2
<1>5. ASSUME NEW c \in Clients, NEW id \in Ids, AcquireById(c, id) PROVE NoOrphans'
  <2>1. Alive' = Alive /\ store' = store /\ kept' = kept
    BY <1>5 DEF AcquireById, Alive
  <2>2. \E i \in Instances : handles' = [handles EXCEPT ![c] = @ \cup {i}]
    BY <1>5 DEF AcquireById, Inv, TypeOK
  <2> QED
    BY <1>2, <1>3, <2>1, <2>2
<1>6. ASSUME NEW id \in Ids, Release(id) PROVE NoOrphans'
  BY <1>1, <1>6 DEF Release
<1>7. ASSUME NEW c \in Clients, NEW i \in Instances, Drop(c, i) PROVE NoOrphans'
  BY <1>1, <1>7 DEF Drop
<1>8. ASSUME NEW c \in Clients, NEW i \in Instances,
             CreateSession(c, i) \/ DropSession(c, i) \/ Begin(c, i)
      PROVE  NoOrphans'
  <2>1. Alive' = Alive /\ store' = store /\ handles' = handles /\ kept \subseteq kept'
    BY <1>8 DEF CreateSession, DropSession, Begin, held, Alive
  <2> QED
    BY <1>2, <2>1
<1>9. ASSUME NEW c \in Clients, KeepContext(c) PROVE NoOrphans'
  <2>1. Alive' = Alive /\ store' = store /\ kept' = kept
    BY <1>9 DEF KeepContext, Alive
  <2>2. \E i \in Instances : handles' = [handles EXCEPT ![c] = @ \cup {i}]
    BY <1>9 DEF KeepContext, Inv, TypeOK
  <2> QED
    BY <1>2, <1>3, <2>1, <2>2
<1>10. ASSUME UNCHANGED vars PROVE NoOrphans'
  BY <1>10 DEF vars, Alive, OwnersOf
<1>11. ASSUME NEW c \in Clients, Grow(c) \/ End(c) PROVE NoOrphans'
  <2>1. Alive' = Alive /\ store' = store /\ handles' = handles /\ kept' = kept
    BY <1>11 DEF Grow, End, held, Alive
  <2> QED
    BY <1>2, <2>1
<1> QED
  BY <1>4, <1>5, <1>6, <1>7, <1>8, <1>9, <1>10, <1>11 DEF Next
LEMMA OwnershipNext ==
  Inv /\ Inv' /\ NoOrphans /\ [Next]_vars => [Shared!Next]_(Shared!vars)
<1> SUFFICES ASSUME Inv, Inv', NoOrphans, [Next]_vars
             PROVE  [Shared!Next]_(Shared!vars)
  OBVIOUS
<1> DEFINE same == Alive' = Alive /\ store' = store /\ kept' = kept
<1>1. ASSUME NEW c \in Clients, NEW i \in Alive, same,
             handles' = [handles EXCEPT ![c] = @ \cup {i}]
      PROVE  Shared!Next
  <2>1. \A j \in Instances :
          OwnersOf(j)' = IF j = i THEN OwnersOf(i) \cup {c} ELSE OwnersOf(j)
    BY <1>1, RegistryAssumption DEF OwnersOf, Owners, Inv, TypeOK
  <2> QED
    BY <1>1, <2>1, ShareStep DEF Owners
<1>2. ASSUME same, handles' = handles PROVE UNCHANGED Shared!vars
  BY <1>2, StutterStep DEF OwnersOf
<1>3. ASSUME NEW c \in Clients, NEW d \in Databases, NEW s \in Settings,
             Acquire(c, d, s)
      PROVE  [Shared!Next]_(Shared!vars)
  <2>1. CASE Found(d) # {}
    <3>1. PICK i \in Alive : handles' = [handles EXCEPT ![c] = @ \cup {i}]
      BY <1>3, <2>1 DEF Acquire, Found, Inv, Kept
    <3>2. same
      BY <1>3, <2>1 DEF Acquire, Alive
    <3> QED
      BY <1>1, <3>1, <3>2
  <2>2. CASE Found(d) = {} /\ UNCHANGED <<base, store, handles, given>>
    BY <1>2, <1>3, <2>2 DEF Acquire, Alive
  <2>3. CASE Found(d) = {} /\ ~UNCHANGED <<base, store, handles, given>>
    <3>1. PICK i \in Instances \ Alive :
            /\ base' = [base EXCEPT ![i] = d]
            /\ store' = store \cup {i}
            /\ handles' = [handles EXCEPT ![c] = @ \cup {i}]
      BY <1>3, <2>3 DEF Acquire
    <3>2. kept' = kept /\ Alive' = Alive \cup {i}
      BY <1>3, <3>1, RegistryAssumption DEF Acquire, Alive, Inv, TypeOK
    <3>3. i \notin kept
      BY DEF Inv, Kept
    <3>4. \A b \in Clients : i \notin handles[b]
      BY DEF Inv, Kept
    <3>5. OwnersOf(i)' = {"store", c}
      BY <3>1, <3>2, <3>3, <3>4, RegistryAssumption DEF OwnersOf, Owners, Inv, TypeOK
    <3>6. \A j \in Instances \ {i} : OwnersOf(j)' = OwnersOf(j)
      BY <3>1, <3>2 DEF OwnersOf, Inv, TypeOK
    <3>7. Shared!Create(i, "store", c)
      BY <3>2, <3>5, <3>6 DEF Shared!Create
    <3> QED
      BY <3>7 DEF Shared!Next, Owners
  <2> QED
    BY <2>1, <2>2, <2>3
<1>4. ASSUME NEW c \in Clients, NEW id \in Ids, AcquireById(c, id)
      PROVE  Shared!Next
  <2>1. PICK i \in Alive : handles' = [handles EXCEPT ![c] = @ \cup {i}]
    BY <1>4 DEF AcquireById, Inv, Kept
  <2> QED
    BY <1>1, <1>4, <2>1 DEF AcquireById, Alive
<1>5. ASSUME NEW id \in Ids, Release(id) PROVE [Shared!Next]_(Shared!vars)
  <2>1. /\ Collect /\ kept' = kept /\ handles' = handles
        /\ store' = {i \in store : IdOf[base[i]] # id}
    BY <1>5 DEF Release
  <2>2. CASE store' = store
    <3>1. \A i \in Instances : OwnersOf(i)' = OwnersOf(i)
      BY <2>1, <2>2 DEF OwnersOf
    <3>2. Unheld = {}
      BY <2>1, <3>1, UnheldUnowned DEF NoOrphans, Alive
    <3>3. Alive' = Alive
      BY <2>1, <3>2, RegistryAssumption DEF Collect, Alive
    <3> QED
      BY <3>1, <3>3, StutterStep
  <2>3. CASE store' # store
    <3>1. PICK i \in store : IdOf[base[i]] = id
      BY <2>1, <2>3
    <3>2. store' = store \ {i} /\ i \in Instances
      BY <2>1, <3>1 DEF Inv, IdsUnique, TypeOK
    <3>3. "store" \in OwnersOf(i)
      BY <3>1 DEF OwnersOf, Owners
    <3>4. \A j \in Instances :
            OwnersOf(j)' = IF j = i THEN OwnersOf(i) \ {"store"} ELSE OwnersOf(j)
      BY <2>1, <3>2, RegistryAssumption DEF OwnersOf, Owners
    <3> QED
      BY <2>1, <3>2, <3>3, <3>4, LetGoStep
  <2> QED
    BY <2>2, <2>3
<1>6. ASSUME NEW c \in Clients, NEW i \in Instances, Drop(c, i) PROVE Shared!Next
  <2>1. /\ Collect /\ kept' = kept /\ store' = store /\ i \in handles[c]
        /\ handles' = [handles EXCEPT ![c] = @ \ {i}]
    BY <1>6 DEF Drop
  <2>2. c \in OwnersOf(i)
    BY <2>1, RegistryAssumption DEF OwnersOf, Owners
  <2>3. \A j \in Instances :
          OwnersOf(j)' = IF j = i THEN OwnersOf(i) \ {c} ELSE OwnersOf(j)
    BY <2>1, RegistryAssumption DEF OwnersOf, Owners, Inv, TypeOK
  <2> QED
    BY <2>1, <2>2, <2>3, LetGoStep
<1>7. ASSUME NEW c \in Clients, NEW i \in Instances, CreateSession(c, i)
      PROVE  Shared!Next
  <2>1. /\ kept' = kept \cup {i} /\ UNCHANGED <<store, handles>> /\ Alive' = Alive
        /\ i \in Alive
    BY <1>7 DEF CreateSession, Alive, Inv, Kept
  <2>2. \A j \in Instances :
          OwnersOf(j)' = IF j = i THEN OwnersOf(i) \cup {"sessions"} ELSE OwnersOf(j)
    BY <2>1, RegistryAssumption DEF OwnersOf, Owners
  <2> QED
    BY <2>1, <2>2, ShareStep DEF Owners
<1>8. ASSUME NEW c \in Clients, KeepContext(c) PROVE Shared!Next
  <2>1. inside[c] \in Alive
    BY <1>8 DEF KeepContext, Inv, Kept
  <2> QED
    BY <1>1, <1>8, <2>1 DEF KeepContext, Alive
<1>9. ASSUME NEW c \in Clients, NEW i \in Instances, DropSession(c, i) \/ Begin(c, i)
      PROVE  UNCHANGED Shared!vars
  BY <1>2, <1>9 DEF DropSession, Begin, held, Alive
<1>10. ASSUME NEW c \in Clients, Grow(c) \/ End(c) PROVE UNCHANGED Shared!vars
  BY <1>2, <1>10 DEF Grow, End, held, Alive
<1>11. ASSUME UNCHANGED vars PROVE UNCHANGED Shared!vars
  BY <1>2, <1>11 DEF vars, Alive
<1> QED
  BY <1>3, <1>4, <1>5, <1>6, <1>7, <1>8, <1>9, <1>10, <1>11 DEF Next

(* For any number of clients and instances, and any hash: an instance is   *)
(* alive exactly while the store, a client, or a session of its own holds  *)
(* it, and no step lets two go, whatever ids the hashes share.             *)
THEOREM InstancesShared == Spec => ImplementsOwnership
<1>1. Init => NoOrphans /\ Shared!Init
  BY RegistryAssumption DEF Init, NoOrphans, Alive, OwnersOf, Owners, Shared!Init
<1> QED
  BY <1>1, InitInv, NextInv, OrphansNext, OwnershipNext, PTL
     DEF Spec, ImplementsOwnership, Shared!Spec
=============================================================================
