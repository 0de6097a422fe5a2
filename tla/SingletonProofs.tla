--------------------------- MODULE SingletonProofs --------------------------
(***************************************************************************)
(* That there is one Manager, for any number of threads, however they ask  *)
(* for it and kill it, and that where nobody kills it everyone is handed   *)
(* that one, whole unless the build lets the stores change places.         *)
(***************************************************************************)
EXTENDS Singleton, TLAPS

Inside == {"retest", "make", "construct", "unlock", "reset", "killunlock"}

(* The mutex is held exactly from lock to unlock.                          *)
Locked == \A t \in Threads : pc[t] \in Inside <=> owner = t

(* Who holds the mutex knows whether there is an instance: from the second *)
(* test until it publishes there is none but the one it makes.             *)
Making ==
    \A t \in Threads :
        /\ pc[t] = "make" => instance = Null
        /\ made[t] # Null => pc[t] = "construct" /\ instance = Null
        /\ pc[t] = "construct" /\ made[t] = Null => instance # Null

Inv == TypeOK /\ Locked /\ Making

LEMMA InitInv == Init => Inv
BY SingletonAssumption
   DEF Init, Inv, TypeOK, Places, Locked, Inside, Making

LEMMA NextInv == Inv /\ [Next]_vars => Inv'
<1> SUFFICES ASSUME Inv, [Next]_vars PROVE Inv'
  OBVIOUS
<1> USE SingletonAssumption
    DEF Inv, TypeOK, Places, Locked, Inside, Making, Goto, assumed, Existing
<1>1. ASSUME NEW t \in Threads, Ask(t) PROVE Inv'
  BY <1>1 DEF Ask
<1>2. ASSUME NEW t \in Threads, Lock(t) PROVE Inv'
  BY <1>2 DEF Lock
<1>3. ASSUME NEW t \in Threads, Retest(t) PROVE Inv'
  BY <1>3 DEF Retest
<1>4. ASSUME NEW t \in Threads, Allocate(t) PROVE Inv'
  BY <1>4 DEF Allocate
<1>5. ASSUME NEW t \in Threads, Construct(t) PROVE Inv'
  BY <1>5 DEF Construct
<1>6. ASSUME NEW t \in Threads, Publish(t) PROVE Inv'
  BY <1>6 DEF Publish
<1>7. ASSUME NEW t \in Threads, Unlock(t) PROVE Inv'
  BY <1>7 DEF Unlock
<1>8. ASSUME NEW t \in Threads, Return(t) PROVE Inv'
  BY <1>8 DEF Return
<1>9. ASSUME NEW t \in Threads, Kill(t) PROVE Inv'
  BY <1>9 DEF Kill
<1>10. ASSUME NEW t \in Threads, Reset(t) PROVE Inv'
  BY <1>10 DEF Reset
<1>11. CASE UNCHANGED vars
  BY <1>11 DEF vars
<1> QED
  BY <1>1, <1>2, <1>3, <1>4, <1>5, <1>6, <1>7, <1>8, <1>9, <1>10, <1>11 DEF Next

(* Every variable keeps a value of its kind.                               *)
THEOREM TypeCorrect == Spec => []TypeOK
<1>1. Inv => TypeOK
  BY DEF Inv
<1> QED
  BY <1>1, InitInv, NextInv, PTL DEF Spec

(* Two managers never exist together: the second test, under the mutex,    *)
(* is what all threads that found no instance have to pass.                *)
THEOREM OneAtATime == Spec => []OneManager
<1>1. Inv => OneManager
  <2> SUFFICES ASSUME Inv, NEW m \in Existing, NEW n \in Existing PROVE m = n
    BY DEF OneManager
  <2>1. \A t, u \in Threads : made[t] # Null /\ made[u] # Null => t = u
    BY DEF Inv, Locked, Making, Inside
  <2> QED
    BY <2>1 DEF Inv, Making, Existing
<1> QED
  BY <1>1, InitInv, NextInv, PTL DEF Spec

-----------------------------------------------------------------------------
(* What the first test may rely on where nobody kills the instance: the    *)
(* pointer is not null again, and what it points to is whole, or is being  *)
(* constructed by the holder of the mutex after the pointer was set.       *)
BeingMade == \E u \in Threads : pc[u] = "construct" /\ made[u] = Null

Kept ==
    ~killing =>
        /\ ~crashed
        /\ instance # Null => instance \in whole \/ (~inOrder /\ BeingMade)
        /\ \A t \in Threads :
              /\ pc[t] \notin {"killlock", "reset", "killunlock"}
              /\ pc[t] \in {"unlock", "read"} => instance # Null
              /\ pc[t] # "idle" => got[t] = Null
              /\ got[t] # Null => got[t] = instance

LEMMA KeptNext == Inv /\ Kept /\ [Next]_vars => Kept'
<1> SUFFICES ASSUME Inv, Kept, [Next]_vars PROVE Kept'
  OBVIOUS
<1> USE SingletonAssumption
    DEF Inv, TypeOK, Places, Locked, Inside, Making, Goto, assumed, Kept, BeingMade
<1>1. ASSUME NEW t \in Threads, Ask(t) PROVE Kept'
  BY <1>1 DEF Ask
<1>2. ASSUME NEW t \in Threads, Lock(t) PROVE Kept'
  BY <1>2 DEF Lock
<1>3. ASSUME NEW t \in Threads, Retest(t) PROVE Kept'
  BY <1>3 DEF Retest
<1>4. ASSUME NEW t \in Threads, Allocate(t) PROVE Kept'
  BY <1>4 DEF Allocate
<1>5. ASSUME NEW t \in Threads, Construct(t) PROVE Kept'
  BY <1>5 DEF Construct
<1>6. ASSUME NEW t \in Threads, Publish(t) PROVE Kept'
  BY <1>6 DEF Publish
<1>7. ASSUME NEW t \in Threads, Unlock(t) PROVE Kept'
  BY <1>7 DEF Unlock
<1>8. ASSUME NEW t \in Threads, Return(t) PROVE Kept'
  BY <1>8 DEF Return
<1>9. ASSUME NEW t \in Threads, Kill(t) PROVE Kept'
  BY <1>9 DEF Kill
<1>10. ASSUME NEW t \in Threads, Reset(t) PROVE Kept'
  BY <1>10 DEF Reset
<1>11. CASE UNCHANGED vars
  BY <1>11 DEF vars
<1> QED
  BY <1>1, <1>2, <1>3, <1>4, <1>5, <1>6, <1>7, <1>8, <1>9, <1>10, <1>11 DEF Next

(* Where nobody kills the instance, everyone who called Instance has the   *)
(* one manager, in whichever order the two stores take effect: constructed *)
(* if they keep their order, and at the worst still in the hands of the    *)
(* thread that makes it if they do not.                                    *)
THEOREM DoubleCheckSound == Spec => []GotTheManager
<1>1. Init => Kept
  BY DEF Init, Kept
<1>2. Inv /\ Kept => GotTheManager
  <2> SUFFICES ASSUME Inv, Kept, ~killing, NEW t \in Threads, got[t] # Null
               PROVE  /\ got[t] = instance
                      /\ \/ got[t] \in whole
                         \/ /\ ~inOrder
                            /\ \E u \in Threads \ {t} : owner = u /\ pc[u] = "construct"
    BY DEF Kept, GotTheManager
  <2>1. got[t] = instance /\ pc[t] = "idle"
    BY DEF Kept
  <2>2. \A u \in Threads : pc[u] = "construct" => owner = u /\ u # t
    BY <2>1 DEF Inv, Locked, Inside
  <2> QED
    BY <2>1, <2>2 DEF Kept, BeingMade
<1> QED
  BY <1>1, <1>2, InitInv, NextInv, KeptNext, PTL DEF Spec

=============================================================================
