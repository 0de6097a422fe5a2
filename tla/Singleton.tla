----------------------------- MODULE Singleton ------------------------------
(***************************************************************************)
(* Details::Singleton, of which the Manager is the only instance: threads  *)
(* ask for the instance, which is made when it is first asked for, with a  *)
(* test of the pointer before and after taking the mutex; others kill it.  *)
(*                                                                         *)
(* The pointer is read without the mutex while it may be written under it, *)
(* which is a data race.  What it can do in a build is that a reader sees  *)
(* the pointer before what the constructor stored: the two stores of the   *)
(* making thread take effect in either order.                              *)
(***************************************************************************)
CONSTANTS
    Threads,      \* threads that use the library
    Objects,      \* places where a manager can be allocated
    Null          \* the null pointer

ASSUME SingletonAssumption == Null \notin Objects \cup Threads

VARIABLES
    instance,     \* m_Instance
    owner,        \* who holds m_Access
    whole,        \* the managers whose constructor can be seen to be done
    made,         \* the manager a thread has allocated and not yet published
    pc,           \* how far each thread is in Instance or KillInstance
    got,          \* the manager that Instance returned to a thread
    crashed,      \* a null pointer was dereferenced
    inOrder,      \* the two stores take effect in program order, ...
    killing       \* ... threads kill the instance: two assumptions on the
                  \* build and on the clients, that never change

assumed == <<inOrder, killing>>
vars == <<instance, owner, whole, made, pc, got, crashed, inOrder, killing>>

Places == {"idle", "lock", "retest", "make", "construct", "unlock", "read",
           "killlock", "reset", "killunlock"}

Goto(t, place) == pc' = [pc EXCEPT ![t] = place]

(* The managers that have been allocated and not deleted.                  *)
Existing == ({instance} \cup {made[t] : t \in Threads}) \ {Null}

Init ==
    /\ instance = Null /\ owner = Null /\ whole = {}
    /\ made = [t \in Threads |-> Null]
    /\ pc = [t \in Threads |-> "idle"]
    /\ got = [t \in Threads |-> Null]
    /\ crashed = FALSE
    /\ inOrder \in BOOLEAN /\ killing \in BOOLEAN

-----------------------------------------------------------------------------
(* Instance is called: the first test.                                     *)
Ask(t) ==
    /\ pc[t] = "idle"
    /\ got' = [got EXCEPT ![t] = Null]
    /\ Goto(t, IF instance = Null THEN "lock" ELSE "read")
    /\ UNCHANGED <<instance, owner, whole, made, crashed, assumed>>

Lock(t) ==
    /\ pc[t] \in {"lock", "killlock"} /\ owner = Null
    /\ owner' = t
    /\ Goto(t, IF pc[t] = "lock" THEN "retest" ELSE "reset")
    /\ UNCHANGED <<instance, whole, made, got, crashed, assumed>>

(* Variant of Retest: there is no second test.                             *)
NoRetest(t) ==
    /\ pc[t] = "retest"
    /\ Goto(t, "make")
    /\ UNCHANGED <<instance, owner, whole, made, got, crashed, assumed>>

Retest(t) ==
    /\ pc[t] = "retest"
    /\ Goto(t, IF instance = Null THEN "make" ELSE "unlock")
    /\ UNCHANGED <<instance, owner, whole, made, got, crashed, assumed>>

(* new tInstance: memory is allocated, at a place that is free.            *)
Allocate(t) ==
    /\ pc[t] = "make"
    /\ \E m \in Objects \ Existing : made' = [made EXCEPT ![t] = m]
    /\ Goto(t, "construct")
    /\ UNCHANGED <<instance, owner, whole, got, crashed, assumed>>

(* Variant of Publish: the pointer is set first even in a build that keeps *)
(* the order.                                                              *)
PublishFirst(t) ==
    /\ pc[t] = "construct" /\ made[t] # Null
    /\ instance' = made[t]
    /\ made' = [made EXCEPT ![t] = Null]
    /\ Goto(t, IF instance' \in whole THEN "unlock" ELSE "construct")
    /\ UNCHANGED <<owner, whole, got, crashed, assumed>>

(* m_Instance.reset sets the pointer: after the constructor, or before it  *)
(* where the build lets the stores change places.                          *)
Publish(t) ==
    /\ pc[t] = "construct" /\ made[t] # Null
    /\ inOrder => made[t] \in whole
    /\ instance' = made[t]
    /\ made' = [made EXCEPT ![t] = Null]
    /\ Goto(t, IF instance' \in whole THEN "unlock" ELSE "construct")
    /\ UNCHANGED <<owner, whole, got, crashed, assumed>>

(* Variant of Construct: the manager is constructed through the pointer     *)
(* that m_Instance.reset has taken over.                                   *)
ConstructMade(t) ==
    /\ pc[t] = "construct"
    /\ made[t] \notin whole /\ whole' = whole \cup {made[t]}
    /\ Goto(t, IF made[t] = Null THEN "unlock" ELSE "construct")
    /\ UNCHANGED <<instance, owner, made, got, crashed, assumed>>

(* The stores of the constructor of the Manager, an empty one.             *)
Construct(t) ==
    /\ pc[t] = "construct"
    /\ LET m == IF made[t] = Null THEN instance ELSE made[t]
       IN  m \notin whole /\ whole' = whole \cup {m}
    /\ Goto(t, IF made[t] = Null THEN "unlock" ELSE "construct")
    /\ UNCHANGED <<instance, owner, made, got, crashed, assumed>>

Unlock(t) ==
    /\ pc[t] \in {"unlock", "killunlock"}
    /\ owner' = Null
    /\ Goto(t, IF pc[t] = "unlock" THEN "read" ELSE "idle")
    /\ UNCHANGED <<instance, whole, made, got, crashed, assumed>>

(* return *m_Instance: the pointer is read once more, without the mutex.   *)
Return(t) ==
    /\ pc[t] = "read"
    /\ got' = [got EXCEPT ![t] = instance]
    /\ crashed' = (instance = Null)
    /\ Goto(t, "idle")
    /\ UNCHANGED <<instance, owner, whole, made, assumed>>

-----------------------------------------------------------------------------
Kill(t) ==
    /\ killing /\ pc[t] = "idle"
    /\ got' = [got EXCEPT ![t] = Null]
    /\ Goto(t, "killlock")
    /\ UNCHANGED <<instance, owner, whole, made, crashed, assumed>>

(* m_Instance.reset(): the pointer is null and what it pointed to deleted. *)
Reset(t) ==
    /\ pc[t] = "reset"
    /\ instance' = Null
    /\ whole' = whole \ {instance}
    /\ Goto(t, "killunlock")
    /\ UNCHANGED <<owner, made, got, crashed, assumed>>

Next ==
    /\ ~crashed
    /\ \E t \in Threads :
         \/ Ask(t) \/ Lock(t) \/ Retest(t) \/ Allocate(t) \/ Construct(t)
         \/ Publish(t) \/ Unlock(t) \/ Return(t) \/ Kill(t) \/ Reset(t)

Spec == Init /\ [][Next]_vars

-----------------------------------------------------------------------------
TypeOK ==
    /\ instance \in Objects \cup {Null}
    /\ owner \in Threads \cup {Null}
    /\ whole \subseteq Objects
    /\ made \in [Threads -> Objects \cup {Null}]
    /\ pc \in [Threads -> Places]
    /\ got \in [Threads -> Objects \cup {Null}]
    /\ crashed \in BOOLEAN /\ inOrder \in BOOLEAN /\ killing \in BOOLEAN

(* However many threads find no instance at the same time, and however it  *)
(* is killed in between, two managers, with a store and a mutex each,      *)
(* never exist together.                                                   *)
OneManager == \A m, n \in Existing : m = n

(* If nobody kills the instance, the test without the mutex finds the one  *)
(* manager.  It finds it half made at most in a build that lets the stores *)
(* change places, and at most while another thread is in the constructor.  *)
GotTheManager ==
    ~killing =>
        /\ ~crashed
        /\ \A t \in Threads : got[t] # Null =>
             /\ got[t] = instance
             /\ \/ got[t] \in whole
                \/ ~inOrder /\ \E u \in Threads \ {t} : owner = u /\ pc[u] = "construct"

=============================================================================
