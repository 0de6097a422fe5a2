-------------------------------- MODULE Locks -------------------------------
(***************************************************************************)
(* The locks of the library together: each instance has its transaction    *)
(* lock, a recursive mutex (DataBase has what happens under it), and the   *)
(* Manager has m_Access, a mutex that is not recursive (Registry has what  *)
(* happens under that).  A transaction procedure may call the library      *)
(* again: it may run a transaction on the same or on another database, or  *)
(* acquire and release databases.  The timer's handler is a thread that    *)
(* takes the lock of its instance and nothing else.                        *)
(***************************************************************************)
EXTENDS Naturals, Sequences

CONSTANTS
    Threads,      \* client threads and the timers' workers
    Instances,    \* database instances
    Access,       \* Manager::m_Access
    Nothing,      \* what a thread that does not wait waits for
    Rank,         \* an order of the databases that clients may keep to
    MaxRank,
    MaxDepth      \* bound: calls of the library that a thread has open

ASSUME LocksAssumption ==
    /\ Access \notin Instances
    /\ Nothing \notin Instances \cup {Access}
    /\ MaxRank \in Nat
    /\ Rank \in [Instances -> 0..MaxRank]
    /\ MaxDepth \in Nat

VARIABLES
    calls,        \* the locks of the calls each thread has open, in order
    waits,        \* the lock each thread waits for, or Nothing
    ordered       \* whether transactions are nested in the order of Rank
                  \* only; never changes

vars == <<calls, waits, ordered>>

Mutexes == Instances \cup {Access}

HeldBy(t) == {calls[t][n] : n \in 1..Len(calls[t])}
Holds(t, l) == l \in HeldBy(t)

(* The Manager's operations call no client code and run no transaction:    *)
(* read from the constructors and destructors that they run, which are not *)
(* in this module.                                                         *)
InManager(t) == Holds(t, Access)

Init ==
    /\ calls = [t \in Threads |-> <<>>]
    /\ waits = [t \in Threads |-> Nothing]
    /\ ordered \in BOOLEAN

(* Whether a thread is at a place where client code runs and may call.     *)
Free(t) == waits[t] = Nothing /\ ~InManager(t) /\ Len(calls[t]) < MaxDepth

InOrder(t, i) == Holds(t, i) \/ \A k \in HeldBy(t) : Rank[k] < Rank[i]

(* Variant of Transaction: a Manager operation waits for the transactions  *)
(* of the database it is about, under m_Access.                            *)
TransactionAnywhere(t, i) ==
    /\ waits[t] = Nothing /\ Len(calls[t]) < MaxDepth
    /\ ordered => \A k \in HeldBy(t) \ {Access} : Rank[k] < Rank[i]
    /\ waits' = [waits EXCEPT ![t] = i]
    /\ UNCHANGED <<calls, ordered>>

(* Session::Transaction asks for the lock of its instance.                 *)
Transaction(t, i) ==
    /\ Free(t)
    /\ ordered => InOrder(t, i)
    /\ waits' = [waits EXCEPT ![t] = i]
    /\ UNCHANGED <<calls, ordered>>

(* An operation of the Manager asks for m_Access.                          *)
Operate(t) ==
    /\ Free(t)
    /\ waits' = [waits EXCEPT ![t] = Access]
    /\ UNCHANGED <<calls, ordered>>

(* Who keeps a thread waiting.  The locks of instances are recursive.      *)
Blocks(u, t) ==
    /\ waits[t] # Nothing /\ Holds(u, waits[t])
    /\ u # t \/ waits[t] = Access

(* Variant of Grant: the lock is asked for again when it has been given.   *)
GrantTwice(t) ==
    /\ waits[t] # Nothing
    /\ \A u \in Threads : ~Blocks(u, t)
    /\ calls' = [calls EXCEPT ![t] = Append(@, waits[t])]
    /\ UNCHANGED <<waits, ordered>>

(* lock() returns.                                                         *)
Grant(t) ==
    /\ waits[t] # Nothing
    /\ \A u \in Threads : ~Blocks(u, t)
    /\ calls' = [calls EXCEPT ![t] = Append(@, waits[t])]
    /\ waits' = [waits EXCEPT ![t] = Nothing]
    /\ UNCHANGED ordered

(* The innermost call of a thread ends and lets its lock go.               *)
Done(t) ==
    /\ waits[t] = Nothing
    /\ calls[t] # <<>>
    /\ calls' = [calls EXCEPT ![t] = SubSeq(@, 1, Len(@) - 1)]
    /\ UNCHANGED <<waits, ordered>>

Next ==
    \E t \in Threads :
        \/ \E i \in Instances : Transaction(t, i)
        \/ Operate(t) \/ Grant(t) \/ Done(t)

Spec == Init /\ [][Next]_vars

-----------------------------------------------------------------------------
TypeOK ==
    /\ calls \in [Threads -> Seq(Mutexes)]
    /\ \A t \in Threads :
         Len(calls[t]) + (IF waits[t] = Nothing THEN 0 ELSE 1) <= MaxDepth
    /\ waits \in [Threads -> Mutexes \cup {Nothing}]
    /\ ordered \in BOOLEAN

(* If the clients nest transactions in some order of the databases, no     *)
(* threads wait for each other in a circle, m_Access included: procedures  *)
(* may use the Manager at any depth.                                       *)
NoCircle ==
    ordered => \A S \in (SUBSET Threads) \ {{}} :
        \E t \in S : \A u \in S : ~Blocks(u, t)

=============================================================================
