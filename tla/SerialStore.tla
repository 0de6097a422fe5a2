---------------------------- MODULE SerialStore -----------------------------
(***************************************************************************)
(* What a database instance promises about its data and its backup: the    *)
(* actors take turns; the one whose turn it is first works on the data and *)
(* then closes its turn; a snapshot is taken only while a turn closes, so  *)
(* that it shows the data as a whole transaction, or a crash, left them.   *)
(***************************************************************************)
CONSTANTS
    Actors,      \* who takes turns
    Nobody,      \* the holder when it is nobody's turn
    Contents,    \* the values of the data
    Snapshots,   \* what the snapshot may be found to be at first
    Spoiled      \* a snapshot that was not taken properly

VARIABLES
    holder,      \* whose turn it is
    phase,       \* "open" between turns, then "working", then "closing"
    content,     \* the data
    snapshot     \* the last snapshot of them

vars == <<holder, phase, content, snapshot>>

Init ==
    /\ holder = Nobody
    /\ phase = "open"
    /\ content \in Contents
    /\ snapshot \in Snapshots

(* A turn begins; one that has nothing to do closes at once.               *)
Enter(p) ==
    /\ holder = Nobody
    /\ holder' = p
    /\ phase' \in {"working", "closing"}
    /\ UNCHANGED <<content, snapshot>>

Update(p) ==
    /\ holder = p /\ phase = "working"
    /\ content' \in Contents
    /\ UNCHANGED <<holder, phase, snapshot>>

Close(p) ==
    /\ holder = p /\ phase = "working"
    /\ phase' = "closing"
    /\ UNCHANGED <<holder, content, snapshot>>

Save(p) ==
    /\ holder = p /\ phase = "closing"
    /\ snapshot' \in {content, Spoiled}
    /\ UNCHANGED <<holder, phase, content>>

Leave(p) ==
    /\ holder = p /\ phase = "closing"
    /\ holder' = Nobody
    /\ phase' = "open"
    /\ UNCHANGED <<content, snapshot>>

(* Whoever has the turn is lost, with a snapshot that was being taken.     *)
Crash ==
    /\ holder' = Nobody
    /\ phase' = "open"
    /\ snapshot' \in {snapshot} \cup IF phase = "closing" THEN {Spoiled} ELSE {}
    /\ UNCHANGED content

Next ==
    \/ \E p \in Actors : Enter(p) \/ Update(p) \/ Close(p) \/ Save(p) \/ Leave(p)
    \/ Crash

Spec == Init /\ [][Next]_vars
=============================================================================
