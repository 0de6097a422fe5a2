------------------------------ MODULE Ownership ------------------------------
(***************************************************************************)
(* What shared pointers promise of the objects they point to: an object is *)
(* made with somebody who owns it, gets further owners only while it lives, *)
(* and ends in the very step in which its last owner lets it go, one owner *)
(* of one object at a time.                                                *)
(***************************************************************************)
CONSTANTS
    Objects,     \* what is owned
    Owners       \* who may own them

VARIABLES
    live,        \* the objects that have been made and have not ended
    owned        \* the owners of each object

vars == <<live, owned>>

Init ==
    /\ live = {}
    /\ owned = [o \in Objects |-> {}]

(* Its first owners are who made it and who asked for it.                  *)
Create(o, h, k) ==
    /\ o \notin live
    /\ live' = live \cup {o}
    /\ owned' = [owned EXCEPT ![o] = {h, k}]

Share(o, h) ==
    /\ o \in live
    /\ owned' = [owned EXCEPT ![o] = @ \cup {h}]
    /\ UNCHANGED live

LetGo(o, h) ==
    /\ h \in owned[o]
    /\ owned' = [owned EXCEPT ![o] = @ \ {h}]
    /\ live' = IF owned[o] = {h} THEN live \ {o} ELSE live

Next ==
    \E o \in Objects : \E h \in Owners :
        \/ Share(o, h) \/ LetGo(o, h)
        \/ \E k \in Owners : Create(o, h, k)

Spec == Init /\ [][Next]_vars
=============================================================================
