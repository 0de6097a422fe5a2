----------------------------- MODULE MCRegistry -----------------------------
(* Small instances of Registry for TLC: two databases whose ids differ, or *)
(* collide.                                                                *)
EXTENDS Registry, TLC

CONSTANTS c1, c2, d1, d2, i1, i2, s1, s2

TwoClients     == {c1, c2}
OneDatabase    == {d1}
TwoDatabases   == {d1, d2}
TwoInstances   == {i1, i2}
OneSetting     == {s1}
TwoSettings    == {s1, s2}
Distinct       == [d \in Databases |-> d]
Colliding      == [d \in Databases |-> d1]
Alike          == Permutations(Clients) \cup Permutations(Instances)
                    \cup Permutations(Settings)
=============================================================================
