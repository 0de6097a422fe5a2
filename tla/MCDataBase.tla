----------------------------- MODULE MCDataBase -----------------------------
(* Small instances of DataBase for TLC: two or three client threads and    *)
(* two or three addresses, each alike, pages of size 1.                    *)
EXTENDS DataBase, TLC

CONSTANTS t1, t2, t3, a1, a2, a3

TwoThreads     == {t1, t2}
ThreeThreads   == {t1, t2, t3}
TwoAddresses   == {a1, a2}
ThreeAddresses == {a1, a2, a3}
Alike          == Permutations(Threads) \cup Permutations(Addresses)
NoFaults       == {}
AllFaults      == {"grow", "reopen", "lookup", "copy", "crash"}
=============================================================================
