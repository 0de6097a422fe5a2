---------------------------- MODULE MCSingleton -----------------------------
(* A small instance of Singleton for TLC: three threads that are alike,    *)
(* two places that are alike.                                              *)
EXTENDS Singleton, TLC

CONSTANTS t1, t2, t3, m1, m2

ThreeThreads == {t1, t2, t3}
TwoObjects   == {m1, m2}
Alike        == Permutations(Threads) \cup Permutations(Objects)
=============================================================================
