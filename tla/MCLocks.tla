------------------------------- MODULE MCLocks ------------------------------
(* Small instances of Locks for TLC: circles of two and of three threads.  *)
EXTENDS Locks

CONSTANTS t1, t2, t3, i1, i2, i3

ThreeThreads   == {t1, t2, t3}
ThreeInstances == {i1, i2, i3}
OneByOne       == [i \in ThreeInstances |->
                     IF i = i1 THEN 0 ELSE IF i = i2 THEN 1 ELSE 2]
=============================================================================
