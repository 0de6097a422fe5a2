------------------------------ MODULE MCStartup -----------------------------
(* Small instances of Startup for TLC.                                     *)
EXTENDS Startup

CONSTANTS p1, p2, s1, dflt

OneProcess   == {p1}
TwoProcesses == {p1, p2}
TwoSettings  == {s1, dflt}
=============================================================================
