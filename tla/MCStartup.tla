------------------------------ MODULE MCStartup ------------------------------
(* Instances of Startup for TLC.                                             *)
EXTENDS Startup

CONSTANTS p1, p2

OneProcess   == {p1}
TwoProcesses == {p1, p2}
=============================================================================
