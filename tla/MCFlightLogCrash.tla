-------------------------- MODULE MCFlightLogCrash --------------------------
(* The instances of MCFlightLog in a process that may end at any step.      *)
EXTENDS MCFlightLog, FlightLogCrash
=============================================================================
