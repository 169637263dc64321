---------------------------- MODULE MCRaspiStatus ----------------------------
(* Instances of RaspiSampler for TLC.                                        *)
EXTENDS RaspiSampler

CONSTANTS h1, h2

OneHandler  == {h1}
TwoHandlers == {h1, h2}
Ticks       == 0 .. 2
Sizes       == 1 .. 2
=============================================================================
