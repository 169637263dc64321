---------------------------- MODULE MCCredentials ----------------------------
(* Instances of Credentials for TLC.                                         *)
EXTENDS Credentials

CONSTANTS t1, t2, old, new

TwoThreads == {t1, t2}

TwoPasswords == {old, new}
=============================================================================
