----------------------------- MODULE MCFlightLog -----------------------------
(* Instances of FlightLog for TLC: one admin account and up to two anonymous *)
(* visitors; each run draws its requests from the kinds it is about.         *)
EXTENDS FlightLog, TLC

CONSTANTS t1, t2, root, ann, bob, thanks

OneThread  == {t1}
TwoThreads == {t1, t2}

Accounts == {root}
Everyone == {root, ann}
TwoGuests == {root, ann, bob}
Responses == {thanks}

AuthorKinds     == {"post", "delete"}
DisputedKinds   == {"post", "like", "unlike", "delete", "hide"}
AllKinds        == OwnerKinds \cup AdminKinds \cup {"login"}

\* Worker threads are interchangeable.
AnyThread == Permutations(TwoThreads)
=============================================================================
