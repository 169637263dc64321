----------------------------- MODULE MCSessions -----------------------------
(* An instance of Sessions for TLC: a browser that sends requests as it      *)
(* likes beside one that waits for each response.                            *)
EXTENDS Sessions, TLC

CONSTANTS b1, b2, s1, s2, ann, g1, g2, k1, k2, k3

TwoBrowsers == {b1, b2}
Slots       == {s1, s2}
Accounts    == {ann}
TwoGuests   == {g1, g2}
ThreeTokens == {k1, k2, k3}

AllKinds  == {"write", "read", "account", "login"}
AllFaults == {"lose", "expire"}

OneIsPatient(b, s) == b = b1 \/ s = s2

\* Tokens and anonymous users are interchangeable.
Fresh == Permutations(ThreeTokens) \cup Permutations(TwoGuests)

\* What a request is still used for at its place: states that differ in the rest
\* of it behave alike and no property tells them apart.
StillUsed(s) ==
    CASE pc[s] = "lookup" -> req[s]
      [] pc[s] \in {"idle", "reply"} -> <<req[s].browser>>
      [] OTHER -> <<req[s].browser, req[s].kind, req[s].user>>

Canon == <<tables, jar, pc, cookie, observer, [s \in Slot |-> StillUsed(s)]>>
=============================================================================
