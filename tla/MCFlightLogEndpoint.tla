------------------------- MODULE MCFlightLogEndpoint -------------------------
(* An instance of FlightLogEndpoint for TLC: one handler of this endpoint,   *)
(* every method and body, and paths of every shape the router distinguishes. *)
EXTENDS FlightLogEndpoint, TLC

CONSTANTS r1, root, ann, thanks

OneReader == {r1}
Accounts  == {root}
Everyone  == {root, ann}
Responses == {thanks}

Id(n) == Segment("id", n)

Paths == {Base, Glued} \cup
    {Under(segs) : segs \in
        {<<Word("empty")>>, <<Word("admin")>>, <<Word("admin"), Word("empty")>>,
         <<Word("like")>>, <<Word("other"), Word("like")>>,
         <<Id(1)>>, <<Id(-1)>>, <<Id(1), Word("like")>>, <<Id(1), Word("empty")>>,
         <<Id(1), Word("admin")>>, <<Id(1), Word("like"), Word("empty")>>}}

Hiding == [NoBody EXCEPT !.is_hidden = TRUE]

SomeRequests ==
    [method : {"GET", "POST", "DELETE"}, path : Paths, body : {NoBody}]
    \cup [method : {"PATCH"}, path : Paths, body : {Hiding}]
    \cup [method : {"PATCH"}, path : {Under(<<Id(1)>>)}, body : Body]
=============================================================================
