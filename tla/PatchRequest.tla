---------------------------- MODULE PatchRequest ----------------------------
(***************************************************************************)
(* How PATCH /api/v1/flight-log/{id} decides what its body asks for: the   *)
(* fields that are set are counted in a two-bit counter, then the one that *)
(* is set names the action.  A build with safety checks (Debug and the     *)
(* ReleaseSafe of the Dockerfile) stops the process when an addition       *)
(* leaves the range of its type.                                           *)
(***************************************************************************)
EXTENDS Naturals, FiniteSets

CONSTANT Null      \* an optional field that is absent

ASSUME NullAssumption == Null \notin BOOLEAN /\ Null \notin {"text"}

\* What std.json makes of a body; the text of a response does not matter here.
Body == [is_deleted : BOOLEAN \cup {Null}, is_hidden : BOOLEAN \cup {Null},
         response : {"text", Null}, clear_response : BOOLEAN \cup {Null}]

PatchActions == {"delete", "hide", "unhide", "respond", "clear_response"}

CountMax == 3      \* u2

\* A field asks for something: any value does, but clear_response must be true.
Active(body) ==
    {f \in DOMAIN body :
        IF f = "clear_response" THEN body[f] = TRUE ELSE body[f] # Null}

\* The one field that is set is found in the order of the source.
MutantUndelete(body) ==
    CASE body.is_deleted # Null -> "delete"
      [] body.is_deleted = Null /\ body.is_hidden # Null ->
            IF body.is_hidden THEN "hide" ELSE "unhide"
      [] OTHER -> IF body.response # Null THEN "respond" ELSE "clear_response"

ActionOf(body) ==
    CASE body.is_deleted # Null ->
            IF body.is_deleted THEN "delete" ELSE "invalid_request"
      [] body.is_deleted = Null /\ body.is_hidden # Null ->
            IF body.is_hidden THEN "hide" ELSE "unhide"
      [] OTHER -> IF body.response # Null THEN "respond" ELSE "clear_response"

ParseAction(body) ==
    LET active_count == Cardinality(Active(body)) IN
    CASE active_count > CountMax -> "panic"
      [] active_count = 1        -> ActionOf(body)
      [] OTHER                   -> "invalid_request"
=============================================================================
