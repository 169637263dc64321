--------------------------- MODULE FlightLogRoutes ---------------------------
(***************************************************************************)
(* What the dispatcher of the flight log makes of a path and a method.     *)
(*                                                                         *)
(* zap hands every path that starts with "/api/v1/flight-log" to the       *)
(* dispatcher.  A path is described by what comes next: nothing, a slash   *)
(* and the segments after it, or another character.  The text of a segment *)
(* is abstracted to what parseRoute can tell of it; "id" stands for all    *)
(* that parseInt takes for an i64, "+1" and "0_1" for 1 among them.        *)
(***************************************************************************)
EXTENDS Integers, Sequences

Segment(kind, id) == [kind |-> kind, id |-> id]
Word(kind) == Segment(kind, 0)

Base         == [next |-> "end", segments |-> <<>>]
Glued        == [next |-> "other", segments |-> <<>>]
Under(segs)  == [next |-> "slash", segments |-> segs]

Route(to, id) == [to |-> to, id |-> id]

ParseRoute(path) ==
    CASE path.next = "end"   -> Route("base", 0)
      [] path.next = "other" -> Route("not_found", 0)
      [] OTHER ->
            LET first == path.segments[1]
                more  == Tail(path.segments) IN
            CASE first.kind = "empty" -> Route("not_found", 0)
              [] first.kind = "admin" -> Route(IF more = <<>> THEN "admin" ELSE "not_found", 0)
              [] first.kind = "id"    ->
                    CASE more = <<>> -> Route("entry", first.id)
                      [] more = <<Word("like")>> -> Route("entry_like", first.id)
                      [] OTHER -> Route("not_found", 0)
              [] OTHER -> Route("invalid_entry_id", 0)

\* A route without a handler of the method is not refused.
MutantNoElse(method, to) ==
    CASE method = "GET" /\ to = "base"          -> "list"
      [] method = "GET" /\ to = "admin"         -> "admin_list"
      [] method = "POST" /\ to = "base"         -> "post"
      [] method = "POST" /\ to = "entry_like"   -> "like"
      [] method = "PATCH" /\ to = "entry"       -> "patch"
      [] method = "DELETE" /\ to = "entry_like" -> "unlike"
      [] OTHER                                  -> to

\* get, post, patch and delete: the handler of a route, if the method has one.
Handler(method, to) ==
    CASE method = "GET" /\ to = "base"          -> "list"
      [] method = "GET" /\ to = "admin"         -> "admin_list"
      [] method = "POST" /\ to = "base"         -> "post"
      [] method = "POST" /\ to = "entry_like"   -> "like"
      [] method = "PATCH" /\ to = "entry"       -> "patch"
      [] method = "DELETE" /\ to = "entry_like" -> "unlike"
      [] to = "invalid_entry_id"                -> "invalid_entry_id"
      [] OTHER                                  -> "not_found"
=============================================================================
