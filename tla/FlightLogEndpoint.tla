-------------------------- MODULE FlightLogEndpoint --------------------------
(***************************************************************************)
(* The endpoint of the flight log: a request is routed by its method and   *)
(* path, a PATCH by its body too, and then either writes, as one operation *)
(* of the board, or is answered with a list that is read row by row.  What *)
(* the statements of one writing request interleave with is the subject of *)
(* FlightLog; here other writes are operations of the board between any    *)
(* two steps of this one.  A behaviour is one life of the process: when a  *)
(* request panics it ends, and what a restart finds is the subject of      *)
(* FlightLogCrash.                                                         *)
(***************************************************************************)
EXTENDS FlightLogList, FlightLogRoutes, PatchRequest

CONSTANT Requests      \* bound: the requests that arrive

VARIABLES asked,       \* the request each thread handles
          decision     \* what the dispatcher and parseAction made of it

ASSUME RequestsAssumption ==
    \A request \in Requests :
        /\ request.method \in {"GET", "POST", "PATCH", "DELETE"}
        /\ request.body \in Body
        /\ request.path.next \in {"end", "slash", "other"}
        /\ request.path.next = "slash" => request.path.segments # <<>>

endpoint     == <<asked, decision>>
endpointVars == <<boardVars, list, moments, endpoint>>

NoBody    == [is_deleted |-> Null, is_hidden |-> Null, response |-> Null,
              clear_response |-> Null]
NoRequest == [method |-> "none", path |-> Base, body |-> NoBody]

Lists      == {"list", "admin_list"}
Operations == PatchActions \cup {"post", "like", "unlike"}
Refusals   == {"not_found", "invalid_entry_id", "invalid_request"}

EndpointTypeOK ==
    /\ ListTypeOK
    /\ asked \in [Reader -> Requests \cup {NoRequest}]
    /\ decision \in [Reader -> Lists \cup Operations \cup Refusals \cup {"none", "panic"}]

EndpointInit ==
    /\ BoardInit
    /\ ListInit
    /\ asked = [r \in Reader |-> NoRequest]
    /\ decision = [r \in Reader |-> "none"]

Decide(request) ==
    LET handler == Handler(request.method, ParseRoute(request.path).to) IN
    IF handler = "patch" THEN ParseAction(request.body) ELSE handler

Receive(r) ==
    /\ place[r] = "idle"
    /\ \E request \in Requests :
          /\ asked' = [asked EXCEPT ![r] = request]
          /\ decision' = [decision EXCEPT ![r] = Decide(request)]
    /\ Goto(r, "routed")
    /\ UNCHANGED <<boardVars, scope, viewer, ahead, rows, moments>>

\* The operation, by a user who may do it.
Operate(what, id) ==
    \/ what = "post" /\ \E u \in members, e \in EntryId : Write(u, e)
    \/ \E e \in EntryId :
          /\ e = id
          /\ \/ what = "delete" /\ \E u \in members : Remove(u, e)
             \/ what = "hide" /\ Hide(e)
             \/ what = "unhide" /\ Unhide(e)
             \/ what = "respond" /\ \E text \in Text : Answer(e, text)
             \/ what = "clear_response" /\ Answer(e, NoAnswer)
             \/ what = "like" /\ \E u \in members : AddLike(u, e)
             \/ what = "unlike" /\ \E u \in members : TakeLike(u, e)

Forget(r) ==
    /\ asked' = [asked EXCEPT ![r] = NoRequest]
    /\ decision' = [decision EXCEPT ![r] = "none"]

Act(r) ==
    /\ place[r] = "routed" /\ decision[r] \in Operations
    /\ Operate(decision[r], ParseRoute(asked[r].path).id)
    /\ Goto(r, "done")
    /\ Forget(r)
    /\ UNCHANGED <<scope, viewer, ahead, rows>>
    /\ Watch

BeginList(r) ==
    /\ place[r] = "routed" /\ decision[r] \in Lists
    /\ OpenList(r, IF decision[r] = "list" THEN "public" ELSE "admin")
    /\ Forget(r)
    /\ UNCHANGED boardVars

\* The router or parseAction refused, the user may not, there is no such entry, the
\* text is invalid, or a statement failed.
Refuse(r) ==
    /\ place[r] \in {"routed", "scan"}
    /\ Goto(r, "refused")
    /\ Forget(r)
    /\ UNCHANGED <<boardVars, scope, viewer, ahead, rows, moments>>

ReadRow(r) == StepRow(r) /\ UNCHANGED <<boardVars, endpoint>>

Respond(r) ==
    /\ place[r] \in {"done", "refused"}
    /\ CloseList({r})
    /\ UNCHANGED <<boardVars, endpoint>>

\* Other handlers write what a list can tell.
Elsewhere ==
    /\ \/ \E u \in User : Join(u)
       \/ \E u \in User, e \in EntryId : Write(u, e) \/ Remove(u, e)
       \/ \E e \in EntryId : Hide(e) \/ Unhide(e)
    /\ UNCHANGED <<list, endpoint>>
    /\ Watch

Serve(r) == Receive(r) \/ Act(r) \/ BeginList(r) \/ Refuse(r) \/ ReadRow(r) \/ Respond(r)

\* A panic in any thread ends the process.
Running == \A r \in Reader : decision[r] # "panic"

EndpointNext == Running /\ (Elsewhere \/ \E r \in Reader : Serve(r))

EndpointSpec == EndpointInit /\ [][EndpointNext]_endpointVars

-----------------------------------------------------------------------------
(* Properties.                                                             *)

\* What README.md and the comments of the dispatcher say a request means; {} when it
\* must be refused.
Names(path, kind, tail) ==
    path.next = "slash" /\ Head(path.segments).kind = kind /\ Tail(path.segments) = tail

\* Exactly the field f is set; clear_response is documented as true only.
Only(body, f) ==
    \A g \in DOMAIN body \ {f} : body[g] = Null \/ (g = "clear_response" /\ body[g] = FALSE)

AsksFor(body, w) ==
    \/ w = "delete"  /\ body.is_deleted = TRUE /\ Only(body, "is_deleted")
    \/ w = "hide"    /\ body.is_hidden = TRUE /\ Only(body, "is_hidden")
    \/ w = "unhide"  /\ body.is_hidden = FALSE /\ Only(body, "is_hidden")
    \/ w = "respond" /\ body.response = "text" /\ Only(body, "response")
    \/ w = "clear_response" /\ body.clear_response = TRUE /\ Only(body, "clear_response")

Meaning(request) ==
    LET path == request.path IN
    CASE request.method = "GET" ->
            {w \in Lists : \/ w = "list" /\ path.next = "end"
                           \/ w = "admin_list" /\ Names(path, "admin", <<>>)}
      [] request.method = "POST" ->
            {w \in Operations : \/ w = "post" /\ path.next = "end"
                                \/ w = "like" /\ Names(path, "id", <<Word("like")>>)}
      [] request.method = "DELETE" ->
            {w \in Operations : w = "unlike" /\ Names(path, "id", <<Word("like")>>)}
      [] request.method = "PATCH" ->
            {w \in PatchActions : Names(path, "id", <<>>) /\ AsksFor(request.body, w)}

\* The number in the path.
Named(path) == Head(path.segments).id

\* Over every method, path and body: a request does the one thing that the API
\* documents for it, to the entry its path names, and is refused only when the API
\* documents nothing.
DecisionIsMeant ==
    \A r \in Reader : place[r] = "routed" =>
        /\ decision[r] \in Lists \cup Operations => Meaning(asked[r]) = {decision[r]}
        /\ decision[r] \in Operations \ {"post"} =>
              ParseRoute(asked[r].path).id = Named(asked[r].path)
        /\ decision[r] \in Refusals => Meaning(asked[r]) = {}

\* What README.md says of a body that sets several fields: it is refused as an
\* invalid request, so no request takes the process down.
AlwaysDecided == \A r \in Reader : decision[r] # "panic"
=============================================================================
