------------------------------ MODULE FlightLog ------------------------------
(***************************************************************************)
(* The flight-log API as the process runs it: facil.io's worker threads    *)
(* execute request handlers side by side over ONE SQLite connection        *)
(* (threading mode Serialized), so the step between two interleavings is   *)
(* one sqlite3_step or one sqlite3_changes call.                           *)
(*                                                                         *)
(* A handler that updates or deletes runs its statement and then asks the  *)
(* connection, in a second call, how many rows the last completed write    *)
(* touched (`changes`); it answers ok or flight_log_not_found from that    *)
(* number.  The number belongs to the connection, not to the statement.    *)
(*                                                                         *)
(* Sessions are abstracted to the set of users whose token a lookup still  *)
(* finds; tokens, expiry and cookies are the subject of module Sessions.   *)
(***************************************************************************)
EXTENDS Naturals

CONSTANTS Thread,      \* worker threads of the process
          User,        \* bound: every user row the database may come to hold
          Admin,       \* the accounts whose role is 'admin'
          EntryCount,  \* bound: how many entries are ever posted
          Text,        \* sanitized official responses
          Kinds        \* the kinds of request that arrive

CONSTANTS NoRow,       \* an entry id that was not handed out
          NoResponse,  \* SQL NULL in column response
          NoUser       \* a request whose user is not known yet

OwnerKinds == {"post", "like", "unlike", "delete"}
AdminKinds == {"hide", "unhide", "respond", "clear"}
Counted    == {"like", "unlike", "delete"} \cup AdminKinds

ASSUME AdminAssumption == Admin \subseteq User
ASSUME EntryCountAssumption == EntryCount \in Nat
ASSUME KindsAssumption == Kinds \subseteq OwnerKinds \cup AdminKinds \cup {"login"}
ASSUME NoResponseAssumption == NoResponse \notin Text
ASSUME NoUserAssumption == NoUser \notin User

EntryId == 1 .. EntryCount

\* A row of flight_log_entries.  responded_at is NULL exactly when response
\* is (one UPDATE writes both), deleted_at and hidden_at are NULL or not.
Row == [creator : User, deleted : BOOLEAN, hidden : BOOLEAN,
        response : Text \cup {NoResponse}]
ASSUME NoRowAssumption == NoRow \notin Row

VARIABLES entries,    \* flight_log_entries
          likes,      \* flight_log_entry_likes: pairs <<entry_id, user_id>>
          users,      \* users
          sessions,   \* users whose session token a lookup finds
          changes,    \* sqlite3_changes of the shared connection: 0 or 1 row
          pc,         \* where the handler of each thread is
          req,        \* the request it handles
          reply,      \* what it answered
          hit,        \* observer: its statement did touch a row
          disturbed   \* observer: another thread wrote since its statement

tables   == <<entries, likes, users, sessions>>
handler  == <<pc, req, reply>>
observer == <<hit, disturbed>>
vars     == <<tables, changes, handler, observer>>

NoRequest == [kind |-> "none", entry |-> 0, user |-> NoUser]
Request   == [kind : Kinds \cup {"none"}, entry : EntryId \cup {0},
              user : User \cup {NoUser}]
Place     == {"idle", "identify", "userRow", "session", "sessionRow", "authorize",
              "exec", "postRow", "affected", "check", "done"}
Refusal   == {"invalid_request", "unauthenticated", "forbidden",
              "invalid_credentials", "internal_error"}
Reply     == {"none", "ok", "flight_log_not_found"} \cup Refusal

\* Between its statement and its answer a handler can be disturbed.
Unanswered == {"postRow", "affected", "check"}

Exists(e)  == entries[e] # NoRow
Visible(e) == Exists(e) /\ ~entries[e].deleted /\ ~entries[e].hidden

TypeOK ==
    /\ entries \in [EntryId -> Row \cup {NoRow}]
    /\ likes \subseteq EntryId \X User
    /\ users \subseteq User
    /\ sessions \subseteq User
    /\ changes \in {0, 1}
    /\ pc \in [Thread -> Place]
    /\ req \in [Thread -> Request]
    /\ reply \in [Thread -> Reply]
    /\ hit \in [Thread -> BOOLEAN]
    /\ disturbed \in [Thread -> BOOLEAN]

Init ==
    /\ entries = [e \in EntryId |-> NoRow]
    /\ likes = {}
    /\ users = Admin
    /\ sessions \in {{}, Admin}
    /\ changes \in {0, 1}
    /\ pc = [t \in Thread |-> "idle"]
    /\ req = [t \in Thread |-> NoRequest]
    /\ reply = [t \in Thread |-> "none"]
    /\ hit = [t \in Thread |-> FALSE]
    /\ disturbed = [t \in Thread |-> FALSE]

-----------------------------------------------------------------------------
(* Steps of a handler that several actions share.                          *)

Goto(t, place) == pc' = [pc EXCEPT ![t] = place]

Respond(t, answer) ==
    /\ Goto(t, "done")
    /\ reply' = [reply EXCEPT ![t] = answer]

\* A write by thread t completes, or a row it wrote becomes readable.
Disturb(t) ==
    disturbed' = [x \in Thread |->
                    disturbed[x] \/ (x # t /\ pc[x] \in Unanswered \cup {"done"})]

-----------------------------------------------------------------------------
(* Arrival, identity and permission.                                       *)

Arrive(t) ==
    /\ pc[t] = "idle"
    /\ \E kind \in Kinds, e \in EntryId :
          /\ req' = [req EXCEPT ![t] = [kind |-> kind,
                                        entry |-> IF kind \in {"post", "login"} THEN 0 ELSE e,
                                        user |-> NoUser]]
          /\ Goto(t, IF kind \in AdminKinds THEN "authorize" ELSE "identify")
    /\ UNCHANGED <<tables, changes, reply, observer>>

\* The cookie's token is in the table and has not expired.
FoundSession(t) ==
    /\ pc[t] = "identify" /\ req[t].kind \in OwnerKinds
    /\ \E u \in sessions : req' = [req EXCEPT ![t].user = u]
    /\ Goto(t, "exec")
    /\ UNCHANGED <<tables, changes, reply, observer>>

\* No cookie, or a token the table does not know: a new anonymous user.
\* INSERT .. RETURNING makes the row readable at its first step.
CreateAnonymousUser(t) ==
    /\ pc[t] = "identify" /\ req[t].kind \in OwnerKinds
    /\ \E u \in User \ users :
          /\ users' = users \cup {u}
          /\ req' = [req EXCEPT ![t].user = u]
    /\ Goto(t, "userRow")
    /\ Disturb(t)
    /\ UNCHANGED <<entries, likes, sessions, changes, reply, hit>>

\* and sets the connection's counter when the statement is finalized.
MutantTotalChanges(t) ==
    /\ pc[t] = "userRow"
    /\ changes' = changes + 1
    /\ Goto(t, "session")
    /\ Disturb(t)
    /\ UNCHANGED <<tables, req, reply, hit>>

FinalizeUser(t) ==
    /\ pc[t] = "userRow"
    /\ changes' = 1
    /\ Goto(t, "session")
    /\ Disturb(t)
    /\ UNCHANGED <<tables, req, reply, hit>>

\* The login handler has verified an account's password.
VerifyLogin(t) ==
    /\ pc[t] = "identify" /\ req[t].kind = "login"
    /\ \E u \in Admin : req' = [req EXCEPT ![t].user = u]
    /\ Goto(t, "session")
    /\ UNCHANGED <<tables, changes, reply, observer>>

RejectLogin(t) ==
    /\ pc[t] = "identify" /\ req[t].kind = "login"
    /\ Respond(t, "invalid_credentials")
    /\ UNCHANGED <<tables, changes, req, observer>>

\* The upsert of the user's session row, an INSERT .. RETURNING like the user's,
CreateSession(t) ==
    /\ pc[t] = "session"
    /\ sessions' = sessions \cup {req[t].user}
    /\ Goto(t, "sessionRow")
    /\ Disturb(t)
    /\ UNCHANGED <<entries, likes, users, changes, req, reply, hit>>

\* is finalized before the handler goes on; a login has nothing else to do.
FinalizeSession(t) ==
    /\ pc[t] = "sessionRow"
    /\ changes' = 1
    /\ IF req[t].kind = "login" THEN Respond(t, "ok")
                                ELSE Goto(t, "exec") /\ UNCHANGED reply
    /\ Disturb(t)
    /\ UNCHANGED <<tables, req, hit>>

\* requireAdmin: the session's user is read and has role admin.
MutantAnySession(t) ==
    /\ pc[t] = "authorize"
    /\ \E u \in sessions : req' = [req EXCEPT ![t].user = u]
    /\ Goto(t, "exec")
    /\ UNCHANGED <<tables, changes, reply, observer>>

Authorize(t) ==
    /\ pc[t] = "authorize"
    /\ \E u \in sessions \cap Admin : req' = [req EXCEPT ![t].user = u]
    /\ Goto(t, "exec")
    /\ UNCHANGED <<tables, changes, reply, observer>>

Forbid(t) ==
    /\ pc[t] = "authorize"
    /\ sessions \ Admin # {}
    /\ Respond(t, "forbidden")
    /\ UNCHANGED <<tables, changes, req, observer>>

Unauthenticated(t) ==
    /\ pc[t] = "authorize"
    /\ Respond(t, "unauthenticated")
    /\ UNCHANGED <<tables, changes, req, observer>>

\* A session is dropped (expiry): its user's cookie is no longer found.
ExpireSession(u) ==
    /\ u \in sessions
    /\ sessions' = sessions \ {u}
    /\ UNCHANGED <<entries, likes, users, changes, handler, observer>>

\* sanitizeContent refuses the text, after the identity was settled.
RejectContent(t) ==
    /\ pc[t] = "exec" /\ req[t].kind \in {"post", "respond"}
    /\ Respond(t, "invalid_request")
    /\ UNCHANGED <<tables, changes, req, observer>>

-----------------------------------------------------------------------------
(* The statements of the repository.                                       *)

Insert(t) ==
    /\ pc[t] = "exec" /\ req[t].kind = "post"
    /\ \E e \in EntryId :
          /\ ~Exists(e) /\ \A f \in EntryId : f < e => Exists(f)
          /\ entries' = [entries EXCEPT ![e] =
                           [creator |-> req[t].user, deleted |-> FALSE,
                            hidden |-> FALSE, response |-> NoResponse]]
          /\ req' = [req EXCEPT ![t].entry = e]
    /\ hit' = [hit EXCEPT ![t] = TRUE]
    /\ Goto(t, "postRow")
    /\ Disturb(t)
    /\ UNCHANGED <<likes, users, sessions, changes, reply>>

MutantLastRowid(t) ==
    /\ pc[t] = "postRow"
    /\ changes' = 1
    /\ req' = [req EXCEPT ![t].entry =
                 CHOOSE e \in EntryId : Exists(e) /\ \A f \in EntryId : f > e => ~Exists(f)]
    /\ Respond(t, "ok")
    /\ Disturb(t)
    /\ UNCHANGED <<tables, hit>>

FinalizeInsert(t) ==
    /\ pc[t] = "postRow"
    /\ changes' = 1
    /\ Respond(t, "ok")
    /\ Disturb(t)
    /\ UNCHANGED <<tables, req, hit>>

\* One UPDATE, DELETE or INSERT .. SELECT, run to its end in one step: it
\* touches the row the WHERE clause selects and sets the counter.
Execute(t, kind, where) ==
    /\ pc[t] = "exec" /\ req[t].kind = kind
    /\ changes' = IF where THEN 1 ELSE 0
    /\ hit' = [hit EXCEPT ![t] = where]
    /\ Goto(t, "affected")
    /\ Disturb(t)
    /\ UNCHANGED <<users, sessions, req, reply>>

\* An UPDATE of the entry e that selects it when `where` holds.
Set(e, where, row) == entries' = [entries EXCEPT ![e] = IF where THEN row ELSE @]

RespondEntry(t) ==
    LET e == req[t].entry IN
    /\ Execute(t, "respond", Exists(e))
    /\ \E text \in Text : Set(e, Exists(e), [entries[e] EXCEPT !.response = text])
    /\ UNCHANGED likes

ClearResponse(t) ==
    LET e == req[t].entry IN
    /\ Execute(t, "clear", Exists(e))
    /\ Set(e, Exists(e), [entries[e] EXCEPT !.response = NoResponse])
    /\ UNCHANGED likes

Created(e, u) == Exists(e) /\ entries[e].creator = u

MutantDeleteAnybodys(t) ==
    LET e == req[t].entry IN
    /\ Execute(t, "delete", Exists(e))
    /\ Set(e, Exists(e), [entries[e] EXCEPT !.deleted = TRUE])
    /\ UNCHANGED likes

Delete(t) ==
    LET e == req[t].entry IN
    /\ Execute(t, "delete", Created(e, req[t].user))
    /\ Set(e, Created(e, req[t].user), [entries[e] EXCEPT !.deleted = TRUE])
    /\ UNCHANGED likes

MutantHideOnce(t) ==
    LET e == req[t].entry
        shown == Exists(e) /\ ~entries[e].hidden IN
    /\ Execute(t, "hide", shown)
    /\ Set(e, shown, [entries[e] EXCEPT !.hidden = TRUE])
    /\ UNCHANGED likes

HideEntry(t) ==
    LET e == req[t].entry IN
    /\ Execute(t, "hide", Exists(e))
    /\ Set(e, Exists(e), [entries[e] EXCEPT !.hidden = TRUE])
    /\ UNCHANGED likes

UnhideEntry(t) ==
    LET e == req[t].entry IN
    /\ Execute(t, "unhide", Exists(e))
    /\ Set(e, Exists(e), [entries[e] EXCEPT !.hidden = FALSE])
    /\ UNCHANGED likes

Like(t) ==
    LET pair == <<req[t].entry, req[t].user>>
        new  == Visible(req[t].entry) /\ pair \notin likes IN
    /\ Execute(t, "like", new)
    /\ likes' = IF new THEN likes \cup {pair} ELSE likes
    /\ UNCHANGED entries

Unlike(t) ==
    LET pair == <<req[t].entry, req[t].user>> IN
    /\ Execute(t, "unlike", pair \in likes)
    /\ likes' = likes \ {pair}
    /\ UNCHANGED entries

MutantNoSecondQuery(t) ==
    /\ pc[t] = "affected"
    /\ Respond(t, IF changes # 0 THEN "ok" ELSE "flight_log_not_found")
    /\ UNCHANGED <<tables, changes, req, observer>>

\* db.rowsAffected(): the counter of the connection, as it is now.
ReadAffected(t) ==
    /\ pc[t] = "affected"
    /\ \/ changes # 0 /\ Respond(t, "ok")
       \/ changes = 0 /\ req[t].kind \notin {"like", "unlike"}
                      /\ Respond(t, "flight_log_not_found")
       \/ changes = 0 /\ req[t].kind \in {"like", "unlike"}
                      /\ Goto(t, "check") /\ UNCHANGED reply
    /\ UNCHANGED <<tables, changes, req, observer>>

\* like and unlike that touched no row ask whether the entry can be seen.
CheckVisible(t) ==
    /\ pc[t] = "check"
    /\ Respond(t, IF Visible(req[t].entry) THEN "ok" ELSE "flight_log_not_found")
    /\ UNCHANGED <<tables, changes, req, observer>>

\* A statement is refused or runs out of memory: it changes no table, a write
\* may still set the counter to 0, and the dispatcher answers internal_error.
StatementFails(t) ==
    /\ pc[t] \in {"identify", "session", "authorize", "exec", "check"}
    /\ changes' \in IF pc[t] \in {"authorize", "check"} THEN {changes} ELSE {changes, 0}
    /\ Respond(t, "internal_error")
    /\ Disturb(t)
    /\ UNCHANGED <<tables, req, hit>>

\* The answer cannot be written or sent: the dispatcher reports an internal error
\* of a request that took effect.
ResponseFails(t) ==
    /\ pc[t] = "done" /\ reply[t] = "ok"
    /\ reply' = [reply EXCEPT ![t] = "internal_error"]
    /\ UNCHANGED <<tables, changes, pc, req, observer>>

Finish(t) ==
    /\ pc[t] = "done"
    /\ Goto(t, "idle")
    /\ req' = [req EXCEPT ![t] = NoRequest]
    /\ reply' = [reply EXCEPT ![t] = "none"]
    /\ hit' = [hit EXCEPT ![t] = FALSE]
    /\ disturbed' = [disturbed EXCEPT ![t] = FALSE]
    /\ UNCHANGED <<tables, changes>>

-----------------------------------------------------------------------------
Identify(t) ==
    \/ FoundSession(t) \/ CreateAnonymousUser(t) \/ FinalizeUser(t)
    \/ VerifyLogin(t) \/ RejectLogin(t) \/ CreateSession(t) \/ FinalizeSession(t)
    \/ Authorize(t) \/ Forbid(t) \/ Unauthenticated(t) \/ RejectContent(t)

Statement(t) ==
    \/ Insert(t) \/ RespondEntry(t) \/ ClearResponse(t) \/ Delete(t)
    \/ HideEntry(t) \/ UnhideEntry(t) \/ Like(t) \/ Unlike(t)

Answer(t) ==
    \/ FinalizeInsert(t) \/ ReadAffected(t) \/ CheckVisible(t)
    \/ StatementFails(t) \/ ResponseFails(t) \/ Finish(t)

Next ==
    \/ \E t \in Thread : Arrive(t) \/ Identify(t) \/ Statement(t) \/ Answer(t)
    \/ \E u \in User : ExpireSession(u)

Spec == Init /\ [][Next]_vars

-----------------------------------------------------------------------------
(* Properties.                                                             *)

Answered(t, kinds) == pc[t] = "done" /\ req[t].kind \in kinds

\* What a request asked for is the case / could not be done.
Achieved(r) ==
    CASE r.kind = "like"    -> <<r.entry, r.user>> \in likes
      [] r.kind = "unlike"  -> <<r.entry, r.user>> \notin likes
      [] r.kind = "delete"  -> Created(r.entry, r.user) /\ entries[r.entry].deleted
      [] r.kind = "hide"    -> Exists(r.entry) /\ entries[r.entry].hidden
      [] r.kind = "unhide"  -> Exists(r.entry) /\ ~entries[r.entry].hidden
      [] r.kind = "respond" -> Exists(r.entry) /\ entries[r.entry].response # NoResponse
      [] r.kind = "clear"   -> Exists(r.entry) /\ entries[r.entry].response = NoResponse

Impossible(r) ==
    CASE r.kind \in {"like", "unlike"} -> ~Visible(r.entry)
      [] r.kind = "delete"             -> ~Created(r.entry, r.user)
      [] r.kind \in AdminKinds         -> ~Exists(r.entry)

\* When no other thread wrote between a handler's statement and its answer,
\* the answer read from the shared counter is true of the tables: ok means the
\* request is achieved, flight_log_not_found means it could not be and nothing
\* was changed for it.
UndisturbedReply ==
    \A t \in Thread : Answered(t, Counted) /\ ~disturbed[t] =>
        /\ reply[t] = "ok" => Achieved(req[t])
        /\ reply[t] = "flight_log_not_found" => Impossible(req[t]) /\ ~hit[t]

\* A post is answered with the id of an entry its author just created, and two
\* posts are never answered with the same id, however their inserts interleave.
PostIsOwn ==
    \A t \in Thread : Answered(t, {"post"}) /\ reply[t] = "ok" =>
        /\ req[t].entry \in EntryId
        /\ Created(req[t].entry, req[t].user)
        /\ \A x \in Thread \ {t} :
              Answered(x, {"post"}) /\ reply[x] = "ok" => req[x].entry # req[t].entry

\* A step that moderates is the statement of a handler that holds an admin.
ModeratedByAdmin ==
    \A e \in EntryId :
        Exists(e) /\ ( \/ entries'[e].hidden # entries[e].hidden
                       \/ entries'[e].response # entries[e].response )
        => \E t \in Thread : /\ pc[t] = "exec" /\ pc'[t] = "affected"
                             /\ req[t].kind \in AdminKinds
                             /\ req[t].user \in Admin

\* An entry's hidden flag and official response change only by the statement of
\* a handler that authorized an admin, although the permission is checked in an
\* earlier step than the statement it permits.
ModerationByAdmins == [][ModeratedByAdmin]_vars

-----------------------------------------------------------------------------
(* The inductive invariant of the proofs in FlightLogProofs.               *)

\* What a handler holds at each place: a user that is a row of users once it is
\* identified, an admin when it is about to run a moderation statement, an entry id when
\* its request names one, its own new row while it finalizes an insert.
HoldsPost(t) == pc[t] = "postRow" \/ (Answered(t, {"post"}) /\ reply[t] = "ok")

Working == {"userRow", "session", "sessionRow", "exec", "postRow", "affected", "check"}

Holds(t) ==
    /\ pc[t] \in Working => req[t].user \in users
    /\ pc[t] \in {"identify", "userRow", "session", "sessionRow"} => req[t].kind \notin AdminKinds
    /\ pc[t] = "exec" /\ req[t].kind \in AdminKinds => req[t].user \in Admin
    /\ req[t].kind \in Counted => req[t].entry \in EntryId
    /\ pc[t] \in {"affected", "check"} => req[t].kind \in Counted
    /\ pc[t] = "check" => req[t].kind \in {"like", "unlike"}
    /\ pc[t] = "postRow" => req[t].kind = "post"
    /\ HoldsPost(t) => req[t].entry \in EntryId /\ Created(req[t].entry, req[t].user)

InHand == Admin \subseteq users /\ \A t \in Thread : Holds(t)

\* Every session, author and liking user is a row of users, every like is of an
\* entry: nothing a handler does would be refused by the foreign keys.
ForeignKeys ==
    /\ sessions \subseteq users
    /\ \A e \in EntryId : Exists(e) => entries[e].creator \in users
    /\ \A pair \in likes : Exists(pair[1]) /\ pair[2] \in users

\* No two handlers hold the id of the same new entry.
PostsApart ==
    \A t, x \in Thread :
        t # x /\ HoldsPost(t) /\ HoldsPost(x) => req[t].entry # req[x].entry

\* A request whose statement touched no row had nothing to do.
NothingToDo(r) ==
    CASE r.kind = "like"     -> Visible(r.entry) => Achieved(r)
      [] r.kind = "unlike"   -> Achieved(r)
      [] r.kind = "delete"   -> Impossible(r)
      [] r.kind \in AdminKinds -> Impossible(r)

\* While nobody else writes, the shared counter is the one of the handler's own
\* statement and the tables are as that statement left them.
OwnCounter(t) ==
    ~disturbed[t] =>
        /\ pc[t] = "affected" => changes = IF hit[t] THEN 1 ELSE 0
        /\ pc[t] = "affected" /\ hit[t] => Achieved(req[t])
        /\ pc[t] = "affected" /\ ~hit[t] => NothingToDo(req[t])
        /\ pc[t] = "check" => ~hit[t] /\ NothingToDo(req[t])

IndInv ==
    /\ TypeOK
    /\ InHand
    /\ ForeignKeys
    /\ PostsApart
    /\ \A t \in Thread : OwnCounter(t)
    /\ UndisturbedReply

-----------------------------------------------------------------------------
(* The abstract specifications it implements.                              *)

\* The table of entries, seen as the board of FlightLogBoard.
authorOf   == [e \in EntryId |-> IF Exists(e) THEN entries[e].creator ELSE NoUser]
removedSet == {e \in EntryId : Exists(e) /\ entries[e].deleted}
hiddenSet  == {e \in EntryId : Exists(e) /\ entries[e].hidden}
answerOf   == [e \in EntryId |-> IF Exists(e) THEN entries[e].response ELSE NoResponse]

Board == INSTANCE FlightLogBoard WITH
    Nobody <- NoUser, NoAnswer <- NoResponse, members <- users, author <- authorOf,
    removed <- removedSet, hidden <- hiddenSet, answer <- answerOf, liked <- likes

\* Whatever the threads interleave, every step is one permitted operation of
\* the board or leaves the board as it is.
ImplementsBoard == Board!BoardSpec

\* The answer that the statement a handler ran has settled; "none" while it is
\* open (a like or unlike that touched no row is settled by its second query).
Settled(t) ==
    CASE pc[t] = "done"              -> reply[t]
      [] pc[t] = "postRow"           -> "ok"
      [] pc[t] = "affected" /\ hit[t] -> "ok"
      [] pc[t] = "affected" /\ ~hit[t] /\ req[t].kind \notin {"like", "unlike"} ->
            "flight_log_not_found"
      [] OTHER                       -> "none"

\* The answer on its way to each client.
settledOf == [t \in Thread |-> Settled(t)]

Service == INSTANCE FlightLogService WITH
    Nobody <- NoUser, NoAnswer <- NoResponse, members <- users, author <- authorOf,
    removed <- removedSet, hidden <- hiddenSet, answer <- answerOf, liked <- likes,
    Client <- Thread, OwnerCalls <- OwnerKinds, AdminCalls <- AdminKinds,
    Refusals <- Refusal, call <- req, answered <- settledOf

\* A process with one worker thread is the promised service: every request is one
\* atomic operation of the board, done in the name of the user it was identified as,
\* and is answered as it went, although its handler runs several statements and reads
\* the counter in a separate call.
ImplementsService == Service!ServiceSpec

\* A disturbed handler reads the counter, or asks the table, at a moment that is not
\* its statement's: what it takes for its answer changes, and nothing else does.
Misread(t) ==
    /\ disturbed[t] /\ pc[t] \in {"affected", "check"}
    /\ \A x \in Thread \ {t} : Settled(x)' = Settled(x)
    /\ Settled(t)' \in {"none", "ok", "flight_log_not_found"}
    /\ UNCHANGED <<tables, req>>

\* With several worker threads the process is the promised service up to the
\* shared counter: every step is one of the service, or is the reading of an answer
\* by a handler after whose statement another thread wrote.
ServiceUnlessDisturbed ==
    /\ Service!ServiceInit
    /\ [][Service!ServiceNext \/ \E t \in Thread : Misread(t)]_(Service!serviceVars)

\* What README.md says of flight_log_not_found: it is answered when the entry
\* does not exist or the caller may not act on it, not when the change was made.
NotFoundChangedNothing ==
    \A t \in Thread : Answered(t, Counted) /\ reply[t] = "flight_log_not_found" => ~hit[t]
=============================================================================
