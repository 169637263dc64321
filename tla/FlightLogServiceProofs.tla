------------------------ MODULE FlightLogServiceProofs ------------------------
(***************************************************************************)
(* Proofs that FlightLog implements FlightLogService, for any number of    *)
(* threads up to answers that another thread disturbed and for one thread  *)
(* without exception.                                                      *)
(***************************************************************************)
EXTENDS FlightLogProofs

-----------------------------------------------------------------------------
(* A handler and its call.                                                 *)

\* A thread without a request has no call, one that does not know its user yet
\* names none, and one that is done has an answer.
CallsMatch ==
    \A t \in Thread :
        /\ pc[t] = "idle" <=> req[t].kind = "none"
        /\ pc[t] = "idle" => req[t] = NoRequest
        /\ pc[t] \in {"identify", "authorize"} => req[t].user = NoUser
        /\ pc[t] = "authorize" => req[t].kind \in AdminKinds
        /\ pc[t] = "done" => reply[t] # "none"

LEMMA OwnCall ==
    ASSUME TypeOK, NEW t \in Thread, Identify(t) \/ Statement(t) \/ Answer(t), ~Finish(t)
    PROVE  /\ pc[t] # "idle" /\ pc'[t] # "idle"
           /\ req'[t].kind = req[t].kind
           /\ pc'[t] \notin {"identify", "authorize"}
           /\ pc'[t] = "done" => reply'[t] # "none"
<1> USE DEF TypeOK, Goto, Respond, Execute, Place, Request
<1>1. CASE Identify(t)
  BY <1>1 DEF Identify, FoundSession, CreateAnonymousUser, FinalizeUser, VerifyLogin, RejectLogin,
              CreateSession, FinalizeSession, Authorize, Forbid, Unauthenticated, RejectContent
<1>2. CASE Statement(t)
  BY <1>2 DEF Statement, Insert, RespondEntry, ClearResponse, Delete, HideEntry, UnhideEntry,
              Like, Unlike
<1>3. CASE Answer(t)
  BY <1>3 DEF Answer, FinalizeInsert, ReadAffected, CheckVisible, StatementFails, ResponseFails
<1> QED BY <1>1, <1>2, <1>3

LEMMA CallsStep == TypeOK /\ CallsMatch /\ [Next]_vars => CallsMatch'
<1> SUFFICES ASSUME TypeOK, CallsMatch, [Next]_vars
             PROVE  CallsMatch'
  OBVIOUS
<1>1. ASSUME NEW t \in Thread, Step(t) PROVE CallsMatch'
  <2>1. \A x \in Thread \ {t} : pc'[x] = pc[x] /\ req'[x] = req[x] /\ reply'[x] = reply[x]
    BY <1>1, Alone
  <2>2. /\ pc'[t] = "idle" <=> req'[t].kind = "none"
        /\ pc'[t] = "idle" => req'[t] = NoRequest
        /\ pc'[t] \in {"identify", "authorize"} => req'[t].user = NoUser
        /\ pc'[t] = "authorize" => req'[t].kind \in AdminKinds
        /\ pc'[t] = "done" => reply'[t] # "none"
    <3>1. CASE Arrive(t)
      BY <3>1, KindsAssumption DEF Arrive, Goto, TypeOK, OwnerKinds, AdminKinds
    <3>2. CASE Finish(t)
      BY <3>2 DEF Finish, Goto, TypeOK, NoRequest
    <3>3. CASE ~Arrive(t) /\ ~Finish(t)
      BY <1>1, <3>3, OwnCall DEF Step, CallsMatch
    <3> QED BY <3>1, <3>2, <3>3
  <2> QED BY <2>1, <2>2 DEF CallsMatch
<1>2. CASE \E u \in User : ExpireSession(u)
  BY <1>2 DEF ExpireSession, handler, CallsMatch
<1>3. CASE UNCHANGED vars
  BY <1>3 DEF vars, handler, CallsMatch
<1> QED BY <1>1, <1>2, <1>3 DEF Next, Step

ServiceInv == IndInv /\ CallsMatch

LEMMA ServiceInductive == Spec => []ServiceInv
<1>1. Init => CallsMatch
  <2> SUFFICES ASSUME Init, NEW t \in Thread
               PROVE  pc[t] = "idle" /\ req[t] = NoRequest /\ req[t].kind = "none"
    BY DEF CallsMatch
  <2>1. pc[t] = "idle" /\ req[t] = NoRequest
    BY DEF Init
  <2> QED BY <2>1 DEF NoRequest
<1>2. IndInv => TypeOK
  BY DEF IndInv
<1> QED BY <1>1, <1>2, CallsStep, Inductive, PTL DEF Spec, ServiceInv

\* The board of the service is the board.
LEMMA ServiceBoard ==
    ASSUME NEW u, NEW e, NEW text
    PROVE  /\ Service!Join(u) <=> Board!Join(u)
           /\ Service!Write(u, e) <=> Board!Write(u, e)
           /\ Service!Remove(u, e) <=> Board!Remove(u, e)
           /\ Service!Hide(e) <=> Board!Hide(e)
           /\ Service!Unhide(e) <=> Board!Unhide(e)
           /\ Service!Answer(e, text) <=> Board!Answer(e, text)
           /\ Service!AddLike(u, e) <=> Board!AddLike(u, e)
           /\ Service!TakeLike(u, e) <=> Board!TakeLike(u, e)
           /\ Service!Posted = Board!Posted /\ Service!Seen = Board!Seen
           /\ Service!EntryId = EntryId
           /\ Service!boardVars = Board!boardVars
           /\ (UNCHANGED Service!boardVars) <=> (UNCHANGED Board!boardVars)
<1> USE DEF Service!Posted, Board!Posted, Service!Seen, Board!Seen, Service!EntryId,
            Board!EntryId, EntryId
<1>1. Service!Join(u) <=> Board!Join(u)
  BY DEF Service!Join, Board!Join
<1>2. Service!Write(u, e) <=> Board!Write(u, e)
  BY DEF Service!Write, Board!Write
<1>3. Service!Remove(u, e) <=> Board!Remove(u, e)
  BY DEF Service!Remove, Board!Remove
<1>4. Service!Hide(e) <=> Board!Hide(e)
  BY DEF Service!Hide, Board!Hide
<1>5. Service!Unhide(e) <=> Board!Unhide(e)
  BY DEF Service!Unhide, Board!Unhide
<1>6. Service!Answer(e, text) <=> Board!Answer(e, text)
  BY DEF Service!Answer, Board!Answer
<1>7. Service!AddLike(u, e) <=> Board!AddLike(u, e)
  BY DEF Service!AddLike, Board!AddLike
<1>8. Service!TakeLike(u, e) <=> Board!TakeLike(u, e)
  BY DEF Service!TakeLike, Board!TakeLike
<1>9. /\ Service!Posted = Board!Posted /\ Service!Seen = Board!Seen
      /\ Service!EntryId = EntryId
  OBVIOUS
<1>10. /\ Service!boardVars = Board!boardVars
       /\ (UNCHANGED Service!boardVars) <=> (UNCHANGED Board!boardVars)
  BY DEF Service!boardVars, Board!boardVars
<1> QED BY <1>1, <1>2, <1>3, <1>4, <1>5, <1>6, <1>7, <1>8, <1>9, <1>10

\* The step of a handler concerns its own call only.
LEMMA OwnAnswer ==
    ASSUME TypeOK, NEW t \in Thread, Step(t)
    PROVE  /\ settledOf' = [settledOf EXCEPT ![t] = Settled(t)']
           /\ \A x \in Thread \ {t} : Settled(x)' = Settled(x)
<1>1. ASSUME NEW x \in Thread \ {t} PROVE Settled(x)' = Settled(x)
  BY Alone DEF Settled
<1>2. \A x \in Thread : settledOf'[x] = Settled(x)' /\ settledOf[x] = Settled(x)
  BY DEF settledOf
<1>3. settledOf' = [settledOf EXCEPT ![t] = Settled(t)']
  BY <1>1, <1>2 DEF settledOf
<1> QED BY <1>1, <1>3

\* A step that settles an open answer serves the call.
LEMMA Serves ==
    ASSUME TypeOK, NEW t \in Thread, Step(t), Settled(t) = "none",
           NEW reason, Settled(t)' = reason
    PROVE  Service!Serve(t, req[t].kind, reason)
BY OwnAnswer DEF Service!Serve, settledOf

-----------------------------------------------------------------------------
(* The statements serve the call, or leave it open for the second query.   *)

LEMMA StatementServes ==
    ASSUME TypeOK, NEW t \in Thread, Step(t), NEW kind, NEW where \in BOOLEAN,
           Execute(t, kind, where)
    PROVE  /\ UNCHANGED req /\ req[t].kind = kind
           /\ where => Service!Serve(t, kind, "ok")
           /\ ~where /\ kind \notin {"like", "unlike"} =>
                 Service!Serve(t, kind, "flight_log_not_found")
           /\ ~where /\ kind \in {"like", "unlike"} => UNCHANGED settledOf
<1>1. /\ pc[t] = "exec" /\ pc'[t] = "affected" /\ hit'[t] = where /\ req' = req
      /\ req[t].kind = kind
  BY DEF Execute, Goto, TypeOK
<1>2. Settled(t) = "none"
  BY <1>1 DEF Settled
<1>3. Settled(t)' = IF where THEN "ok"
                    ELSE IF kind \notin {"like", "unlike"} THEN "flight_log_not_found"
                    ELSE "none"
  BY <1>1 DEF Settled
<1>4. Service!Serve(t, kind, Settled(t)')
  BY <1>1, <1>2, Serves
<1>5. Settled(t)' = Settled(t) => UNCHANGED settledOf
  BY OwnAnswer DEF settledOf
<1> QED BY <1>1, <1>2, <1>3, <1>4, <1>5

\* The author of the entry deletes it, and nobody else does.
LEMMA DeleteServes ==
    ASSUME TypeOK, InHand, NEW t \in Thread, Delete(t)
    PROVE  Service!ServeDelete(t)
<1> DEFINE e == req[t].entry
           u == req[t].user
<1>1. e \in EntryId /\ u \in users /\ u \in User
  BY UpdateHolds DEF Update
<1>2. /\ UNCHANGED req /\ req[t].kind = "delete"
      /\ Created(e, u) => Service!Serve(t, "delete", "ok")
      /\ ~Created(e, u) => Service!Serve(t, "delete", "flight_log_not_found")
  <2>1. Step(t) /\ Execute(t, "delete", Created(e, u))
    BY DEF Delete, Step, Statement
  <2>2. Created(e, u) \in BOOLEAN
    BY DEF Created, Exists
  <2> QED BY <2>1, <2>2, StatementServes
<1>3. authorOf[e] = u <=> Created(e, u)
  BY <1>1, BoardEntry
<1>4. \/ Created(e, u) /\ Service!Remove(u, e)
      \/ ~Created(e, u) /\ UNCHANGED Service!boardVars
  <2>1. Board!Remove(u, e) <=> Service!Remove(u, e)
    BY ServiceBoard
  <2>2. (UNCHANGED Service!boardVars) <=> (UNCHANGED Board!boardVars)
    BY ServiceBoard
  <2> QED BY <2>1, <2>2, DeleteBoard
<1>5. Service!ServeEntry(t, "delete", authorOf[e] = u, Service!Remove(u, e))
  BY <1>2, <1>3, <1>4 DEF Service!ServeEntry
<1> QED BY <1>1, <1>5 DEF Service!ServeDelete

\* An admin's statement acts on every entry there is, seen or not.
LEMMA ModerationServes ==
    ASSUME TypeOK, InHand, NEW t \in Thread, Update(t), ~Delete(t)
    PROVE  Service!ServeModeration(t)
<1> DEFINE e == req[t].entry
<1>1. /\ e \in EntryId /\ req[t].user \in Admin
      /\ e \in Service!Posted <=> Exists(e)
      /\ Exists(e) \in BOOLEAN
  <2>1. pc[t] = "exec" /\ req[t].kind \in AdminKinds
    BY DEF Update, HideEntry, UnhideEntry, ClearResponse, RespondEntry, Execute, AdminKinds
  <2>2. req[t].user \in Admin
    BY <2>1 DEF InHand, Holds
  <2> QED BY <2>2, UpdateHolds, BoardEntry, ServiceBoard DEF Exists
<1> DEFINE Serving(kind) ==
             /\ UNCHANGED req /\ req[t].kind = kind
             /\ Exists(e) => Service!Serve(t, kind, "ok")
             /\ ~Exists(e) => Service!Serve(t, kind, "flight_log_not_found")
<1>2. CASE HideEntry(t)
  <2>1. Serving("hide")
    BY <1>1, <1>2, StatementServes DEF HideEntry, Step, Statement
  <2>2. \/ Exists(e) /\ Service!Hide(e)
        \/ ~Exists(e) /\ UNCHANGED Service!boardVars
    BY <1>2, HideBoard, ServiceBoard
  <2>3. Service!ServeEntry(t, "hide", e \in Service!Posted, Service!Hide(e))
    BY <1>1, <2>1, <2>2 DEF Service!ServeEntry
  <2> QED BY <1>1, <2>3 DEF Service!ServeModeration
<1>3. CASE UnhideEntry(t)
  <2>1. Serving("unhide")
    BY <1>1, <1>3, StatementServes DEF UnhideEntry, Step, Statement
  <2>2. \/ Exists(e) /\ Service!Unhide(e)
        \/ ~Exists(e) /\ UNCHANGED Service!boardVars
    BY <1>3, UnhideBoard, ServiceBoard
  <2>3. Service!ServeEntry(t, "unhide", e \in Service!Posted, Service!Unhide(e))
    BY <1>1, <2>1, <2>2 DEF Service!ServeEntry
  <2> QED BY <1>1, <2>3 DEF Service!ServeModeration
<1>4. CASE ClearResponse(t)
  <2>1. Serving("clear")
    BY <1>1, <1>4, StatementServes DEF ClearResponse, Step, Statement
  <2>2. \/ Exists(e) /\ Service!Answer(e, NoResponse)
        \/ ~Exists(e) /\ UNCHANGED Service!boardVars
    BY <1>4, ClearBoard, ServiceBoard
  <2>3. Service!ServeEntry(t, "clear", e \in Service!Posted, Service!Answer(e, NoResponse))
    BY <1>1, <2>1, <2>2 DEF Service!ServeEntry
  <2> QED BY <1>1, <2>3 DEF Service!ServeModeration
<1>5. CASE RespondEntry(t)
  <2>1. Serving("respond")
    <3>1. Step(t) /\ Execute(t, "respond", Exists(e))
      BY <1>5 DEF RespondEntry, Step, Statement
    <3> QED BY <1>1, <3>1, StatementServes
  <2>2. PICK text \in Text : TRUE
    BY <1>5 DEF RespondEntry
  <2>3. CASE ~Exists(e)
    <3>1. UNCHANGED Service!boardVars
      BY <1>5, <2>3, RespondBoard, ServiceBoard
    <3>2. Service!ServeEntry(t, "respond", e \in Service!Posted, Service!Answer(e, text))
      BY <1>1, <2>1, <2>3, <3>1 DEF Service!ServeEntry
    <3> QED BY <1>1, <3>2 DEF Service!ServeModeration
  <2>4. CASE Exists(e)
    <3>1. PICK given \in Text : Service!Answer(e, given)
      BY <1>5, <2>4, RespondBoard, ServiceBoard
    <3>2. Service!ServeEntry(t, "respond", e \in Service!Posted, Service!Answer(e, given))
      BY <1>1, <2>1, <2>4, <3>1 DEF Service!ServeEntry
    <3> QED BY <1>1, <3>2 DEF Service!ServeModeration
  <2> QED BY <2>3, <2>4
<1> QED BY <1>2, <1>3, <1>4, <1>5 DEF Update

\* A post is served by the insert: the call gets the id that was handed out.
LEMMA InsertServes ==
    ASSUME TypeOK, InHand, NEW t \in Thread, Insert(t)
    PROVE  Service!ServePost(t)
<1>1. /\ req[t].user \in User /\ req'[t].entry \in EntryId
      /\ Service!Write(req[t].user, req'[t].entry)
  BY InsertBoard, ServiceBoard DEF Board!EntryId, EntryId
<1>2. Service!Serve(t, "post", "ok")
  <2>1. pc[t] = "exec" /\ pc'[t] = "postRow" /\ req[t].kind = "post" /\ Step(t)
    BY DEF Insert, Goto, TypeOK, Step, Statement
  <2>2. Settled(t) = "none" /\ Settled(t)' = "ok"
    BY <2>1 DEF Settled
  <2> QED BY <2>1, <2>2, Serves
<1>3. req' = [req EXCEPT ![t].entry = req'[t].entry]
  <2>1. PICK e \in EntryId : req' = [req EXCEPT ![t].entry = e]
    BY DEF Insert
  <2>2. req'[t].entry = e
    BY <2>1 DEF TypeOK, Request
  <2> QED BY <2>1, <2>2
<1> QED BY <1>1, <1>2, <1>3, ServiceBoard DEF Service!ServePost

\* A like that touches a row is served; one that does not leaves board and call.
LEMMA LikeServes ==
    ASSUME TypeOK, InHand, NEW t \in Thread, Like(t)
    PROVE  Service!ServeLike(t) \/ UNCHANGED Service!serviceVars
<1> DEFINE e == req[t].entry
           u == req[t].user
           new == Visible(e) /\ <<e, u>> \notin likes
<1>1. /\ e \in EntryId /\ u \in users /\ u \in User /\ UNCHANGED <<entries, users>>
      /\ Step(t) /\ Execute(t, "like", new)
  BY DEF Like, Execute, Counted, InHand, Holds, Working, TypeOK, Step, Statement
<1>2. UNCHANGED <<authorOf, removedSet, hiddenSet, answerOf>>
  BY <1>1, SameEntries
<1>3. /\ UNCHANGED req /\ req[t].kind = "like"
      /\ new => Service!Serve(t, "like", "ok")
      /\ ~new => UNCHANGED settledOf
  <2>1. new \in BOOLEAN
    OBVIOUS
  <2> HIDE DEF new
  <2> QED BY <1>1, <2>1, StatementServes
<1>4. CASE new
  <2>1. likes' = likes \cup {<<e, u>>}
    BY <1>4 DEF Like
  <2>2. e \in Service!Seen
    BY <1>1, <1>4, BoardEntry, ServiceBoard
  <2>3. Service!AddLike(u, e)
    BY <1>1, <1>2, <2>1, <2>2 DEF Service!AddLike
  <2>4. Service!ServeEntry(t, "like", e \in Service!Seen, Service!AddLike(u, e))
    BY <1>3, <1>4, <2>2, <2>3 DEF Service!ServeEntry
  <2> QED BY <1>1, <2>4 DEF Service!ServeLike
<1>5. CASE ~new
  <2>1. likes' = likes
    BY <1>5 DEF Like
  <2> QED BY <1>1, <1>2, <1>3, <1>5, <2>1 DEF Service!serviceVars, Service!boardVars
<1> QED BY <1>4, <1>5

\* So is the taking back of a like, on an entry that may be hidden by then.
LEMMA UnlikeServes ==
    ASSUME TypeOK, InHand, NEW t \in Thread, Unlike(t)
    PROVE  Service!ServeUnlike(t) \/ UNCHANGED Service!serviceVars
<1> DEFINE e == req[t].entry
           u == req[t].user
           there == <<e, u>> \in likes
<1>1. /\ e \in EntryId /\ u \in users /\ u \in User /\ UNCHANGED <<entries, users>>
      /\ Step(t) /\ Execute(t, "unlike", there)
  BY DEF Unlike, Execute, Counted, InHand, Holds, Working, TypeOK, Step, Statement
<1>2. UNCHANGED <<authorOf, removedSet, hiddenSet, answerOf>>
  BY <1>1, SameEntries
<1>3. /\ UNCHANGED req /\ req[t].kind = "unlike"
      /\ there => Service!Serve(t, "unlike", "ok")
      /\ ~there => UNCHANGED settledOf
  <2>1. there \in BOOLEAN
    OBVIOUS
  <2> HIDE DEF there
  <2> QED BY <1>1, <2>1, StatementServes
<1>4. likes' = likes \ {<<e, u>>}
  BY DEF Unlike
<1>5. CASE there
  <2>1. Service!TakeLike(u, e)
    BY <1>1, <1>2, <1>4 DEF Service!TakeLike
  <2>2. Service!ServeEntry(t, "unlike", e \in Service!Seen \/ <<e, u>> \in likes,
                           Service!TakeLike(u, e))
    BY <1>3, <1>5, <2>1 DEF Service!ServeEntry
  <2> QED BY <1>1, <2>2 DEF Service!ServeUnlike
<1>6. CASE ~there
  <2>1. likes' = likes
    BY <1>4, <1>6
  <2> QED BY <1>1, <1>2, <1>3, <1>6, <2>1 DEF Service!serviceVars, Service!boardVars
<1> QED BY <1>5, <1>6

-----------------------------------------------------------------------------
(* The steps around the statement.                                         *)

\* A request that is refused has touched no entry and no like.
LEMMA Refused ==
    ASSUME TypeOK, CallsMatch, NEW t \in Thread, Step(t), NEW reason \in Refusal,
           pc[t] \in {"identify", "session", "authorize", "exec", "check"},
           UNCHANGED <<tables, req>>, Respond(t, reason)
    PROVE  Service!Refuse(t)
<1>1. Settled(t) = "none"
  BY DEF Settled
<1>2. Settled(t)' = reason
  BY DEF Respond, Goto, Settled, TypeOK
<1>3. Service!Serve(t, req[t].kind, reason)
  BY <1>1, <1>2, Serves
<1>4. req[t] # Service!NoCall
  <2>1. req[t].kind # "none"
    BY DEF CallsMatch
  <2>2. Service!NoCall.kind = "none"
    BY DEF Service!NoCall
  <2> QED BY <2>1, <2>2
<1>5. UNCHANGED Service!boardVars
  BY SameEntries DEF tables, Service!boardVars
<1> QED BY <1>3, <1>4, <1>5 DEF Service!Refuse

\* A step that settles nothing and leaves entries, likes and users alone.
LEMMA Unnoticed ==
    ASSUME TypeOK, NEW t \in Thread, Step(t), UNCHANGED <<entries, likes, users>>,
           UNCHANGED req, Settled(t)' = Settled(t)
    PROVE  UNCHANGED Service!serviceVars
<1>1. UNCHANGED settledOf
  BY OwnAnswer DEF settledOf
<1>2. UNCHANGED Service!boardVars
  BY SameEntries DEF Service!boardVars
<1> QED BY <1>1, <1>2 DEF Service!serviceVars

\* A handler that learns its user had none before, and has settled nothing.
LEMMA Unnamed ==
    ASSUME TypeOK, CallsMatch, NEW t \in Thread, Step(t), Settled(t)' = Settled(t),
           pc[t] \in {"identify", "authorize"}
    PROVE  req[t].kind # "none" /\ req[t].user = NoUser /\ UNCHANGED settledOf
<1>1. UNCHANGED settledOf
  BY OwnAnswer DEF settledOf
<1> QED BY <1>1 DEF CallsMatch

LEMMA ArriveServes ==
    ASSUME TypeOK, CallsMatch, NEW t \in Thread, Arrive(t)
    PROVE  Service!Call(t)
<1>1. PICK kind \in Kinds, e \in EntryId :
         /\ req' = [req EXCEPT ![t] = [kind |-> kind,
                                       entry |-> IF kind \in {"post", "login"} THEN 0 ELSE e,
                                       user |-> NoUser]]
         /\ Goto(t, IF kind \in AdminKinds THEN "authorize" ELSE "identify")
  BY DEF Arrive
<1> DEFINE entry == IF kind \in {"post", "login"} THEN 0 ELSE e
<1>2. /\ kind \in OwnerKinds \cup AdminKinds \cup {"login"}
      /\ entry \in Service!EntryId \cup {0}
  BY KindsAssumption, ServiceBoard
<1>3. req[t] = Service!NoCall
  BY DEF Arrive, CallsMatch, NoRequest, Service!NoCall
<1>4. req' = [req EXCEPT ![t] = [kind |-> kind, entry |-> entry, user |-> NoUser]]
  BY <1>1
<1>5. UNCHANGED settledOf
  <2>1. pc[t] = "idle" /\ pc'[t] \in {"authorize", "identify"} /\ Step(t)
    BY <1>1 DEF Arrive, Goto, TypeOK, Step
  <2>2. Settled(t) = "none" /\ Settled(t)' = "none"
    BY <2>1 DEF Settled
  <2> QED BY <2>1, <2>2, OwnAnswer DEF settledOf
<1>6. UNCHANGED Service!boardVars
  BY SameEntries DEF Arrive, tables, Service!boardVars
<1> QED BY <1>2, <1>3, <1>4, <1>5, <1>6 DEF Service!Call

LEMMA IdentifyServes ==
    ASSUME TypeOK, InHand, ForeignKeys, CallsMatch, NEW t \in Thread, Identify(t)
    PROVE  \/ Service!Recognize(t) \/ Service!Enter(t) \/ Service!ServeLogin(t)
           \/ Service!Refuse(t) \/ UNCHANGED Service!serviceVars
<1>a. Step(t)
  BY DEF Step
<1>1. CASE FoundSession(t) \/ Authorize(t) \/ VerifyLogin(t)
  <2>1. PICK u \in users : /\ req' = [req EXCEPT ![t].user = u]
                           /\ req[t].kind \notin OwnerKinds => u \in Admin
    <3>1. CASE FoundSession(t)
      BY <3>1 DEF FoundSession, ForeignKeys
    <3>2. CASE Authorize(t)
      BY <3>2 DEF Authorize, InHand
    <3>3. CASE VerifyLogin(t)
      BY <3>3 DEF VerifyLogin, InHand
    <3> QED BY <1>1, <3>1, <3>2, <3>3
  <2>2. pc[t] \in {"identify", "authorize"} /\ pc'[t] \in {"exec", "session"}
    BY <1>1 DEF FoundSession, Authorize, VerifyLogin, Goto, TypeOK
  <2>3. Settled(t)' = Settled(t)
    BY <2>2 DEF Settled
  <2>4. Service!Identify(t, u)
    BY <1>a, <2>1, <2>2, <2>3, Unnamed DEF Service!Identify
  <2>5. UNCHANGED Service!boardVars
    BY <1>1, SameEntries DEF FoundSession, Authorize, VerifyLogin, tables, Service!boardVars
  <2> QED BY <2>1, <2>4, <2>5 DEF Service!Recognize
<1>2. CASE CreateAnonymousUser(t)
  <2>1. PICK u \in User \ users : users' = users \cup {u} /\ req' = [req EXCEPT ![t].user = u]
    BY <1>2 DEF CreateAnonymousUser
  <2>2. UNCHANGED <<likes, authorOf, removedSet, hiddenSet, answerOf>>
    BY <1>2, SameEntries DEF CreateAnonymousUser
  <2>3. Service!Join(u)
    BY <2>1, <2>2 DEF Service!Join
  <2>4. pc[t] = "identify" /\ pc'[t] = "userRow" /\ req[t].kind \in OwnerKinds
    BY <1>2 DEF CreateAnonymousUser, Goto, TypeOK
  <2>5. Settled(t)' = Settled(t)
    BY <2>4 DEF Settled
  <2>6. Service!Identify(t, u)
    BY <1>a, <2>1, <2>4, <2>5, Unnamed DEF Service!Identify
  <2> QED BY <2>3, <2>4, <2>6 DEF Service!Enter
<1>3. CASE FinalizeUser(t) \/ CreateSession(t) \/ (FinalizeSession(t) /\ req[t].kind # "login")
  <2>1. /\ pc[t] \in {"userRow", "session", "sessionRow"}
        /\ pc'[t] \in {"session", "sessionRow", "exec"}
        /\ UNCHANGED <<entries, likes, users, req>>
    BY <1>3 DEF FinalizeUser, CreateSession, FinalizeSession, Goto, TypeOK, tables
  <2>2. Settled(t)' = Settled(t)
    BY <2>1 DEF Settled
  <2> QED BY <1>a, <2>1, <2>2, Unnoticed
<1>4. CASE FinalizeSession(t) /\ req[t].kind = "login"
  <2>1. /\ pc[t] = "sessionRow" /\ pc'[t] = "done" /\ reply'[t] = "ok"
        /\ UNCHANGED <<entries, likes, users, req>>
    BY <1>4 DEF FinalizeSession, Respond, Goto, TypeOK, tables
  <2>2. Settled(t) = "none" /\ Settled(t)' = "ok"
    BY <2>1 DEF Settled
  <2>3. Service!Serve(t, "login", "ok")
    BY <1>a, <1>4, <2>2, Serves
  <2>4. UNCHANGED Service!boardVars
    BY <2>1, SameEntries DEF Service!boardVars
  <2>5. req[t].user \in users
    BY <2>1 DEF InHand, Holds, Working
  <2> QED BY <2>1, <2>3, <2>4, <2>5 DEF Service!ServeLogin
<1>5. CASE RejectLogin(t)
  BY <1>a, <1>5, Refused DEF RejectLogin, Refusal
<1>6. CASE Forbid(t)
  BY <1>a, <1>6, Refused DEF Forbid, Refusal
<1>7. CASE Unauthenticated(t)
  BY <1>a, <1>7, Refused DEF Unauthenticated, Refusal
<1>8. CASE RejectContent(t)
  BY <1>a, <1>8, Refused DEF RejectContent, Refusal
<1> QED BY <1>1, <1>2, <1>3, <1>4, <1>5, <1>6, <1>7, <1>8 DEF Identify

LEMMA FinishServes ==
    ASSUME TypeOK, CallsMatch, NEW t \in Thread, Finish(t)
    PROVE  Service!Return(t)
<1>1. pc[t] = "done" /\ pc'[t] = "idle" /\ reply[t] # "none" /\ Step(t)
  BY DEF Finish, Goto, TypeOK, CallsMatch, Step, Answer
<1>2. Settled(t) # "none" /\ Settled(t)' = "none"
  BY <1>1 DEF Settled
<1>3. settledOf[t] # "none" /\ settledOf' = [settledOf EXCEPT ![t] = "none"]
  BY <1>1, <1>2, OwnAnswer DEF settledOf
<1>4. req' = [req EXCEPT ![t] = Service!NoCall]
  BY DEF Finish, NoRequest, Service!NoCall
<1>5. UNCHANGED Service!boardVars
  BY SameEntries DEF Finish, tables, Service!boardVars
<1> QED BY <1>3, <1>4, <1>5 DEF Service!Return

\* A like or unlike that touched no row, and was not disturbed, finds the board as
\* its statement left it: what it is told is true of one moment.
LEMMA CheckServes ==
    ASSUME TypeOK, InHand, NEW t \in Thread, OwnCounter(t), CheckVisible(t), ~disturbed[t]
    PROVE  Service!ServeLike(t) \/ Service!ServeUnlike(t)
<1> DEFINE e == req[t].entry
           u == req[t].user
           told == IF Visible(e) THEN "ok" ELSE "flight_log_not_found"
<1>1. /\ pc[t] = "check" /\ req[t].kind \in {"like", "unlike"} /\ UNCHANGED <<tables, req>>
      /\ pc'[t] = "done" /\ reply'[t] = told /\ Step(t)
  BY DEF CheckVisible, Respond, Goto, TypeOK, InHand, Holds, Step, Answer
<1>2. /\ e \in EntryId /\ u \in users /\ u \in User
      /\ e \in Service!Seen <=> Visible(e)
  <2>1. e \in EntryId /\ u \in users /\ u \in User
    BY <1>1 DEF InHand, Holds, Working, Counted, TypeOK
  <2> QED BY <2>1, BoardEntry, ServiceBoard
<1>3. NothingToDo(req[t])
  BY <1>1 DEF OwnCounter
<1>4. Settled(t) = "none" /\ Settled(t)' = told
  BY <1>1 DEF Settled
<1>5. Service!Serve(t, req[t].kind, told)
  BY <1>1, <1>4, Serves
<1>6. /\ UNCHANGED <<users, likes, authorOf, removedSet, hiddenSet, answerOf>>
      /\ UNCHANGED Service!boardVars
  BY <1>1, SameEntries DEF tables, Service!boardVars
<1>7. CASE req[t].kind = "like"
  <2>1. Visible(e) => <<e, u>> \in likes
    <3>1. Achieved(req[t]) <=> <<e, u>> \in likes
      BY <1>7 DEF Achieved
    <3>2. Visible(e) => Achieved(req[t])
      BY <1>3, <1>7 DEF NothingToDo, AdminKinds
    <3> QED BY <3>1, <3>2
  <2>2. Visible(e) => Service!AddLike(u, e)
    <3>1. Visible(e) => likes' = likes \cup {<<e, u>>}
      BY <1>6, <2>1
    <3> QED BY <1>2, <1>6, <3>1 DEF Service!AddLike
  <2>3. Service!ServeEntry(t, "like", e \in Service!Seen, Service!AddLike(u, e))
    BY <1>1, <1>2, <1>5, <1>6, <1>7, <2>2 DEF Service!ServeEntry
  <2> QED BY <1>2, <2>3 DEF Service!ServeLike
<1>8. CASE req[t].kind = "unlike"
  <2>1. <<e, u>> \notin likes
    <3>1. Achieved(req[t]) <=> <<e, u>> \notin likes
      BY <1>8 DEF Achieved
    <3>2. Achieved(req[t])
      BY <1>3, <1>8 DEF NothingToDo, AdminKinds
    <3> QED BY <3>1, <3>2
  <2>2. Service!TakeLike(u, e)
    <3>1. likes' = likes \ {<<e, u>>}
      BY <1>6, <2>1
    <3> QED BY <1>2, <1>6, <3>1 DEF Service!TakeLike
  <2>3. Service!ServeEntry(t, "unlike", e \in Service!Seen \/ <<e, u>> \in likes,
                           Service!TakeLike(u, e))
    BY <1>1, <1>2, <1>5, <1>6, <1>8, <2>1, <2>2 DEF Service!ServeEntry
  <2> QED BY <1>2, <2>3 DEF Service!ServeUnlike
<1> QED BY <1>1, <1>7, <1>8

\* Reading the counter tells an undisturbed handler what its statement settled.
LEMMA ReadServes ==
    ASSUME TypeOK, InHand, NEW t \in Thread, OwnCounter(t), ReadAffected(t), ~disturbed[t]
    PROVE  UNCHANGED Service!serviceVars
<1>1. /\ pc[t] = "affected" /\ UNCHANGED <<tables, req, hit>> /\ Step(t)
      /\ changes = IF hit[t] THEN 1 ELSE 0
  BY DEF ReadAffected, OwnCounter, Step, Answer, observer
<1>2. CASE hit[t]
  <2>1. pc'[t] = "done" /\ reply'[t] = "ok"
    BY <1>1, <1>2 DEF ReadAffected, Respond, Goto, TypeOK
  <2>2. Settled(t)' = "ok" /\ Settled(t) = "ok"
    BY <1>1, <1>2, <2>1 DEF Settled
  <2> QED BY <1>1, <2>2, OwnAnswer, Unnoticed DEF tables
<1>3. CASE ~hit[t] /\ req[t].kind \notin {"like", "unlike"}
  <2>1. pc'[t] = "done" /\ reply'[t] = "flight_log_not_found"
    BY <1>1, <1>3 DEF ReadAffected, Respond, Goto, TypeOK
  <2>2. Settled(t)' = "flight_log_not_found" /\ Settled(t) = "flight_log_not_found"
    BY <1>1, <1>3, <2>1 DEF Settled
  <2> QED BY <1>1, <2>2, OwnAnswer, Unnoticed DEF tables
<1>4. CASE ~hit[t] /\ req[t].kind \in {"like", "unlike"}
  <2>1. pc'[t] = "check"
    BY <1>1, <1>4 DEF ReadAffected, Goto, TypeOK
  <2>2. Settled(t)' = "none" /\ Settled(t) = "none"
    BY <1>1, <1>4, <2>1 DEF Settled
  <2> QED BY <1>1, <2>2, OwnAnswer, Unnoticed DEF tables
<1> QED BY <1>2, <1>3, <1>4

\* A disturbed one may be told otherwise, and that is all that happens.
LEMMA Misreads ==
    ASSUME TypeOK, NEW t \in Thread, ReadAffected(t) \/ CheckVisible(t), disturbed[t]
    PROVE  Misread(t)
<1>1. /\ pc[t] \in {"affected", "check"} /\ UNCHANGED <<tables, req>> /\ Step(t)
  BY DEF ReadAffected, CheckVisible, Step, Answer
<1>2. \/ pc'[t] = "done" /\ reply'[t] \in {"ok", "flight_log_not_found"}
      \/ pc'[t] = "check"
  BY DEF ReadAffected, CheckVisible, Respond, Goto, TypeOK
<1>3. Settled(t)' \in {"none", "ok", "flight_log_not_found"}
  BY <1>2 DEF Settled
<1> QED BY <1>1, <1>3, OwnAnswer DEF Misread

LEMMA AnswerServes ==
    ASSUME IndInv, CallsMatch, NEW t \in Thread, Answer(t)
    PROVE  \/ Service!ServeLike(t) \/ Service!ServeUnlike(t) \/ Service!Refuse(t)
           \/ Service!LoseAnswer(t) \/ Service!Return(t) \/ Misread(t)
           \/ UNCHANGED Service!serviceVars
<1>a. TypeOK /\ InHand /\ OwnCounter(t) /\ Step(t)
  BY DEF IndInv, Step
<1>1. CASE FinalizeInsert(t)
  <2>1. /\ pc[t] = "postRow" /\ pc'[t] = "done" /\ reply'[t] = "ok"
        /\ UNCHANGED <<entries, likes, users, req>>
    BY <1>a, <1>1 DEF FinalizeInsert, Respond, Goto, TypeOK, tables
  <2>2. Settled(t)' = Settled(t)
    BY <2>1 DEF Settled
  <2> QED BY <1>a, <2>1, <2>2, OwnAnswer, Unnoticed
<1>2. CASE (ReadAffected(t) \/ CheckVisible(t)) /\ disturbed[t]
  BY <1>a, <1>2, Misreads
<1>3. CASE ReadAffected(t) /\ ~disturbed[t]
  BY <1>a, <1>3, ReadServes
<1>4. CASE CheckVisible(t) /\ ~disturbed[t]
  BY <1>a, <1>4, CheckServes
<1>5. CASE StatementFails(t)
  BY <1>a, <1>5, Refused DEF StatementFails, Refusal
<1>6. CASE Finish(t)
  BY <1>a, <1>6, FinishServes
<1>7. CASE ResponseFails(t)
  <2>1. /\ pc[t] = "done" /\ pc'[t] = "done" /\ reply[t] = "ok" /\ reply'[t] = "internal_error"
        /\ UNCHANGED <<tables, req>>
    BY <1>a, <1>7 DEF ResponseFails, TypeOK
  <2>2. Settled(t) = "ok" /\ Settled(t)' = "internal_error"
    BY <2>1 DEF Settled
  <2>3. settledOf[t] = "ok" /\ settledOf' = [settledOf EXCEPT ![t] = "internal_error"]
    BY <1>a, <2>2, OwnAnswer DEF settledOf
  <2>4. UNCHANGED Service!boardVars
    BY <2>1, SameEntries DEF tables, Service!boardVars
  <2> QED BY <2>1, <2>3, <2>4 DEF Service!LoseAnswer
<1> QED BY <1>1, <1>2, <1>3, <1>4, <1>5, <1>6, <1>7 DEF Answer

-----------------------------------------------------------------------------
(* The theorems about the service.                                         *)

LEMMA StatementStep ==
    ASSUME TypeOK, InHand, NEW t \in Thread, Statement(t)
    PROVE  \/ Service!ServePost(t) \/ Service!ServeDelete(t) \/ Service!ServeLike(t)
           \/ Service!ServeUnlike(t) \/ Service!ServeModeration(t)
           \/ UNCHANGED Service!serviceVars
<1>1. Insert(t) \/ Delete(t) \/ (Update(t) /\ ~Delete(t)) \/ Like(t) \/ Unlike(t)
  BY DEF Statement, Update
<1> QED BY <1>1, InsertServes, DeleteServes, ModerationServes, LikeServes, UnlikeServes

LEMMA ServiceStep ==
    ServiceInv /\ [Next]_vars =>
        [Service!ServiceNext \/ \E t \in Thread : Misread(t)]_(Service!serviceVars)
<1> SUFFICES ASSUME ServiceInv, [Next]_vars
             PROVE  [Service!ServiceNext \/ \E t \in Thread : Misread(t)]_(Service!serviceVars)
  OBVIOUS
<1>a. IndInv /\ TypeOK /\ InHand /\ ForeignKeys /\ CallsMatch
  BY DEF ServiceInv, IndInv
<1>1. ASSUME UNCHANGED <<entries, likes, users, handler, observer>>
      PROVE  UNCHANGED Service!serviceVars
  <2>1. UNCHANGED req /\ UNCHANGED settledOf
    BY <1>1 DEF handler, observer, settledOf, Settled
  <2>2. UNCHANGED Service!boardVars
    BY <1>1, SameEntries DEF Service!boardVars
  <2> QED BY <2>1, <2>2 DEF Service!serviceVars
<1>2. CASE UNCHANGED vars
  BY <1>1, <1>2 DEF vars, tables
<1>3. CASE \E u \in User : ExpireSession(u)
  BY <1>1, <1>3 DEF ExpireSession
<1>4. ASSUME NEW t \in Thread, Step(t)
      PROVE  [Service!ServiceNext \/ \E x \in Thread : Misread(x)]_(Service!serviceVars)
  <2>1. CASE Arrive(t)
    BY <1>a, <2>1, ArriveServes DEF Service!ServiceNext
  <2>2. CASE Identify(t)
    BY <1>a, <2>2, IdentifyServes DEF Service!ServiceNext
  <2>3. CASE Statement(t)
    BY <1>a, <2>3, StatementStep DEF Service!ServiceNext
  <2>4. CASE Answer(t)
    BY <1>a, <2>4, AnswerServes DEF Service!ServiceNext
  <2> QED BY <1>4, <2>1, <2>2, <2>3, <2>4 DEF Step
<1> QED BY <1>2, <1>3, <1>4 DEF Next, Step

LEMMA ServiceStart == Init => Service!ServiceInit
<1> SUFFICES ASSUME Init PROVE Service!ServiceInit
  OBVIOUS
<1>1. Service!BoardInit
  BY DEF Init, Service!BoardInit, authorOf, removedSet, hiddenSet, answerOf, Exists,
         EntryId, Service!EntryId
<1>2. req = [t \in Thread |-> Service!NoCall]
  BY DEF Init, NoRequest, Service!NoCall
<1>3. \A t \in Thread : settledOf[t] = "none"
  <2>1. \A t \in Thread : pc[t] = "idle"
    BY DEF Init
  <2> QED BY <2>1 DEF settledOf, Settled
<1> QED BY <1>1, <1>2, <1>3 DEF Service!ServiceInit, settledOf

\* With any number of threads every request takes effect in one step of the service,
\* which fixes its answer; only a handler after whose statement another thread
\* wrote may read a different one, and reading is all it does then.
THEOREM ServesUnlessDisturbed == Spec => ServiceUnlessDisturbed
BY ServiceStart, ServiceStep, ServiceInductive, PTL DEF Spec, ServiceUnlessDisturbed

\* A process with one worker thread.
OneThread == \A t, x \in Thread : t = x

Calm == \A t \in Thread : ~disturbed[t]

LEMMA CalmStep == ASSUME OneThread PROVE Calm /\ [Next]_vars => Calm'
<1> SUFFICES ASSUME Calm, [Next]_vars PROVE Calm'
  OBVIOUS
<1>1. CASE UNCHANGED disturbed
  BY <1>1 DEF Calm
<1>2. ASSUME NEW t \in Thread, Disturb(t)
      PROVE  Calm'
  BY <1>2 DEF Disturb, Calm, OneThread
<1>3. ASSUME NEW t \in Thread, disturbed' = [disturbed EXCEPT ![t] = FALSE]
      PROVE  Calm'
  BY <1>3 DEF Calm, OneThread
<1>4. ASSUME NEW t \in Thread, Step(t)
      PROVE  UNCHANGED disturbed \/ Disturb(t) \/ Finish(t)
  BY <1>4 DEF Step, Arrive, Identify, FoundSession, CreateAnonymousUser, FinalizeUser,
       VerifyLogin, RejectLogin, CreateSession, FinalizeSession, Authorize, Forbid, Unauthenticated,
       RejectContent, Statement, Insert, RespondEntry, ClearResponse, Delete, HideEntry,
       UnhideEntry, Like, Unlike, Execute, Answer, FinalizeInsert, ReadAffected,
       CheckVisible, StatementFails, ResponseFails, observer
<1> QED BY <1>1, <1>2, <1>3, <1>4 DEF Next, Step, vars, observer, ExpireSession, Finish

LEMMA OneThreadIsCalm == ASSUME OneThread PROVE Spec => []Calm
<1>1. Init => Calm
  BY DEF Init, Calm
<1> QED BY <1>1, CalmStep, PTL DEF Spec

\* One thread: every request is one operation of the board, answered as it went,
\* however many statements its handler runs and whatever sessions expire meanwhile.
THEOREM OneThreadServes == ASSUME OneThread PROVE Spec => ImplementsService
<1>1. Calm => ~\E t \in Thread : Misread(t)
  BY DEF Calm, Misread
<1>2. Calm /\ [Service!ServiceNext \/ \E t \in Thread : Misread(t)]_(Service!serviceVars)
        => [Service!ServiceNext]_(Service!serviceVars)
  BY <1>1
<1> QED BY <1>2, OneThreadIsCalm, ServesUnlessDisturbed, PTL
        DEF ServiceUnlessDisturbed, ImplementsService, Service!ServiceSpec

\* One thread: nobody is told flight_log_not_found of a change that was made, as
\* README.md promises.  What the run flightlog_false_not_found shows needs another
\* thread between the statement and the reading of the counter.
THEOREM OneThreadReportsTruly == ASSUME OneThread PROVE Spec => []NotFoundChangedNothing
<1>1. Calm /\ UndisturbedReply => NotFoundChangedNothing
  BY DEF Calm, UndisturbedReply, NotFoundChangedNothing
<1> QED BY <1>1, OneThreadIsCalm, UndisturbedRepliesTrue, PTL

=============================================================================
