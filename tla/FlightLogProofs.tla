--------------------------- MODULE FlightLogProofs ---------------------------
(***************************************************************************)
(* Proofs about FlightLog for any number of worker threads, users, admins, *)
(* entries and responses, and any mix of requests.                         *)
(***************************************************************************)
EXTENDS FlightLog, TLAPS

-----------------------------------------------------------------------------
(* Type correctness.  A session is created for a user the handler already  *)
(* holds, and an UPDATE names an entry id the request holds, so the steps  *)
(* need InHand.                                                            *)

LEMMA InitType == Init => TypeOK
BY AdminAssumption DEF Init, TypeOK, Place, Reply, Request, NoRequest, EntryId

\* Naming the user of a request keeps it a request.
LEMMA NameUser ==
    ASSUME TypeOK, NEW t \in Thread, NEW u \in User,
           req' = [req EXCEPT ![t].user = u]
    PROVE  req' \in [Thread -> Request]
BY DEF TypeOK, Request

LEMMA IdentifyType ==
    ASSUME TypeOK, InHand, NEW t \in Thread, Identify(t)
    PROVE  TypeOK'
<1> USE DEF Goto, Respond, Disturb, Place, Reply, Refusal, tables, observer, handler
<1>1. CASE FoundSession(t)
  <2>1. req' \in [Thread -> Request]
    BY <1>1, NameUser DEF FoundSession, TypeOK
  <2> QED BY <1>1, <2>1 DEF FoundSession, TypeOK
<1>2. CASE CreateAnonymousUser(t)
  <2>1. req' \in [Thread -> Request]
    BY <1>2, NameUser DEF CreateAnonymousUser
  <2> QED BY <1>2, <2>1 DEF CreateAnonymousUser, TypeOK
<1>3. CASE FinalizeUser(t)
  BY <1>3 DEF FinalizeUser, TypeOK
<1>4. CASE VerifyLogin(t)
  <2>1. req' \in [Thread -> Request]
    BY <1>4, NameUser, AdminAssumption DEF VerifyLogin
  <2> QED BY <1>4, <2>1 DEF VerifyLogin, TypeOK
<1>5. CASE RejectLogin(t)
  BY <1>5 DEF RejectLogin, TypeOK
<1>6. CASE CreateSession(t)
  <2>1. req[t].user \in User
    BY <1>6 DEF CreateSession, InHand, Holds, Working, TypeOK
  <2> QED BY <1>6, <2>1 DEF CreateSession, TypeOK
<1>7. CASE Authorize(t)
  <2>1. req' \in [Thread -> Request]
    BY <1>7, NameUser, AdminAssumption DEF Authorize
  <2> QED BY <1>7, <2>1 DEF Authorize, TypeOK
<1>8. CASE Forbid(t)
  BY <1>8 DEF Forbid, TypeOK
<1>9. CASE Unauthenticated(t)
  BY <1>9 DEF Unauthenticated, TypeOK
<1>10. CASE RejectContent(t)
  BY <1>10 DEF RejectContent, TypeOK
<1>11. CASE FinalizeSession(t)
  BY <1>11 DEF FinalizeSession, TypeOK
<1> QED BY <1>1, <1>2, <1>3, <1>4, <1>5, <1>6, <1>7, <1>8, <1>9, <1>10, <1>11 DEF Identify

\* An UPDATE of one entry keeps the table a table.
LEMMA SetType ==
    ASSUME TypeOK, NEW e \in EntryId, NEW where \in BOOLEAN, NEW row,
           where => row \in Row, Set(e, where, row)
    PROVE  entries' \in [EntryId -> Row \cup {NoRow}]
BY DEF TypeOK, Set

\* An UPDATE that leaves the author alone deletes no row and changes no author.
LEMMA SetKeeps ==
    ASSUME TypeOK, NEW e \in EntryId, NEW where \in BOOLEAN, NEW row, Set(e, where, row),
           where => row \in Row /\ Exists(e) /\ row.creator = entries[e].creator
    PROVE  \A f \in EntryId : \A u : Created(f, u) => Created(f, u)'
BY NoRowAssumption DEF TypeOK, Set, Created, Exists

\* Running a counted statement, whatever it does to entries and likes.
LEMMA ExecuteType ==
    ASSUME TypeOK, NEW t \in Thread, NEW kind, NEW where \in BOOLEAN,
           Execute(t, kind, where),
           entries' \in [EntryId -> Row \cup {NoRow}], likes' \subseteq EntryId \X User
    PROVE  TypeOK'
BY DEF TypeOK, Execute, Goto, Disturb, Place

\* The five UPDATEs of flight_log_entries have one shape: they name the row of an
\* entry id, keep its author, and leave the likes alone.
Update(t) == RespondEntry(t) \/ ClearResponse(t) \/ Delete(t) \/ HideEntry(t) \/ UnhideEntry(t)

\* One of them replaces the row by this one, where its condition holds.
UpdateAs(t, where, row) ==
    /\ req[t].entry \in EntryId /\ req[t].kind \in Counted
    /\ Execute(t, req[t].kind, where)
    /\ Set(req[t].entry, where, row)
    /\ where => /\ row \in Row /\ Exists(req[t].entry)
                /\ row.creator = entries[req[t].entry].creator
    /\ likes' = likes

LEMMA UpdateShape ==
    ASSUME TypeOK, InHand, NEW t \in Thread, Update(t)
    PROVE  \E where \in BOOLEAN : \E row : UpdateAs(t, where, row)
<1> DEFINE e == req[t].entry
<1>a. Exists(e) \in BOOLEAN /\ Created(e, req[t].user) \in BOOLEAN
  BY DEF Exists, Created
<1>b. req[t].kind \in Counted => e \in EntryId
  BY DEF InHand, Holds
<1>c. e \in EntryId /\ Exists(e) => entries[e] \in Row
  BY DEF TypeOK, Exists
<1>1. CASE RespondEntry(t)
  <2>1. e \in EntryId /\ req[t].kind \in Counted /\ Execute(t, req[t].kind, Exists(e))
    BY <1>1, <1>b DEF RespondEntry, Execute, Counted, AdminKinds
  <2>2. PICK text \in Text : Set(e, Exists(e), [entries[e] EXCEPT !.response = text])
    BY <1>1 DEF RespondEntry
  <2>3. Exists(e) => /\ [entries[e] EXCEPT !.response = text] \in Row
                     /\ [entries[e] EXCEPT !.response = text].creator = entries[e].creator
    BY <2>1, <1>c DEF Row
  <2>4. UpdateAs(t, Exists(e), [entries[e] EXCEPT !.response = text])
    BY <1>1, <2>1, <2>2, <2>3 DEF UpdateAs, RespondEntry
  <2> QED BY <1>a, <2>4
<1>2. CASE ClearResponse(t)
  <2>1. e \in EntryId /\ req[t].kind \in Counted /\ Execute(t, req[t].kind, Exists(e))
    BY <1>2, <1>b DEF ClearResponse, Execute, Counted, AdminKinds
  <2>2. Exists(e) => /\ [entries[e] EXCEPT !.response = NoResponse] \in Row
                     /\ [entries[e] EXCEPT !.response = NoResponse].creator = entries[e].creator
    BY <2>1, <1>c DEF Row
  <2>4. UpdateAs(t, Exists(e), [entries[e] EXCEPT !.response = NoResponse])
    BY <1>2, <2>1, <2>2 DEF UpdateAs, ClearResponse
  <2> QED BY <1>a, <2>4
<1>3. CASE Delete(t)
  <2>1. /\ e \in EntryId /\ req[t].kind \in Counted
        /\ Execute(t, req[t].kind, Created(e, req[t].user))
    BY <1>3, <1>b DEF Delete, Execute, Counted
  <2>2. Created(e, req[t].user) =>
          /\ Exists(e) /\ [entries[e] EXCEPT !.deleted = TRUE] \in Row
          /\ [entries[e] EXCEPT !.deleted = TRUE].creator = entries[e].creator
    BY <2>1, <1>c DEF Row, Created
  <2>4. UpdateAs(t, Created(e, req[t].user), [entries[e] EXCEPT !.deleted = TRUE])
    BY <1>3, <2>1, <2>2 DEF UpdateAs, Delete
  <2> QED BY <1>a, <2>4
<1>4. CASE HideEntry(t)
  <2>1. e \in EntryId /\ req[t].kind \in Counted /\ Execute(t, req[t].kind, Exists(e))
    BY <1>4, <1>b DEF HideEntry, Execute, Counted, AdminKinds
  <2>2. Exists(e) => /\ [entries[e] EXCEPT !.hidden = TRUE] \in Row
                     /\ [entries[e] EXCEPT !.hidden = TRUE].creator = entries[e].creator
    BY <2>1, <1>c DEF Row
  <2>4. UpdateAs(t, Exists(e), [entries[e] EXCEPT !.hidden = TRUE])
    BY <1>4, <2>1, <2>2 DEF UpdateAs, HideEntry
  <2> QED BY <1>a, <2>4
<1>5. CASE UnhideEntry(t)
  <2>1. e \in EntryId /\ req[t].kind \in Counted /\ Execute(t, req[t].kind, Exists(e))
    BY <1>5, <1>b DEF UnhideEntry, Execute, Counted, AdminKinds
  <2>2. Exists(e) => /\ [entries[e] EXCEPT !.hidden = FALSE] \in Row
                     /\ [entries[e] EXCEPT !.hidden = FALSE].creator = entries[e].creator
    BY <2>1, <1>c DEF Row
  <2>4. UpdateAs(t, Exists(e), [entries[e] EXCEPT !.hidden = FALSE])
    BY <1>5, <2>1, <2>2 DEF UpdateAs, UnhideEntry
  <2> QED BY <1>a, <2>4
<1> QED BY <1>1, <1>2, <1>3, <1>4, <1>5 DEF Update

\* The entry of an insert: the next id, with the handler's user as author.
LEMMA InsertShape ==
    ASSUME TypeOK, InHand, NEW t \in Thread, Insert(t)
    PROVE  \E f \in EntryId :
             /\ ~Exists(f)
             /\ entries' = [entries EXCEPT ![f] =
                              [creator |-> req[t].user, deleted |-> FALSE,
                               hidden |-> FALSE, response |-> NoResponse]]
             /\ req' = [req EXCEPT ![t].entry = f]
             /\ [creator |-> req[t].user, deleted |-> FALSE,
                 hidden |-> FALSE, response |-> NoResponse] \in Row
BY DEF Insert, InHand, Holds, Working, TypeOK, Row

LEMMA StatementType ==
    ASSUME TypeOK, InHand, NEW t \in Thread, Statement(t)
    PROVE  TypeOK'
<1>1. CASE Insert(t)
  <2> DEFINE row == [creator |-> req[t].user, deleted |-> FALSE,
                     hidden |-> FALSE, response |-> NoResponse]
  <2>1. PICK f \in EntryId : /\ entries' = [entries EXCEPT ![f] = row]
                             /\ req' = [req EXCEPT ![t].entry = f]
                             /\ row \in Row
    BY <1>1, InsertShape
  <2>2. entries' \in [EntryId -> Row \cup {NoRow}]
    BY <2>1 DEF TypeOK
  <2>3. req' \in [Thread -> Request]
    BY <2>1 DEF TypeOK, Request
  <2> QED BY <1>1, <2>2, <2>3 DEF Insert, TypeOK, Goto, Disturb, Place
<1>2. CASE Update(t)
  <2>0. PICK where \in BOOLEAN : \E row : UpdateAs(t, where, row)
    BY <1>2, UpdateShape
  <2>1. PICK row : UpdateAs(t, where, row)
    BY <2>0
  <2>2. entries' \in [EntryId -> Row \cup {NoRow}]
    BY <2>1, SetType DEF UpdateAs
  <2>3. likes' \subseteq EntryId \X User
    BY <2>1 DEF TypeOK, UpdateAs
  <2> QED BY <2>1, <2>2, <2>3, ExecuteType DEF UpdateAs
<1>3. CASE Like(t)
  <2>1. req[t].entry \in EntryId /\ req[t].user \in User
    BY <1>3 DEF Like, Execute, Counted, InHand, Holds, Working, TypeOK
  <2>2. likes' \subseteq EntryId \X User
    BY <1>3, <2>1 DEF Like, TypeOK
  <2> DEFINE new == Visible(req[t].entry) /\ <<req[t].entry, req[t].user>> \notin likes
  <2>3. Execute(t, "like", new)
    BY <1>3 DEF Like
  <2>5. new \in BOOLEAN
    OBVIOUS
  <2> HIDE DEF new
  <2>4. entries' \in [EntryId -> Row \cup {NoRow}]
    BY <1>3 DEF Like, TypeOK
  <2> QED BY <2>2, <2>3, <2>4, <2>5, ExecuteType
<1>4. CASE Unlike(t)
  <2>1. likes' \subseteq EntryId \X User
    BY <1>4 DEF Unlike, TypeOK
  <2> DEFINE there == <<req[t].entry, req[t].user>> \in likes
  <2>2. there \in BOOLEAN /\ Execute(t, "unlike", there)
    BY <1>4 DEF Unlike
  <2> HIDE DEF there
  <2>3. entries' \in [EntryId -> Row \cup {NoRow}]
    BY <1>4 DEF Unlike, TypeOK
  <2> QED BY <2>1, <2>2, <2>3, ExecuteType
<1> QED BY <1>1, <1>2, <1>3, <1>4 DEF Statement, Update

LEMMA AnswerType ==
    ASSUME TypeOK, NEW t \in Thread, Answer(t)
    PROVE  TypeOK'
<1> USE DEF TypeOK, Goto, Respond, Disturb, Place, Reply, Refusal, tables, observer
<1>1. CASE FinalizeInsert(t)
  BY <1>1 DEF FinalizeInsert
<1>2. CASE ReadAffected(t)
  BY <1>2 DEF ReadAffected
<1>3. CASE CheckVisible(t)
  BY <1>3 DEF CheckVisible
<1>4. CASE StatementFails(t)
  BY <1>4 DEF StatementFails
<1>5. CASE Finish(t)
  BY <1>5 DEF Finish, NoRequest, Request
<1>6. CASE ResponseFails(t)
  BY <1>6 DEF ResponseFails
<1> QED BY <1>1, <1>2, <1>3, <1>4, <1>5, <1>6 DEF Answer

LEMMA TypeStep ==
    ASSUME TypeOK, InHand, [Next]_vars
    PROVE  TypeOK'
<1>1. ASSUME NEW t \in Thread, Arrive(t) PROVE TypeOK'
  BY <1>1, KindsAssumption
     DEF TypeOK, Arrive, Goto, Place, Request, tables, observer
<1>2. ASSUME NEW u \in User, ExpireSession(u) PROVE TypeOK'
  BY <1>2 DEF TypeOK, ExpireSession, handler, observer
<1>3. CASE UNCHANGED vars
  BY <1>3 DEF TypeOK, vars, tables, handler, observer
<1> QED BY <1>1, <1>2, <1>3, IdentifyType, StatementType, AnswerType DEF Next

-----------------------------------------------------------------------------
(* What a step of one handler leaves to the others.                        *)

Step(t) == Arrive(t) \/ Identify(t) \/ Statement(t) \/ Answer(t)

\* Six kinds of step write a table; the others leave them all alone.
LEMMA TableSteps ==
    ASSUME NEW t \in Thread, Step(t)
    PROVE  \/ CreateAnonymousUser(t) \/ CreateSession(t) \/ Insert(t)
           \/ Update(t) \/ Like(t) \/ Unlike(t)
           \/ UNCHANGED tables
<1>1. CASE Arrive(t)
  BY <1>1 DEF Arrive
<1>2. CASE Identify(t)
  BY <1>2 DEF Identify, FoundSession, FinalizeUser, VerifyLogin, RejectLogin, FinalizeSession,
              Authorize, Forbid, Unauthenticated, RejectContent
<1>3. CASE Answer(t)
  BY <1>3 DEF Answer, FinalizeInsert, ReadAffected, CheckVisible, StatementFails, ResponseFails, Finish
<1> QED BY <1>1, <1>2, <1>3 DEF Step, Statement, Update

\* It moves no other handler.
LEMMA Alone ==
    ASSUME TypeOK, NEW t \in Thread, NEW x \in Thread \ {t}, Step(t)
    PROVE  /\ pc'[x] = pc[x] /\ req'[x] = req[x]
           /\ reply'[x] = reply[x] /\ hit'[x] = hit[x]
<1> USE DEF Goto, Respond, Execute, handler, observer, TypeOK
<1>1. CASE Arrive(t)
  BY <1>1 DEF Arrive
<1>2. CASE Identify(t)
  BY <1>2 DEF Identify, FoundSession, CreateAnonymousUser, FinalizeUser, VerifyLogin,
              RejectLogin, CreateSession, FinalizeSession, Authorize, Forbid, Unauthenticated, RejectContent
<1>3. CASE Statement(t)
  BY <1>3 DEF Statement, Insert, RespondEntry, ClearResponse, Delete, HideEntry,
              UnhideEntry, Like, Unlike
<1>4. CASE Answer(t)
  BY <1>4 DEF Answer, FinalizeInsert, ReadAffected, CheckVisible, StatementFails, ResponseFails, Finish
<1> QED BY <1>1, <1>2, <1>3, <1>4 DEF Step

\* Either it writes, and every handler on the way to its answer is marked
\* disturbed, or it leaves entries, likes and the counter as they are.
LEMMA WritesDisturb ==
    ASSUME TypeOK, NEW t \in Thread, NEW x \in Thread \ {t}, Step(t)
    PROVE  \/ pc[x] \in Unanswered \cup {"done"} => disturbed'[x]
           \/ /\ entries' = entries /\ likes' = likes /\ changes' = changes
              /\ disturbed'[x] = disturbed[x]
<1> USE DEF Disturb, Execute, tables, observer, TypeOK
<1>1. CASE Arrive(t)
  BY <1>1 DEF Arrive
<1>2. CASE Identify(t)
  BY <1>2 DEF Identify, FoundSession, CreateAnonymousUser, FinalizeUser, VerifyLogin,
              RejectLogin, CreateSession, FinalizeSession, Authorize, Forbid, Unauthenticated, RejectContent
<1>3. CASE Statement(t)
  BY <1>3 DEF Statement, Insert, RespondEntry, ClearResponse, Delete, HideEntry,
              UnhideEntry, Like, Unlike
<1>4. CASE Answer(t)
  BY <1>4 DEF Answer, FinalizeInsert, ReadAffected, CheckVisible, StatementFails, ResponseFails, Finish
<1> QED BY <1>1, <1>2, <1>3, <1>4 DEF Step

\* No row of users or flight_log_entries goes away, and no author changes.
LEMMA RowsStay ==
    ASSUME TypeOK, InHand, NEW t \in Thread, Step(t)
    PROVE  /\ users \subseteq users'
           /\ \A e \in EntryId : \A u : Created(e, u) => Created(e, u)'
<1> USE DEF Execute, tables
<1>1. CASE Arrive(t)
  BY <1>1 DEF Arrive, Created, Exists
<1>2. CASE Identify(t)
  BY <1>2 DEF Identify, FoundSession, CreateAnonymousUser, FinalizeUser, VerifyLogin,
              RejectLogin, CreateSession, FinalizeSession, Authorize, Forbid, Unauthenticated, RejectContent,
              Created, Exists
<1>3. CASE Insert(t)
  <2>1. users' = users
    BY <1>3 DEF Insert
  <2>2. \A e \in EntryId : \A u : Created(e, u) => Created(e, u)'
    BY <1>3, InsertShape, NoRowAssumption DEF TypeOK, Created, Exists
  <2> QED BY <2>1, <2>2
<1>4. CASE Update(t)
  BY <1>4, UpdateShape, SetKeeps DEF UpdateAs
<1>5. CASE Like(t) \/ Unlike(t)
  BY <1>5 DEF Like, Unlike, Created, Exists
<1>6. CASE Answer(t)
  BY <1>6 DEF Answer, FinalizeInsert, ReadAffected, CheckVisible, StatementFails, ResponseFails, Finish,
              Created, Exists
<1> QED BY <1>1, <1>2, <1>3, <1>4, <1>5, <1>6 DEF Step, Statement, Update

-----------------------------------------------------------------------------
(* What each handler holds.                                                *)

\* A handler that another one interleaves with keeps what it holds.
LEMMA OthersHold ==
    ASSUME TypeOK, InHand, NEW t \in Thread, NEW x \in Thread \ {t}, Step(t)
    PROVE  Holds(x)'
<1>1. pc'[x] = pc[x] /\ req'[x] = req[x] /\ reply'[x] = reply[x]
  BY Alone
<1>2. users \subseteq users' /\ \A e \in EntryId : \A u : Created(e, u) => Created(e, u)'
  BY RowsStay
<1>3. Holds(x)
  BY DEF InHand
<1>4. HoldsPost(x)' = HoldsPost(x)
  BY <1>1 DEF HoldsPost, Answered
<1>5. HoldsPost(x)' =>
        /\ req'[x].entry \in EntryId
        /\ Created(req[x].entry, req[x].user)'
  <2>1. HoldsPost(x) => req[x].entry \in EntryId /\ Created(req[x].entry, req[x].user)
    BY <1>3 DEF Holds
  <2> QED BY <2>1, <1>1, <1>2, <1>4 DEF Created, Exists
<1> QED BY <1>1, <1>2, <1>3, <1>5 DEF Holds, Created, Exists

LEMMA SelfHolds ==
    ASSUME TypeOK, InHand, ForeignKeys, NEW t \in Thread, Step(t)
    PROVE  Holds(t)'
<1>0. Holds(t) /\ Admin \subseteq users
  BY DEF InHand
<1>a. users \subseteq users'
  BY RowsStay
<1>b. req[t] \in Request /\ t \in DOMAIN req /\ t \in DOMAIN pc /\ t \in DOMAIN reply
  BY DEF TypeOK
<1>1. CASE Arrive(t)
  BY <1>1, <1>0, <1>b DEF Arrive, Goto, Holds, HoldsPost, Answered, Working, Counted, AdminKinds
<1>2. CASE Identify(t)
  <2> USE <1>0, <1>a, <1>b DEF Goto, Respond, Holds, HoldsPost, Answered, Working, tables,
                               observer, Request
  <2>1. CASE FoundSession(t)
    BY <2>1 DEF FoundSession, ForeignKeys, OwnerKinds, AdminKinds
  <2>2. CASE CreateAnonymousUser(t)
    BY <2>2 DEF CreateAnonymousUser, OwnerKinds, AdminKinds
  <2>3. CASE FinalizeUser(t)
    BY <2>3 DEF FinalizeUser
  <2>4. CASE VerifyLogin(t)
    BY <2>4 DEF VerifyLogin, AdminKinds
  <2>5. CASE RejectLogin(t)
    BY <2>5 DEF RejectLogin
  <2>6. CASE CreateSession(t)
    BY <2>6 DEF CreateSession
  <2>7. CASE Authorize(t)
    BY <2>7 DEF Authorize
  <2>8. CASE Forbid(t)
    BY <2>8 DEF Forbid
  <2>9. CASE Unauthenticated(t)
    BY <2>9 DEF Unauthenticated
  <2>10. CASE RejectContent(t)
    BY <2>10 DEF RejectContent
  <2>11. CASE FinalizeSession(t)
    BY <2>11 DEF FinalizeSession
  <2> QED BY <1>2, <2>1, <2>2, <2>3, <2>4, <2>5, <2>6, <2>7, <2>8, <2>9, <2>10, <2>11 DEF Identify
<1>3. CASE Insert(t)
  <2> DEFINE row == [creator |-> req[t].user, deleted |-> FALSE,
                     hidden |-> FALSE, response |-> NoResponse]
  <2>1. PICK f \in EntryId : /\ entries' = [entries EXCEPT ![f] = row]
                             /\ req' = [req EXCEPT ![t].entry = f]
                             /\ row \in Row
    BY <1>3, InsertShape
  <2>2. req'[t].entry = f /\ req'[t].user = req[t].user /\ req'[t].kind = req[t].kind
    BY <2>1, <1>b DEF Request
  <2>3. entries'[f] = row
    BY <2>1 DEF TypeOK
  <2>4. Created(req[t].entry, req[t].user)'
    <3>1. row # NoRow
      BY <2>1, NoRowAssumption
    <3>2. row.creator = req[t].user
      OBVIOUS
    <3> HIDE DEF row
    <3> QED BY <2>2, <2>3, <3>1, <3>2 DEF Created, Exists
  <2>5. req[t].user \in users
    BY <1>3, <1>0 DEF Insert, Holds, Working
  <2>6. pc'[t] = "postRow" /\ req[t].kind = "post" /\ users' = users
    BY <1>3, <1>b DEF Insert, Goto
  <2> QED BY <2>2, <2>4, <2>5, <2>6 DEF Holds, HoldsPost, Answered, Counted, AdminKinds, Working
<1>4. CASE Update(t) \/ Like(t) \/ Unlike(t)
  <2>1. /\ pc[t] = "exec" /\ pc'[t] = "affected"
        /\ req' = req /\ users' = users
        /\ req[t].kind \in Counted
    <3>1. CASE Update(t)
      <4>0. PICK where \in BOOLEAN : \E row : UpdateAs(t, where, row)
        BY <3>1, UpdateShape
      <4>1. PICK row : UpdateAs(t, where, row)
        BY <4>0
      <4> QED BY <4>1, <1>b DEF UpdateAs, Execute, Goto
    <3>2. CASE Like(t) \/ Unlike(t)
      BY <3>2, <1>b DEF Like, Unlike, Execute, Goto, Counted
    <3> QED BY <1>4, <3>1, <3>2
  <2> QED BY <2>1, <1>0, <1>b DEF Holds, HoldsPost, Answered, Working, Counted, AdminKinds
<1>5. CASE Answer(t)
  <2> USE <1>0, <1>a, <1>b DEF Goto, Respond, Holds, HoldsPost, Answered, Working, tables,
                               observer, Request
  <2>1. CASE FinalizeInsert(t)
    BY <2>1 DEF FinalizeInsert, Created, Exists
  <2>2. CASE ReadAffected(t)
    BY <2>2 DEF ReadAffected, Counted, AdminKinds
  <2>3. CASE CheckVisible(t)
    BY <2>3 DEF CheckVisible
  <2>4. CASE StatementFails(t)
    BY <2>4 DEF StatementFails
  <2>5. CASE Finish(t)
    BY <2>5 DEF Finish, NoRequest, Counted, AdminKinds
  <2>6. CASE ResponseFails(t)
    BY <2>6 DEF ResponseFails
  <2> QED BY <1>5, <2>1, <2>2, <2>3, <2>4, <2>5, <2>6 DEF Answer
<1> QED BY <1>1, <1>2, <1>3, <1>4, <1>5 DEF Step, Statement, Update

LEMMA HoldStep ==
    ASSUME TypeOK, InHand, ForeignKeys, [Next]_vars
    PROVE  InHand'
<1>1. ASSUME NEW t \in Thread, Step(t) PROVE InHand'
  <2>1. Admin \subseteq users'
    BY <1>1, RowsStay DEF InHand
  <2>2. ASSUME NEW x \in Thread PROVE Holds(x)'
    BY <1>1, SelfHolds, OthersHold
  <2> QED BY <2>1, <2>2 DEF InHand
<1>2. ASSUME NEW u \in User, ExpireSession(u) PROVE InHand'
  BY <1>2 DEF ExpireSession, handler, InHand, Holds, HoldsPost, Answered, Created, Exists
<1>3. CASE UNCHANGED vars
  BY <1>3 DEF vars, tables, handler, InHand, Holds, HoldsPost, Answered, Created, Exists
<1> QED BY <1>1, <1>2, <1>3 DEF Next, Step

-----------------------------------------------------------------------------
(* Foreign keys.                                                           *)

LEMMA KeyStep ==
    ASSUME TypeOK, InHand, ForeignKeys, [Next]_vars
    PROVE  ForeignKeys'
<1>1. ASSUME NEW t \in Thread, Step(t) PROVE ForeignKeys'
  <2>0. Holds(t)
    BY DEF InHand
  <2>a. users \subseteq users' /\ \A e \in EntryId : \A u : Created(e, u) => Created(e, u)'
    BY <1>1, RowsStay
  <2>1. CASE CreateAnonymousUser(t) \/ UNCHANGED tables
    BY <2>1, <2>a DEF CreateAnonymousUser, tables, ForeignKeys, Exists
  <2>2. CASE CreateSession(t)
    BY <2>2, <2>0 DEF CreateSession, ForeignKeys, Exists, Holds, Working
  <2>3. CASE Insert(t)
    <3>1. req[t].user \in users
      BY <2>3, <2>0 DEF Insert, Holds, Working
    <3>2. UNCHANGED <<likes, users, sessions>>
      BY <2>3 DEF Insert
    <3>3. ASSUME NEW e \in EntryId, Exists(e)' PROVE entries'[e].creator \in users'
      <4> DEFINE row == [creator |-> req[t].user, deleted |-> FALSE,
                         hidden |-> FALSE, response |-> NoResponse]
      <4>1. PICK f \in EntryId : entries' = [entries EXCEPT ![f] = row]
        BY <2>3, InsertShape
      <4>2. row.creator \in users
        BY <3>1
      <4> HIDE DEF row
      <4> QED BY <3>2, <3>3, <4>1, <4>2 DEF ForeignKeys, Exists, TypeOK
    <3>4. ASSUME NEW pair \in likes PROVE Exists(pair[1])'
      <4>1. pair[1] \in EntryId /\ Exists(pair[1])
        BY DEF ForeignKeys, TypeOK
      <4> QED BY <4>1, <2>a DEF Created, Exists
    <3> QED BY <3>2, <3>3, <3>4 DEF ForeignKeys, Exists
  <2>4. CASE Update(t)
    <3>0. PICK where \in BOOLEAN : \E row : UpdateAs(t, where, row)
      BY <2>4, UpdateShape
    <3>1. PICK row : UpdateAs(t, where, row)
      BY <3>0
    <3>2. UNCHANGED <<likes, users, sessions>>
      BY <3>1 DEF UpdateAs, Execute
    <3>3. ASSUME NEW e \in EntryId, Exists(e)' PROVE entries'[e].creator \in users'
      BY <3>1, <3>2, <3>3 DEF UpdateAs, Set, ForeignKeys, Exists, TypeOK
    <3>4. ASSUME NEW pair \in likes PROVE Exists(pair[1])'
      <4>1. pair[1] \in EntryId /\ Exists(pair[1])
        BY DEF ForeignKeys, TypeOK
      <4> QED BY <4>1, <2>a DEF Created, Exists
    <3> QED BY <3>2, <3>3, <3>4 DEF ForeignKeys, Exists
  <2>5. CASE Like(t)
    <3>1. req[t].user \in users
      BY <2>5, <2>0 DEF Like, Execute, Holds, Working
    <3>2. UNCHANGED <<entries, users, sessions>>
      BY <2>5 DEF Like, Execute
    <3>3. likes' = likes \/ (Exists(req[t].entry) /\ likes' = likes \cup {<<req[t].entry, req[t].user>>})
      BY <2>5 DEF Like, Visible
    <3> QED BY <3>1, <3>2, <3>3 DEF ForeignKeys, Exists
  <2>6. CASE Unlike(t)
    BY <2>6 DEF Unlike, Execute, ForeignKeys, Exists
  <2> QED BY <1>1, <2>1, <2>2, <2>3, <2>4, <2>5, <2>6, TableSteps
<1>2. ASSUME NEW u \in User, ExpireSession(u) PROVE ForeignKeys'
  BY <1>2 DEF ExpireSession, ForeignKeys, Exists
<1>3. CASE UNCHANGED vars
  BY <1>3 DEF vars, tables, ForeignKeys, Exists
<1> QED BY <1>1, <1>2, <1>3 DEF Next, Step

-----------------------------------------------------------------------------
(* Posts.                                                                  *)

\* Only an insert, and the finalization that follows it, ends with a new entry
\* in the handler's hands.
LEMMA OnlyInsertsPost ==
    ASSUME TypeOK, InHand, NEW t \in Thread, Step(t)
    PROVE  Insert(t) \/ FinalizeInsert(t) \/ ~HoldsPost(t)'
<1>0. Holds(t)
  BY DEF InHand
<1>a. t \in DOMAIN req /\ t \in DOMAIN pc /\ t \in DOMAIN reply /\ req[t] \in Request
  BY DEF TypeOK
<1> USE <1>0, <1>a DEF Goto, Respond, HoldsPost, Answered, Holds, Counted, AdminKinds
<1>1. CASE Arrive(t)
  BY <1>1 DEF Arrive
<1>2. CASE Identify(t)
  BY <1>2 DEF Identify, FoundSession, CreateAnonymousUser, FinalizeUser, VerifyLogin,
              RejectLogin, CreateSession, FinalizeSession, Authorize, Forbid, Unauthenticated, RejectContent
<1>3. CASE Statement(t)
  <2>1. Insert(t) \/ pc'[t] = "affected"
    BY <1>3 DEF Statement, RespondEntry, ClearResponse, Delete, HideEntry, UnhideEntry,
                Like, Unlike, Execute
  <2> QED BY <2>1
<1>4. CASE Answer(t)
  BY <1>4 DEF Answer, ReadAffected, CheckVisible, StatementFails, ResponseFails, Finish
<1> QED BY <1>1, <1>2, <1>3, <1>4 DEF Step

LEMMA PostsStep ==
    ASSUME TypeOK, InHand, PostsApart, [Next]_vars
    PROVE  PostsApart'
<1>1. ASSUME NEW t \in Thread, Step(t) PROVE PostsApart'
  <2>1. ASSUME NEW x \in Thread \ {t}
        PROVE  req'[x] = req[x] /\ HoldsPost(x)' = HoldsPost(x)
    BY <1>1, Alone DEF HoldsPost, Answered
  <2>2. CASE Insert(t)
    <3>1. PICK f \in EntryId : ~Exists(f) /\ req' = [req EXCEPT ![t].entry = f]
      BY <2>2, InsertShape
    <3>2. req'[t].entry = f
      BY <3>1 DEF TypeOK, Request
    <3>3. ASSUME NEW x \in Thread \ {t}, HoldsPost(x) PROVE req[x].entry # f
      BY <3>1, <3>3 DEF InHand, Holds, Created
    <3> QED BY <2>1, <3>2, <3>3 DEF PostsApart
  <2>3. CASE FinalizeInsert(t)
    <3>1. HoldsPost(t) /\ req' = req
      BY <2>3 DEF FinalizeInsert, HoldsPost
    <3> QED BY <2>1, <3>1 DEF PostsApart
  <2>4. CASE ~HoldsPost(t)'
    BY <2>1, <2>4 DEF PostsApart
  <2> QED BY <1>1, <2>2, <2>3, <2>4, OnlyInsertsPost
<1>2. ASSUME NEW u \in User, ExpireSession(u) PROVE PostsApart'
  BY <1>2 DEF ExpireSession, handler, PostsApart, HoldsPost, Answered
<1>3. CASE UNCHANGED vars
  BY <1>3 DEF vars, handler, PostsApart, HoldsPost, Answered
<1> QED BY <1>1, <1>2, <1>3 DEF Next, Step

-----------------------------------------------------------------------------
(* The answer of a handler nobody disturbed.                               *)

Truth(t) == OwnCounter(t) /\ (Answered(t, Counted) /\ ~disturbed[t] =>
                /\ reply[t] = "ok" => Achieved(req[t])
                /\ reply[t] = "flight_log_not_found" => Impossible(req[t]) /\ ~hit[t])

\* What is true of a request depends on entries and likes only.
LEMMA SameTables ==
    ASSUME entries' = entries, likes' = likes, NEW x \in Thread, req'[x] = req[x]
    PROVE  /\ Achieved(req[x])' = Achieved(req[x])
           /\ Impossible(req[x])' = Impossible(req[x])
           /\ NothingToDo(req[x])' = NothingToDo(req[x])
BY DEF Achieved, Impossible, NothingToDo, Visible, Created, Exists

LEMMA OthersTruth ==
    ASSUME TypeOK, NEW t \in Thread, NEW x \in Thread \ {t}, Truth(x), Step(t)
    PROVE  Truth(x)'
<1>1. pc'[x] = pc[x] /\ req'[x] = req[x] /\ reply'[x] = reply[x] /\ hit'[x] = hit[x]
  BY Alone
<1>2. CASE pc[x] \in Unanswered \cup {"done"} => disturbed'[x]
  BY <1>1, <1>2 DEF Truth, OwnCounter, Answered, Unanswered
<1>3. CASE /\ entries' = entries /\ likes' = likes /\ changes' = changes
           /\ disturbed'[x] = disturbed[x]
  BY <1>1, <1>3, SameTables DEF Truth, OwnCounter, Answered
<1> QED BY <1>2, <1>3, WritesDisturb

\* What the step that runs a counted statement says of its handler, given what
\* the statement did when its WHERE clause held and when it did not.
AsItWent(t) ==
    /\ pc'[t] = "affected" /\ req' = req /\ reply' = reply
    /\ changes' = IF hit'[t] THEN 1 ELSE 0
    /\ hit'[t] => Achieved(req[t])'
    /\ ~hit'[t] => NothingToDo(req[t])'

LEMMA SettledBy ==
    ASSUME TypeOK, NEW t \in Thread, NEW kind, NEW where \in BOOLEAN, Execute(t, kind, where),
           where => Achieved(req[t])', ~where => NothingToDo(req[t])'
    PROVE  AsItWent(t)
BY DEF TypeOK, Execute, Goto, AsItWent

LEMMA StatementTruth ==
    ASSUME TypeOK, InHand, NEW t \in Thread, Statement(t), ~Insert(t)
    PROVE  AsItWent(t)
<1> DEFINE e == req[t].entry
<1>a. Exists(e) \in BOOLEAN /\ Created(e, req[t].user) \in BOOLEAN
  BY DEF Exists, Created
<1>b. req[t].kind \in Counted => e \in EntryId
  BY DEF InHand, Holds
<1>c. e \in EntryId /\ Exists(e) => entries[e] \in Row
  BY DEF TypeOK, Exists
<1>d. \A row \in Row : row # NoRow
  BY NoRowAssumption
<1>1. CASE RespondEntry(t)
  <2>1. /\ Execute(t, "respond", Exists(e)) /\ req[t].kind = "respond"
        /\ e \in EntryId /\ req' = req
    BY <1>1, <1>b DEF RespondEntry, Execute, Counted, AdminKinds
  <2>2. PICK text \in Text : Set(e, Exists(e), [entries[e] EXCEPT !.response = text])
    BY <1>1 DEF RespondEntry
  <2>3. Exists(e) =>
          /\ entries'[e] \in Row /\ entries'[e].response = text
    <3>1. Exists(e) => entries'[e] = [entries[e] EXCEPT !.response = text]
      BY <2>1, <2>2 DEF Set, TypeOK
    <3> QED BY <2>1, <3>1, <1>c DEF Row
  <2>4. ~(Exists(e)) => entries' = entries
    BY <2>1, <2>2 DEF Set, TypeOK
  <2>5. Exists(e) => Achieved(req[t])'
    BY <2>1, <2>3, <1>d, NoResponseAssumption DEF Achieved, Created, Exists
  <2>6. ~(Exists(e)) => NothingToDo(req[t])'
    BY <2>1, <2>4 DEF NothingToDo, Impossible, AdminKinds, Created, Exists
  <2> QED BY <2>1, <2>5, <2>6, <1>a, SettledBy
<1>2. CASE ClearResponse(t)
  <2>1. /\ Execute(t, "clear", Exists(e)) /\ req[t].kind = "clear"
        /\ e \in EntryId /\ req' = req
    BY <1>2, <1>b DEF ClearResponse, Execute, Counted, AdminKinds
  <2>2. Set(e, Exists(e), [entries[e] EXCEPT !.response = NoResponse])
    BY <1>2 DEF ClearResponse
  <2>3. Exists(e) =>
          /\ entries'[e] \in Row /\ entries'[e].response = NoResponse
    <3>1. Exists(e) => entries'[e] = [entries[e] EXCEPT !.response = NoResponse]
      BY <2>1, <2>2 DEF Set, TypeOK
    <3> QED BY <2>1, <3>1, <1>c DEF Row
  <2>4. ~(Exists(e)) => entries' = entries
    BY <2>1, <2>2 DEF Set, TypeOK
  <2>5. Exists(e) => Achieved(req[t])'
    BY <2>1, <2>3, <1>d DEF Achieved, Created, Exists
  <2>6. ~(Exists(e)) => NothingToDo(req[t])'
    BY <2>1, <2>4 DEF NothingToDo, Impossible, AdminKinds, Created, Exists
  <2> QED BY <2>1, <2>5, <2>6, <1>a, SettledBy
<1>3. CASE Delete(t)
  <2>1. /\ Execute(t, "delete", Created(e, req[t].user)) /\ req[t].kind = "delete"
        /\ e \in EntryId /\ req' = req
    BY <1>3, <1>b DEF Delete, Execute, Counted, AdminKinds
  <2>2. Set(e, Created(e, req[t].user), [entries[e] EXCEPT !.deleted = TRUE])
    BY <1>3 DEF Delete
  <2>3. Created(e, req[t].user) =>
          /\ entries'[e] \in Row /\ entries'[e].deleted /\ entries'[e].creator = req[t].user
    <3>1. Created(e, req[t].user) => entries'[e] = [entries[e] EXCEPT !.deleted = TRUE]
      BY <2>1, <2>2 DEF Set, TypeOK
    <3> QED BY <2>1, <3>1, <1>c DEF Row, Created
  <2>4. ~(Created(e, req[t].user)) => entries' = entries
    BY <2>1, <2>2 DEF Set, TypeOK
  <2>5. Created(e, req[t].user) => Achieved(req[t])'
    BY <2>1, <2>3, <1>d DEF Achieved, Created, Exists
  <2>6. ~(Created(e, req[t].user)) => NothingToDo(req[t])'
    BY <2>1, <2>4 DEF NothingToDo, Impossible, AdminKinds, Created, Exists
  <2> QED BY <2>1, <2>5, <2>6, <1>a, SettledBy
<1>4. CASE HideEntry(t)
  <2>1. /\ Execute(t, "hide", Exists(e)) /\ req[t].kind = "hide"
        /\ e \in EntryId /\ req' = req
    BY <1>4, <1>b DEF HideEntry, Execute, Counted, AdminKinds
  <2>2. Set(e, Exists(e), [entries[e] EXCEPT !.hidden = TRUE])
    BY <1>4 DEF HideEntry
  <2>3. Exists(e) =>
          /\ entries'[e] \in Row /\ entries'[e].hidden
    <3>1. Exists(e) => entries'[e] = [entries[e] EXCEPT !.hidden = TRUE]
      BY <2>1, <2>2 DEF Set, TypeOK
    <3> QED BY <2>1, <3>1, <1>c DEF Row
  <2>4. ~(Exists(e)) => entries' = entries
    BY <2>1, <2>2 DEF Set, TypeOK
  <2>5. Exists(e) => Achieved(req[t])'
    BY <2>1, <2>3, <1>d DEF Achieved, Created, Exists
  <2>6. ~(Exists(e)) => NothingToDo(req[t])'
    BY <2>1, <2>4 DEF NothingToDo, Impossible, AdminKinds, Created, Exists
  <2> QED BY <2>1, <2>5, <2>6, <1>a, SettledBy
<1>5. CASE UnhideEntry(t)
  <2>1. /\ Execute(t, "unhide", Exists(e)) /\ req[t].kind = "unhide"
        /\ e \in EntryId /\ req' = req
    BY <1>5, <1>b DEF UnhideEntry, Execute, Counted, AdminKinds
  <2>2. Set(e, Exists(e), [entries[e] EXCEPT !.hidden = FALSE])
    BY <1>5 DEF UnhideEntry
  <2>3. Exists(e) =>
          /\ entries'[e] \in Row /\ ~entries'[e].hidden
    <3>1. Exists(e) => entries'[e] = [entries[e] EXCEPT !.hidden = FALSE]
      BY <2>1, <2>2 DEF Set, TypeOK
    <3> QED BY <2>1, <3>1, <1>c DEF Row
  <2>4. ~(Exists(e)) => entries' = entries
    BY <2>1, <2>2 DEF Set, TypeOK
  <2>5. Exists(e) => Achieved(req[t])'
    BY <2>1, <2>3, <1>d DEF Achieved, Created, Exists
  <2>6. ~(Exists(e)) => NothingToDo(req[t])'
    BY <2>1, <2>4 DEF NothingToDo, Impossible, AdminKinds, Created, Exists
  <2> QED BY <2>1, <2>5, <2>6, <1>a, SettledBy
<1>6. CASE Like(t)
  <2> DEFINE new == Visible(e) /\ <<e, req[t].user>> \notin likes
  <2>1. Execute(t, "like", new) /\ req[t].kind = "like" /\ req' = req
    BY <1>6 DEF Like, Execute
  <2>2. new \in BOOLEAN
    OBVIOUS
  <2>3. new => <<e, req[t].user>> \in likes'
    BY <1>6 DEF Like
  <2>4. ~new => (Visible(e)' => <<e, req[t].user>> \in likes')
    BY <1>6, <2>1 DEF Like, Visible, Exists
  <2> HIDE DEF new
  <2> QED BY <2>1, <2>2, <2>3, <2>4, SettledBy
          DEF Achieved, NothingToDo, AdminKinds, Visible, Exists
<1>7. CASE Unlike(t)
  <2> DEFINE there == <<e, req[t].user>> \in likes
  <2>1. Execute(t, "unlike", there) /\ req[t].kind = "unlike" /\ req' = req
    BY <1>7 DEF Unlike, Execute
  <2>2. there \in BOOLEAN
    OBVIOUS
  <2>3. <<e, req[t].user>> \notin likes'
    BY <1>7 DEF Unlike
  <2> HIDE DEF there
  <2> QED BY <2>1, <2>2, <2>3, SettledBy
          DEF Achieved, NothingToDo, AdminKinds, Visible, Exists
<1> QED BY <1>1, <1>2, <1>3, <1>4, <1>5, <1>6, <1>7 DEF Statement

LEMMA SelfTruth ==
    ASSUME TypeOK, InHand, NEW t \in Thread, Truth(t), Step(t)
    PROVE  Truth(t)'
<1>0. Holds(t)
  BY DEF InHand
<1>a. t \in DOMAIN req /\ t \in DOMAIN pc /\ t \in DOMAIN reply
  BY DEF TypeOK
<1>1. CASE Arrive(t)
  BY <1>1, <1>a DEF Arrive, Goto, Truth, OwnCounter, Answered
<1>2. CASE Identify(t)
  <2> USE <1>0, <1>a DEF Goto, Respond, Truth, OwnCounter, Answered, Counted, AdminKinds
  <2>1. CASE FoundSession(t) \/ CreateAnonymousUser(t) \/ FinalizeUser(t) \/ VerifyLogin(t)
             \/ Authorize(t)
    BY <2>1 DEF FoundSession, CreateAnonymousUser, FinalizeUser, VerifyLogin, Authorize
  <2>2. CASE RejectLogin(t) \/ Forbid(t) \/ Unauthenticated(t) \/ RejectContent(t)
    BY <2>2 DEF RejectLogin, Forbid, Unauthenticated, RejectContent
  <2>3. CASE CreateSession(t) \/ FinalizeSession(t)
    BY <2>3 DEF CreateSession, FinalizeSession
  <2> QED BY <1>2, <2>1, <2>2, <2>3 DEF Identify
<1>3. CASE Insert(t)
  BY <1>3, <1>a DEF Insert, Goto, Truth, OwnCounter, Answered
<1>4. CASE Statement(t) /\ ~Insert(t)
  BY <1>4, StatementTruth DEF AsItWent, Truth, OwnCounter, Answered
<1>5. CASE FinalizeInsert(t)
  BY <1>5, <1>0, <1>a DEF FinalizeInsert, Respond, Goto, Holds, Truth, OwnCounter, Answered,
                          Counted, AdminKinds
<1>6. CASE ReadAffected(t)
  <2>1. /\ entries' = entries /\ likes' = likes /\ changes' = changes /\ req' = req
        /\ hit' = hit /\ disturbed' = disturbed
    BY <1>6 DEF ReadAffected, tables, observer
  <2>2. /\ Achieved(req[t])' = Achieved(req[t]) /\ Impossible(req[t])' = Impossible(req[t])
        /\ NothingToDo(req[t])' = NothingToDo(req[t])
    BY <2>1, SameTables
  <2>3. ~disturbed[t] => /\ changes = IF hit[t] THEN 1 ELSE 0
                         /\ hit[t] => Achieved(req[t])
                         /\ ~hit[t] => NothingToDo(req[t])
    BY <1>6 DEF ReadAffected, Truth, OwnCounter
  <2>7. req[t].kind \in Counted
    BY <1>6, <1>0 DEF ReadAffected, Holds
  <2>4. CASE pc'[t] = "check" /\ changes = 0
    BY <2>1, <2>2, <2>3, <2>4 DEF Truth, OwnCounter, Answered
  <2>5. CASE /\ pc'[t] = "done" /\ reply'[t] = "ok" /\ changes # 0
    BY <2>1, <2>2, <2>3, <2>5 DEF Truth, OwnCounter, Answered
  <2>6. CASE /\ pc'[t] = "done" /\ reply'[t] = "flight_log_not_found" /\ changes = 0
             /\ req[t].kind \notin {"like", "unlike"}
    <3>1. NothingToDo(req[t]) => Impossible(req[t])
      BY <2>6, <2>7 DEF NothingToDo, Counted
    <3> QED BY <2>1, <2>2, <2>3, <2>6, <3>1 DEF Truth, OwnCounter, Answered
  <2> QED BY <1>6, <1>a, <2>4, <2>5, <2>6 DEF ReadAffected, Respond, Goto
<1>7. CASE CheckVisible(t)
  <2>1. /\ entries' = entries /\ likes' = likes /\ req' = req
        /\ hit' = hit /\ disturbed' = disturbed
    BY <1>7 DEF CheckVisible, tables, observer
  <2>2. Achieved(req[t])' = Achieved(req[t]) /\ Impossible(req[t])' = Impossible(req[t])
    BY <2>1, SameTables
  <2>3. /\ req[t].kind \in {"like", "unlike"}
        /\ ~disturbed[t] => ~hit[t] /\ NothingToDo(req[t])
    BY <1>7, <1>0 DEF CheckVisible, Truth, OwnCounter, Holds
  <2>4. /\ pc'[t] = "done"
        /\ reply'[t] = IF Visible(req[t].entry) THEN "ok" ELSE "flight_log_not_found"
    BY <1>7, <1>a DEF CheckVisible, Respond, Goto
  <2>5. ~disturbed[t] => /\ reply'[t] = "ok" => Achieved(req[t])
                         /\ reply'[t] = "flight_log_not_found" => Impossible(req[t]) /\ ~hit[t]
    <3>1. Impossible(req[t]) <=> ~Visible(req[t].entry)
      BY <2>3 DEF Impossible, AdminKinds, Visible
    <3> QED BY <2>3, <2>4, <3>1 DEF NothingToDo, AdminKinds
  <2> QED BY <2>1, <2>2, <2>4, <2>5 DEF Truth, OwnCounter, Answered
<1>8. CASE StatementFails(t)
  BY <1>8, <1>a DEF StatementFails, Respond, Goto, Truth, OwnCounter, Answered
<1>9. CASE Finish(t)
  BY <1>9, <1>a DEF Finish, Goto, Truth, OwnCounter, Answered
<1>10. CASE ResponseFails(t)
  BY <1>10, <1>a DEF ResponseFails, Truth, OwnCounter, Answered
<1> QED BY <1>1, <1>2, <1>3, <1>4, <1>5, <1>6, <1>7, <1>8, <1>9, <1>10 DEF Step, Answer

LEMMA TruthStep ==
    ASSUME TypeOK, InHand, \A t \in Thread : Truth(t), [Next]_vars
    PROVE  \A t \in Thread : Truth(t)'
<1>1. ASSUME NEW t \in Thread, Step(t) PROVE \A x \in Thread : Truth(x)'
  BY <1>1, SelfTruth, OthersTruth
<1>2. CASE UNCHANGED <<entries, likes, changes, handler, observer>>
  <2>1. ASSUME NEW x \in Thread PROVE Truth(x)'
    <3>1. /\ Achieved(req[x])' = Achieved(req[x]) /\ Impossible(req[x])' = Impossible(req[x])
          /\ NothingToDo(req[x])' = NothingToDo(req[x])
      BY <1>2, SameTables DEF handler
    <3>2. Truth(x)
      OBVIOUS
    <3> QED BY <1>2, <3>1, <3>2 DEF handler, observer, Truth, OwnCounter, Answered
  <2> QED BY <2>1
<1> QED BY <1>1, <1>2 DEF Next, Step, ExpireSession, vars, tables

-----------------------------------------------------------------------------
(* The inductive invariant and what follows from it.                       *)

LEMMA IndStart == Init => IndInv
<1> SUFFICES ASSUME Init PROVE IndInv
  OBVIOUS
<1>1. TypeOK
  BY InitType
<1>2. InHand
  BY DEF Init, InHand, Holds, HoldsPost, Answered, Working, NoRequest, Counted, AdminKinds
<1>3. ForeignKeys
  BY DEF Init, ForeignKeys, Exists
<1>4. PostsApart
  BY DEF Init, PostsApart, HoldsPost, Answered
<1>5. UndisturbedReply /\ \A t \in Thread : OwnCounter(t)
  BY DEF Init, UndisturbedReply, OwnCounter, Answered
<1> QED BY <1>1, <1>2, <1>3, <1>4, <1>5 DEF IndInv

LEMMA IndStep == IndInv /\ [Next]_vars => IndInv'
<1> SUFFICES ASSUME IndInv, [Next]_vars PROVE IndInv'
  OBVIOUS
<1>1. TypeOK /\ InHand /\ ForeignKeys /\ PostsApart
  BY DEF IndInv
<1>2. \A t \in Thread : Truth(t)
  BY DEF IndInv, Truth, UndisturbedReply
<1>3. \A t \in Thread : Truth(t)'
  BY <1>1, <1>2, TruthStep
<1>4. UndisturbedReply' /\ \A t \in Thread : OwnCounter(t)'
  BY <1>3 DEF Truth, UndisturbedReply
<1> QED BY <1>1, <1>4, TypeStep, HoldStep, KeyStep, PostsStep DEF IndInv

LEMMA Inductive == Spec => []IndInv
BY IndStart, IndStep, PTL DEF Spec

\* Every reachable state is well typed: the counter is the row count of one
\* statement, never a running total, and every request names a real user.
THEOREM TypeCorrect == Spec => []TypeOK
<1>1. IndInv => TypeOK
  BY DEF IndInv
<1> QED BY <1>1, Inductive, PTL

\* Whatever the number of threads, an answer is true of the tables unless some
\* other thread wrote between the statement and the answer: the counter shared
\* by the threads is the only way the API can misinform a client.
THEOREM UndisturbedRepliesTrue == Spec => []UndisturbedReply
<1>1. IndInv => UndisturbedReply
  BY DEF IndInv
<1> QED BY <1>1, Inductive, PTL

\* A post is always answered with the id of the author's own new entry, and no
\* two posts with the same id, because the id comes from RETURNING.
THEOREM PostsAreOwn == Spec => []PostIsOwn
<1>1. IndInv => PostIsOwn
  BY DEF IndInv, InHand, Holds, PostsApart, HoldsPost, PostIsOwn
<1> QED BY <1>1, Inductive, PTL

-----------------------------------------------------------------------------
(* The tables implement the abstract board.                                *)

\* An UPDATE whose WHERE clause does not hold leaves the table as it is.
LEMMA SetNothing ==
    ASSUME TypeOK, NEW e \in EntryId, NEW row, NEW where \in BOOLEAN, ~where, Set(e, where, row)
    PROVE  entries' = entries
BY DEF TypeOK, Set

\* One that does hold shows on the board at that entry only.
LEMMA SetOne ==
    ASSUME TypeOK, NEW e \in EntryId, Exists(e), NEW row \in Row, NEW where \in BOOLEAN, where,
           Set(e, where, row), row.creator = entries[e].creator
    PROVE  /\ authorOf' = authorOf
           /\ removedSet' = IF row.deleted THEN removedSet \cup {e} ELSE removedSet \ {e}
           /\ hiddenSet' = IF row.hidden THEN hiddenSet \cup {e} ELSE hiddenSet \ {e}
           /\ answerOf' = [answerOf EXCEPT ![e] = row.response]
<1>1. entries' = [entries EXCEPT ![e] = row] /\ row # NoRow
  BY NoRowAssumption DEF Set
<1>2. entries'[e] = row /\ \A f \in EntryId \ {e} : entries'[f] = entries[f]
  BY <1>1 DEF TypeOK
<1>3. authorOf' = authorOf
  BY <1>1, <1>2 DEF authorOf, Exists
<1>4. removedSet' = IF row.deleted THEN removedSet \cup {e} ELSE removedSet \ {e}
  BY <1>1, <1>2 DEF removedSet, Exists
<1>5. hiddenSet' = IF row.hidden THEN hiddenSet \cup {e} ELSE hiddenSet \ {e}
  BY <1>1, <1>2 DEF hiddenSet, Exists
<1>6. answerOf' = [answerOf EXCEPT ![e] = row.response]
  <2>1. answerOf' = [f \in EntryId |-> IF entries'[f] # NoRow THEN entries'[f].response ELSE NoResponse]
    BY DEF answerOf, Exists
  <2>2. \A f \in EntryId : answerOf'[f] = IF f = e THEN row.response ELSE answerOf[f]
    BY <2>1, <1>1, <1>2 DEF answerOf, Exists
  <2> QED BY <2>1, <2>2 DEF answerOf
<1> QED BY <1>3, <1>4, <1>5, <1>6

LEMMA SameEntries ==
    ASSUME entries' = entries
    PROVE  UNCHANGED <<authorOf, removedSet, hiddenSet, answerOf>>
BY DEF authorOf, removedSet, hiddenSet, answerOf, Exists

\* The board's view of one entry.
LEMMA BoardEntry ==
    ASSUME TypeOK, NEW e \in EntryId
    PROVE  /\ e \in Board!EntryId
           /\ e \in Board!Posted <=> Exists(e)
           /\ e \in Board!Seen <=> Visible(e)
           /\ \A u \in User : authorOf[e] = u <=> Created(e, u)
<1>1. Exists(e) => entries[e] \in Row /\ entries[e].creator \in User
  BY DEF TypeOK, Exists, Row
<1>2. authorOf[e] = IF Exists(e) THEN entries[e].creator ELSE NoUser
  BY DEF authorOf
<1>3. e \in Board!Posted <=> Exists(e)
  BY <1>1, <1>2, NoUserAssumption DEF Board!Posted, Board!EntryId, EntryId
<1>4. e \in Board!Seen <=> Visible(e)
  BY <1>3 DEF Board!Seen, Visible, removedSet, hiddenSet
<1>5. \A u \in User : authorOf[e] = u <=> Created(e, u)
  BY <1>1, <1>2, NoUserAssumption DEF Created
<1> QED BY <1>3, <1>4, <1>5 DEF Board!EntryId, EntryId

\* What an UPDATE shows on the board: nothing where its condition does not hold, else
\* the columns it writes, at that entry.
LEMMA UpdateShows ==
    ASSUME TypeOK, NEW e \in EntryId, NEW where \in BOOLEAN, NEW row, Set(e, where, row),
           where => Exists(e) /\ row \in Row /\ row.creator = entries[e].creator,
           UNCHANGED <<likes, users>>
    PROVE  /\ ~where => UNCHANGED Board!boardVars
           /\ where =>
                /\ UNCHANGED <<authorOf, likes, users>>
                /\ row.deleted = entries[e].deleted => removedSet' = removedSet
                /\ row.deleted => removedSet' = removedSet \cup {e}
                /\ row.hidden = entries[e].hidden => hiddenSet' = hiddenSet
                /\ row.hidden => hiddenSet' = hiddenSet \cup {e}
                /\ ~row.hidden => hiddenSet' = hiddenSet \ {e}
                /\ row.response = entries[e].response => answerOf' = answerOf
                /\ answerOf' = [answerOf EXCEPT ![e] = row.response]
<1>1. CASE ~where
  BY <1>1, SetNothing, SameEntries DEF Board!boardVars
<1>2. CASE where
  <2>1. /\ authorOf' = authorOf
        /\ removedSet' = IF row.deleted THEN removedSet \cup {e} ELSE removedSet \ {e}
        /\ hiddenSet' = IF row.hidden THEN hiddenSet \cup {e} ELSE hiddenSet \ {e}
        /\ answerOf' = [answerOf EXCEPT ![e] = row.response]
    BY <1>2, SetOne
  <2>2. Exists(e) /\ entries[e] \in Row /\ row \in Row
    BY <1>2 DEF TypeOK, Exists
  <2>3. /\ entries[e].deleted <=> e \in removedSet
        /\ entries[e].hidden <=> e \in hiddenSet
        /\ entries[e].response = answerOf[e]
        /\ entries[e].deleted \in BOOLEAN /\ entries[e].hidden \in BOOLEAN
    BY <2>2 DEF removedSet, hiddenSet, answerOf, Row
  <2>4. row.response = entries[e].response => answerOf' = answerOf
    BY <2>1, <2>3 DEF answerOf
  <2>5. /\ row.deleted = entries[e].deleted => removedSet' = removedSet
        /\ row.hidden = entries[e].hidden => hiddenSet' = hiddenSet
    BY <2>1, <2>3
  <2> QED BY <1>2, <2>1, <2>4, <2>5
<1> QED BY <1>1, <1>2

\* The entry and the user of a handler at its UPDATE.
LEMMA UpdateHolds ==
    ASSUME TypeOK, InHand, NEW t \in Thread, Update(t)
    PROVE  /\ req[t].entry \in EntryId /\ req[t].user \in users /\ req[t].user \in User
           /\ Exists(req[t].entry) => entries[req[t].entry] \in Row
           /\ UNCHANGED <<likes, users>>
<1>1. pc[t] = "exec" /\ req[t].kind \in Counted /\ UNCHANGED <<likes, users>>
  BY DEF Update, RespondEntry, ClearResponse, Delete, HideEntry, UnhideEntry, Execute,
         Counted, AdminKinds
<1>2. req[t].entry \in EntryId /\ req[t].user \in users
  BY <1>1 DEF InHand, Holds, Working
<1> QED BY <1>1, <1>2 DEF TypeOK, Exists

\* The five UPDATEs are the operations of the board, or touch no row: an answer,
LEMMA RespondBoard ==
    ASSUME TypeOK, InHand, NEW t \in Thread, RespondEntry(t)
    PROVE  \/ Exists(req[t].entry) /\ \E text \in Text : Board!Answer(req[t].entry, text)
           \/ ~Exists(req[t].entry) /\ UNCHANGED Board!boardVars
<1> DEFINE e == req[t].entry
           u == req[t].user
<1>1. /\ e \in EntryId /\ u \in users /\ u \in User /\ UNCHANGED <<likes, users>>
      /\ Exists(e) => entries[e] \in Row
  BY UpdateHolds DEF Update
<1>2. PICK text \in Text : Set(e, Exists(e), [entries[e] EXCEPT !.response = text])
  BY DEF RespondEntry
<1> DEFINE where == Exists(e)
           row   == [entries[e] EXCEPT !.response = text]
<1>3. where \in BOOLEAN
  BY DEF Exists, Created
<1>4. where => /\ Exists(e) /\ row \in Row /\ row.creator = entries[e].creator
               /\ row.response = text /\ row.deleted = entries[e].deleted /\ row.hidden = entries[e].hidden
  BY <1>1 DEF Row, Created
<1>5. Set(e, where, row)
  BY <1>2
<1> HIDE DEF row
<1>6. CASE where
  <2>1. /\ UNCHANGED <<authorOf, likes, users>>
        /\ UNCHANGED <<removedSet, hiddenSet>> /\ answerOf' = [answerOf EXCEPT ![e] = text]
    <3>1. /\ UNCHANGED <<authorOf, likes, users, removedSet, hiddenSet>>
          /\ answerOf' = [answerOf EXCEPT ![e] = row.response]
      BY <1>1, <1>3, <1>4, <1>5, <1>6, UpdateShows
    <3> QED BY <1>4, <1>6, <3>1
  <2>2. e \in Board!Posted
    BY <1>1, <1>4, <1>6, BoardEntry
  <2>3. Board!Answer(e, text)
    BY <1>1, <2>1, <2>2 DEF Board!Answer
  <2> QED BY <1>6, <2>3
<1>7. CASE ~where
  BY <1>1, <1>3, <1>5, <1>7, UpdateShows
<1> QED BY <1>6, <1>7

\* its removal,
LEMMA ClearBoard ==
    ASSUME TypeOK, InHand, NEW t \in Thread, ClearResponse(t)
    PROVE  \/ Exists(req[t].entry) /\ Board!Answer(req[t].entry, NoResponse)
           \/ ~Exists(req[t].entry) /\ UNCHANGED Board!boardVars
<1> DEFINE e == req[t].entry
           u == req[t].user
<1>1. /\ e \in EntryId /\ u \in users /\ u \in User /\ UNCHANGED <<likes, users>>
      /\ Exists(e) => entries[e] \in Row
  BY UpdateHolds DEF Update
<1>2. Set(e, Exists(e), [entries[e] EXCEPT !.response = NoResponse])
  BY DEF ClearResponse
<1> DEFINE where == Exists(e)
           row   == [entries[e] EXCEPT !.response = NoResponse]
<1>3. where \in BOOLEAN
  BY DEF Exists, Created
<1>4. where => /\ Exists(e) /\ row \in Row /\ row.creator = entries[e].creator
               /\ row.response = NoResponse /\ row.deleted = entries[e].deleted /\ row.hidden = entries[e].hidden
  BY <1>1 DEF Row, Created
<1>5. Set(e, where, row)
  BY <1>2
<1> HIDE DEF row
<1>6. CASE where
  <2>1. /\ UNCHANGED <<authorOf, likes, users>>
        /\ UNCHANGED <<removedSet, hiddenSet>> /\ answerOf' = [answerOf EXCEPT ![e] = NoResponse]
    <3>1. /\ UNCHANGED <<authorOf, likes, users, removedSet, hiddenSet>>
          /\ answerOf' = [answerOf EXCEPT ![e] = row.response]
      BY <1>1, <1>3, <1>4, <1>5, <1>6, UpdateShows
    <3> QED BY <1>4, <1>6, <3>1
  <2>2. e \in Board!Posted
    BY <1>1, <1>4, <1>6, BoardEntry
  <2>3. Board!Answer(e, NoResponse)
    BY <1>1, <2>1, <2>2 DEF Board!Answer
  <2> QED BY <1>6, <2>3
<1>7. CASE ~where
  BY <1>1, <1>3, <1>5, <1>7, UpdateShows
<1> QED BY <1>6, <1>7

\* the deletion by the author,
LEMMA DeleteBoard ==
    ASSUME TypeOK, InHand, NEW t \in Thread, Delete(t)
    PROVE  \/ Created(req[t].entry, req[t].user) /\ Board!Remove(req[t].user, req[t].entry)
           \/ ~Created(req[t].entry, req[t].user) /\ UNCHANGED Board!boardVars
<1> DEFINE e == req[t].entry
           u == req[t].user
<1>1. /\ e \in EntryId /\ u \in users /\ u \in User /\ UNCHANGED <<likes, users>>
      /\ Exists(e) => entries[e] \in Row
  BY UpdateHolds DEF Update
<1>2. Set(e, Created(e, u), [entries[e] EXCEPT !.deleted = TRUE])
  BY DEF Delete
<1> DEFINE where == Created(e, u)
           row   == [entries[e] EXCEPT !.deleted = TRUE]
<1>3. where \in BOOLEAN
  BY DEF Exists, Created
<1>4. where => /\ Exists(e) /\ row \in Row /\ row.creator = entries[e].creator
               /\ row.deleted = TRUE /\ row.hidden = entries[e].hidden /\ row.response = entries[e].response
  BY <1>1 DEF Row, Created
<1>5. Set(e, where, row)
  BY <1>2
<1> HIDE DEF row
<1>6. CASE where
  <2>1. /\ UNCHANGED <<authorOf, likes, users>>
        /\ UNCHANGED <<hiddenSet, answerOf>> /\ removedSet' = removedSet \cup {e}
    BY <1>1, <1>3, <1>4, <1>5, <1>6, UpdateShows
  <2>2. authorOf[e] = u
    BY <1>1, <1>4, <1>6, BoardEntry
  <2>3. Board!Remove(u, e)
    BY <1>1, <2>1, <2>2 DEF Board!Remove
  <2> QED BY <1>6, <2>3
<1>7. CASE ~where
  BY <1>1, <1>3, <1>5, <1>7, UpdateShows
<1> QED BY <1>6, <1>7

\* hiding,
LEMMA HideBoard ==
    ASSUME TypeOK, InHand, NEW t \in Thread, HideEntry(t)
    PROVE  \/ Exists(req[t].entry) /\ Board!Hide(req[t].entry)
           \/ ~Exists(req[t].entry) /\ UNCHANGED Board!boardVars
<1> DEFINE e == req[t].entry
           u == req[t].user
<1>1. /\ e \in EntryId /\ u \in users /\ u \in User /\ UNCHANGED <<likes, users>>
      /\ Exists(e) => entries[e] \in Row
  BY UpdateHolds DEF Update
<1>2. Set(e, Exists(e), [entries[e] EXCEPT !.hidden = TRUE])
  BY DEF HideEntry
<1> DEFINE where == Exists(e)
           row   == [entries[e] EXCEPT !.hidden = TRUE]
<1>3. where \in BOOLEAN
  BY DEF Exists, Created
<1>4. where => /\ Exists(e) /\ row \in Row /\ row.creator = entries[e].creator
               /\ row.hidden = TRUE /\ row.deleted = entries[e].deleted /\ row.response = entries[e].response
  BY <1>1 DEF Row, Created
<1>5. Set(e, where, row)
  BY <1>2
<1> HIDE DEF row
<1>6. CASE where
  <2>1. /\ UNCHANGED <<authorOf, likes, users>>
        /\ UNCHANGED <<removedSet, answerOf>> /\ hiddenSet' = hiddenSet \cup {e}
    BY <1>1, <1>3, <1>4, <1>5, <1>6, UpdateShows
  <2>2. e \in Board!Posted
    BY <1>1, <1>4, <1>6, BoardEntry
  <2>3. Board!Hide(e)
    BY <1>1, <2>1, <2>2 DEF Board!Hide
  <2> QED BY <1>6, <2>3
<1>7. CASE ~where
  BY <1>1, <1>3, <1>5, <1>7, UpdateShows
<1> QED BY <1>6, <1>7

\* and showing again.
LEMMA UnhideBoard ==
    ASSUME TypeOK, InHand, NEW t \in Thread, UnhideEntry(t)
    PROVE  \/ Exists(req[t].entry) /\ Board!Unhide(req[t].entry)
           \/ ~Exists(req[t].entry) /\ UNCHANGED Board!boardVars
<1> DEFINE e == req[t].entry
           u == req[t].user
<1>1. /\ e \in EntryId /\ u \in users /\ u \in User /\ UNCHANGED <<likes, users>>
      /\ Exists(e) => entries[e] \in Row
  BY UpdateHolds DEF Update
<1>2. Set(e, Exists(e), [entries[e] EXCEPT !.hidden = FALSE])
  BY DEF UnhideEntry
<1> DEFINE where == Exists(e)
           row   == [entries[e] EXCEPT !.hidden = FALSE]
<1>3. where \in BOOLEAN
  BY DEF Exists, Created
<1>4. where => /\ Exists(e) /\ row \in Row /\ row.creator = entries[e].creator
               /\ row.hidden = FALSE /\ row.deleted = entries[e].deleted /\ row.response = entries[e].response
  BY <1>1 DEF Row, Created
<1>5. Set(e, where, row)
  BY <1>2
<1> HIDE DEF row
<1>6. CASE where
  <2>1. /\ UNCHANGED <<authorOf, likes, users>>
        /\ UNCHANGED <<removedSet, answerOf>> /\ hiddenSet' = hiddenSet \ {e}
    BY <1>1, <1>3, <1>4, <1>5, <1>6, UpdateShows
  <2>2. e \in Board!Posted
    BY <1>1, <1>4, <1>6, BoardEntry
  <2>3. Board!Unhide(e)
    BY <1>1, <2>1, <2>2 DEF Board!Unhide
  <2> QED BY <1>6, <2>3
<1>7. CASE ~where
  BY <1>1, <1>3, <1>5, <1>7, UpdateShows
<1> QED BY <1>6, <1>7

LEMMA UpdateBoard ==
    ASSUME TypeOK, InHand, NEW t \in Thread, Update(t)
    PROVE  [Board!BoardNext]_(Board!boardVars)
<1> DEFINE e == req[t].entry
           u == req[t].user
<1>1. e \in Board!EntryId /\ u \in User
  BY UpdateHolds DEF Board!EntryId, EntryId
<1>2. \/ \E text \in Text \cup {NoResponse} : Board!Answer(e, text)
      \/ Board!Hide(e) \/ Board!Unhide(e)
      \/ Board!Remove(u, e)
      \/ UNCHANGED Board!boardVars
  BY RespondBoard, ClearBoard, DeleteBoard, HideBoard, UnhideBoard DEF Update
<1> QED BY <1>1, <1>2 DEF Board!BoardNext, Board!Moderate

\* A post is the board's Write of the next id by an existing user.
LEMMA InsertBoard ==
    ASSUME TypeOK, InHand, NEW t \in Thread, Insert(t)
    PROVE  /\ req[t].user \in User /\ req'[t].entry \in Board!EntryId
           /\ Board!Write(req[t].user, req'[t].entry)
<1> DEFINE u == req[t].user
<1>0. PICK e \in EntryId :
         /\ ~Exists(e) /\ \A f \in EntryId : f < e => Exists(f)
         /\ entries' = [entries EXCEPT ![e] = [creator |-> u, deleted |-> FALSE,
                                               hidden |-> FALSE, response |-> NoResponse]]
         /\ req' = [req EXCEPT ![t].entry = e]
  BY DEF Insert
<1>a. req'[t].entry = e
  BY <1>0 DEF TypeOK, Request
<1>1. /\ ~Exists(e) /\ \A f \in EntryId : f < e => Exists(f)
      /\ entries' = [entries EXCEPT ![e] = [creator |-> u, deleted |-> FALSE,
                                            hidden |-> FALSE, response |-> NoResponse]]
  BY <1>0
<1>2. u \in users /\ u \in User /\ pc[t] = "exec" /\ UNCHANGED <<likes, users>>
  BY DEF Insert, InHand, Holds, Working, TypeOK
<1> DEFINE row == [creator |-> u, deleted |-> FALSE, hidden |-> FALSE, response |-> NoResponse]
<1>3. row \in Row /\ row # NoRow
  <2>1. u \in User
    BY <1>2
  <2> HIDE DEF u
  <2>2. row \in Row
    BY <2>1 DEF Row
  <2> HIDE DEF row
  <2> QED BY <2>2, NoRowAssumption
<1>4. /\ row.creator = u /\ row.deleted = FALSE /\ row.hidden = FALSE
      /\ row.response = NoResponse
  OBVIOUS
<1>5. entries'[e] = row /\ \A f \in EntryId \ {e} : entries'[f] = entries[f]
  BY <1>1 DEF TypeOK
<1> HIDE DEF row, u
<1>6. authorOf' = [authorOf EXCEPT ![e] = u]
  <2>1. authorOf' = [f \in EntryId |-> IF entries'[f] # NoRow THEN entries'[f].creator ELSE NoUser]
    BY DEF authorOf, Exists
  <2>2. \A f \in EntryId : authorOf'[f] = IF f = e THEN u ELSE authorOf[f]
    BY <2>1, <1>3, <1>4, <1>5 DEF authorOf, Exists
  <2> QED BY <2>1, <2>2 DEF authorOf
<1>7. removedSet' = removedSet /\ hiddenSet' = hiddenSet
  BY <1>1, <1>3, <1>4, <1>5 DEF removedSet, hiddenSet, Exists
<1>8. answerOf' = answerOf
  BY <1>1, <1>3, <1>4, <1>5 DEF answerOf, Exists
<1>9. authorOf[e] = NoUser /\ \A f \in EntryId : f < e => authorOf[f] # NoUser
  <2>1. \A f \in EntryId : Exists(f) => entries[f].creator \in User
    BY DEF TypeOK, Exists, Row
  <2> QED BY <2>1, <1>1, NoUserAssumption DEF authorOf
<1>10. Board!Write(u, e)
  BY <1>2, <1>6, <1>7, <1>8, <1>9 DEF Board!Write, Board!EntryId, EntryId
<1> QED BY <1>a, <1>2, <1>10 DEF Board!EntryId, EntryId, u

\* A like is added only to a visible entry, for an existing user.
LEMMA LikeBoard ==
    ASSUME TypeOK, InHand, NEW t \in Thread, Like(t) \/ Unlike(t)
    PROVE  [Board!BoardNext]_(Board!boardVars)
<1> DEFINE u == req[t].user
           e == req[t].entry
<1>1. /\ e \in EntryId /\ u \in users /\ u \in User
      /\ UNCHANGED <<entries, users>>
  BY DEF Like, Unlike, Execute, Counted, InHand, Holds, Working, TypeOK
<1>2. e \in Board!EntryId /\ (e \in Board!Seen <=> Visible(e))
  BY <1>1, BoardEntry
<1>3. UNCHANGED <<authorOf, removedSet, hiddenSet, answerOf>>
  BY <1>1, SameEntries
<1>4. CASE Like(t) /\ Visible(e) /\ <<e, u>> \notin likes
  <2>1. likes' = likes \cup {<<e, u>>}
    BY <1>4 DEF Like
  <2>2. Board!AddLike(u, e)
    BY <1>1, <1>2, <1>3, <1>4, <2>1 DEF Board!AddLike
  <2> QED BY <1>1, <1>2, <2>2 DEF Board!BoardNext
<1>5. CASE Like(t) /\ ~(Visible(e) /\ <<e, u>> \notin likes)
  <2>1. likes' = likes
    BY <1>5 DEF Like
  <2> QED BY <1>1, <1>3, <2>1 DEF Board!boardVars
<1>6. CASE Unlike(t)
  <2>1. likes' = likes \ {<<e, u>>}
    BY <1>6 DEF Unlike
  <2>2. Board!TakeLike(u, e)
    BY <1>1, <1>3, <2>1 DEF Board!TakeLike
  <2> QED BY <1>1, <1>2, <2>2 DEF Board!BoardNext
<1> QED BY <1>4, <1>5, <1>6

LEMMA BoardStep == IndInv /\ [Next]_vars => [Board!BoardNext]_(Board!boardVars)
<1> SUFFICES ASSUME IndInv, [Next]_vars
             PROVE  [Board!BoardNext]_(Board!boardVars)
  OBVIOUS
<1>1. TypeOK /\ InHand
  BY DEF IndInv
<1>2. ASSUME UNCHANGED <<entries, likes, users>>
      PROVE  UNCHANGED Board!boardVars
  BY <1>2, SameEntries DEF Board!boardVars
<1>3. CASE UNCHANGED vars
  BY <1>2, <1>3 DEF vars, tables
<1>4. CASE \E u \in User : ExpireSession(u)
  BY <1>2, <1>4 DEF ExpireSession
<1>5. ASSUME NEW t \in Thread, Step(t)
      PROVE  [Board!BoardNext]_(Board!boardVars)
  <2>1. CASE CreateAnonymousUser(t)
    <3>1. PICK u \in User \ users : users' = users \cup {u}
      BY <2>1 DEF CreateAnonymousUser
    <3>2. UNCHANGED <<likes, authorOf, removedSet, hiddenSet, answerOf>>
      BY <2>1, SameEntries DEF CreateAnonymousUser
    <3>3. Board!Join(u)
      BY <3>1, <3>2 DEF Board!Join
    <3> QED BY <3>3 DEF Board!BoardNext
  <2>2. CASE CreateSession(t)
    BY <1>2, <2>2 DEF CreateSession
  <2>3. CASE Insert(t)
    BY <1>1, <2>3, InsertBoard DEF Board!BoardNext
  <2>4. CASE Update(t)
    BY <1>1, <2>4, UpdateBoard
  <2>5. CASE Like(t) \/ Unlike(t)
    BY <1>1, <2>5, LikeBoard
  <2>6. CASE UNCHANGED tables
    BY <1>2, <2>6 DEF tables
  <2> QED BY <1>5, <2>1, <2>2, <2>3, <2>4, <2>5, <2>6, TableSteps
<1> QED BY <1>3, <1>4, <1>5 DEF Next, Step

LEMMA BoardStart == Init => Board!BoardInit
BY DEF Init, Board!BoardInit, authorOf, removedSet, hiddenSet, answerOf, Exists,
       EntryId, Board!EntryId

\* Whatever the threads interleave and whatever the counter says, the tables
\* only ever change as the board permits: authors are fixed, a removed entry
\* stays removed, and only an entry that can be seen gains a like.
THEOREM TablesImplementBoard == Spec => ImplementsBoard
BY BoardStart, BoardStep, Inductive, PTL DEF Spec, ImplementsBoard, Board!BoardSpec

-----------------------------------------------------------------------------
(* Moderation.                                                             *)

\* An UPDATE that changes what admins decide is one that an admin asked for:
\* a deletion, the only other one, writes neither column.
LEMMA UpdateModerates ==
    ASSUME TypeOK, InHand, NEW t \in Thread, Update(t)
    PROVE  ModeratedByAdmin
<1> DEFINE e == req[t].entry
<1>1. CASE Delete(t)
  <2>1. e \in EntryId /\ Set(e, Created(e, req[t].user), [entries[e] EXCEPT !.deleted = TRUE])
    BY <1>1 DEF Delete, Execute, Counted, InHand, Holds
  <2> DEFINE where == Created(e, req[t].user)
             row   == [entries[e] EXCEPT !.deleted = TRUE]
  <2>2. where \in BOOLEAN
    BY DEF Created, Exists
  <2>3. Exists(e) => row.hidden = entries[e].hidden /\ row.response = entries[e].response
    BY <2>1 DEF TypeOK, Exists, Row
  <2>4. entries' = [entries EXCEPT ![e] = IF where THEN row ELSE entries[e]]
    BY <2>1 DEF Set, TypeOK
  <2> HIDE DEF where, row
  <2>5. \A f \in EntryId : Exists(f) => /\ entries'[f].hidden = entries[f].hidden
                                        /\ entries'[f].response = entries[f].response
    BY <2>1, <2>2, <2>3, <2>4 DEF TypeOK
  <2> QED BY <2>5 DEF ModeratedByAdmin
<1>2. CASE ~Delete(t)
  <2>1. pc[t] = "exec" /\ pc'[t] = "affected" /\ req[t].kind \in AdminKinds
    BY <1>2 DEF Update, RespondEntry, ClearResponse, HideEntry, UnhideEntry, Execute, Goto,
                AdminKinds, TypeOK
  <2>2. req[t].user \in Admin
    BY <2>1 DEF InHand, Holds
  <2> QED BY <2>1, <2>2 DEF ModeratedByAdmin
<1> QED BY <1>1, <1>2

LEMMA ModerationStep == IndInv /\ [Next]_vars => [ModeratedByAdmin]_vars
<1> SUFFICES ASSUME IndInv, Next
             PROVE  ModeratedByAdmin
  OBVIOUS
<1>1. TypeOK /\ InHand
  BY DEF IndInv
<1>2. ASSUME entries' = entries
      PROVE  ModeratedByAdmin
  BY <1>2 DEF ModeratedByAdmin
<1>3. CASE \E u \in User : ExpireSession(u)
  BY <1>2, <1>3 DEF ExpireSession
<1>4. ASSUME NEW t \in Thread, Step(t)
      PROVE  ModeratedByAdmin
  <2>1. CASE CreateAnonymousUser(t) \/ CreateSession(t) \/ Like(t) \/ Unlike(t) \/ UNCHANGED tables
    BY <1>2, <2>1 DEF CreateAnonymousUser, CreateSession, Like, Unlike, tables
  <2>2. CASE Insert(t)
    <3>1. PICK e \in EntryId : ~Exists(e) /\ \E row : entries' = [entries EXCEPT ![e] = row]
      BY <2>2 DEF Insert
    <3>2. \A f \in EntryId : Exists(f) => entries'[f] = entries[f]
      BY <1>1, <3>1 DEF TypeOK
    <3> QED BY <3>2 DEF ModeratedByAdmin
  <2>3. CASE Update(t)
    BY <1>1, <2>3, UpdateModerates
  <2> QED BY <1>4, <2>1, <2>2, <2>3, TableSteps
<1> QED BY <1>3, <1>4 DEF Next, Step

\* Only an admin's statement hides, shows, answers or un-answers an entry, for
\* any number of threads between the permission check and the statement.
THEOREM AdminsModerate == Spec => ModerationByAdmins
BY ModerationStep, Inductive, PTL DEF Spec, ModerationByAdmins
=============================================================================
