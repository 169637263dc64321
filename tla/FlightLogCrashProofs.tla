------------------------- MODULE FlightLogCrashProofs -------------------------
(***************************************************************************)
(* Proofs about FlightLogCrash, for any number of threads, users and       *)
(* entries and any number of crashes.  What the steps between two crashes  *)
(* keep comes from FlightLogProofs.                                        *)
(***************************************************************************)
EXTENDS FlightLogCrash, FlightLogProofs

-----------------------------------------------------------------------------
(* What a crash brings back.                                               *)

LEMMA CrashType ==
    ASSUME CrashTypeOK, Crash
    PROVE  CrashTypeOK'
<1>1. TypeOK'
  BY DEF CrashTypeOK, Crash, Tables, TypeOK, Place, Reply, Request, NoRequest
<1>2. disk' \in Tables
  BY DEF CrashTypeOK, Crash, Tables
<1> QED BY <1>1, <1>2 DEF CrashTypeOK, Crash

LEMMA CrashHolds ==
    ASSUME CrashInv, Crash
    PROVE  CrashInv'
<1>1. CrashTypeOK'
  BY CrashType DEF CrashInv
<1>2. /\ disk.entries = disk'.entries /\ disk.likes = disk'.likes /\ disk.users = disk'.users
      /\ disk'.sessions \subseteq disk.sessions
      /\ entries' = disk.entries /\ likes' = disk.likes /\ users' = disk.users
      /\ sessions' = disk'.sessions
  BY DEF Crash, CrashInv, CrashTypeOK, Tables
<1>3. /\ \A x \in Thread : pc'[x] = "idle" /\ req'[x] = NoRequest /\ reply'[x] = "none"
      /\ promised' = lasting /\ lasting' = lasting
  BY DEF Crash
<1>4. \A e : Exists(e)' = On(e) /\ (On(e))' = On(e) /\ (RowOn(e))' = RowOn(e) /\ entries'[e] = RowOn(e)
  BY <1>2 DEF Exists, On, RowOn
<1>5. \A r : KeptOnDisk(r) => Kept(r)' /\ KeptOnDisk(r)'
  BY <1>4 DEF Kept, KeptOnDisk, Created
<1>6. DiskSound'
  BY <1>2, <1>4 DEF CrashInv, DiskSound
<1>7. ForeignKeys' /\ (Admin \subseteq users)'
  BY <1>2, <1>4 DEF CrashInv, DiskSound, ForeignKeys
<1>8. InHand'
  BY <1>3, <1>7 DEF InHand, Holds, HoldsPost, Answered, Working, NoRequest, Counted, AdminKinds
<1>9. PostsApart' /\ UndisturbedReply' /\ \A x \in Thread : OwnCounter(x)'
  BY <1>3 DEF PostsApart, HoldsPost, Answered, UndisturbedReply, OwnCounter
<1>10. IndInv'
  BY <1>1, <1>7, <1>8, <1>9 DEF IndInv, CrashTypeOK
<1>11. disk' = database'
  <2>1. disk' \in Tables /\ database' \in Tables
    BY <1>1 DEF CrashTypeOK, Tables, TypeOK, database
  <2>2. /\ disk'.entries = database'.entries /\ disk'.likes = database'.likes
        /\ disk'.users = database'.users /\ disk'.sessions = database'.sessions
    BY <1>2 DEF database
  <2> QED BY <2>1, <2>2 DEF Tables
<1>12. \A x \in Thread : DeletionHeld(x)'
  BY <1>3 DEF DeletionHeld
<1>13. (\A r \in promised : Kept(r))' /\ (\A r \in lasting : KeptOnDisk(r))'
  BY <1>3, <1>5 DEF CrashInv
<1> QED BY <1>1, <1>6, <1>10, <1>11, <1>12, <1>13 DEF CrashInv

-----------------------------------------------------------------------------
(* A step of a handler.                                                    *)

\* The board never takes an author or a deletion back.
LEMMA KeptStays ==
    ASSUME IndInv, [Next]_vars, NEW r, r.entry \in EntryId, Kept(r)
    PROVE  Kept(r)'
<1> DEFINE e == r.entry
<1>1. [Board!BoardNext]_(Board!boardVars)
  BY BoardStep
<1>2. removedSet \subseteq removedSet'
  BY <1>1 DEF Board!BoardNext, Board!boardVars, Board!Join, Board!Write, Board!Remove,
              Board!AddLike, Board!TakeLike, Board!Moderate, Board!Hide, Board!Unhide,
              Board!Answer
<1>3. Created(e, r.user)'
  <2>1. CASE \E t \in Thread : Step(t)
    BY <2>1, RowsStay DEF IndInv, Kept
  <2>2. CASE UNCHANGED entries
    BY <2>2 DEF Kept, Created, Exists
  <2> QED BY <2>1, <2>2 DEF Next, Step, ExpireSession, vars, tables
<1>4. r.kind = "delete" => entries'[e].deleted
  <2>1. r.kind = "delete" => e \in removedSet
    BY DEF Kept, Created, removedSet
  <2> QED BY <2>1, <1>2 DEF removedSet
<1> QED BY <1>3, <1>4 DEF Kept

\* A statement that deletes leaves its handler with the deletion.
LEMMA DeletionStep ==
    ASSUME IndInv, \A t \in Thread : DeletionHeld(t), [Next]_vars, NEW x \in Thread
    PROVE  DeletionHeld(x)'
<1>1. TypeOK /\ InHand /\ Holds(x)
  BY DEF IndInv, InHand
<1>2. CASE pc'[x] = pc[x] /\ req'[x] = req[x] /\ hit'[x] = hit[x]
  <2>1. DeletionHeld(x) /\ (req[x].kind = "delete" => req[x].entry \in EntryId)
    BY <1>1 DEF Holds, Counted
  <2> QED BY <1>2, <2>1, KeptStays DEF DeletionHeld, Kept
<1>3. ASSUME NEW t \in Thread, Step(t), t # x
      PROVE  DeletionHeld(x)'
  BY <1>1, <1>2, <1>3, Alone
<1>4. CASE Step(x)
  <2>1. CASE Statement(x) /\ ~Insert(x)
    <3>1. AsItWent(x)
      BY <1>1, <2>1, StatementTruth
    <3> QED BY <3>1 DEF AsItWent, Achieved, DeletionHeld, Kept
  <2>2. CASE Insert(x)
    BY <1>1, <2>2 DEF Insert, Goto, TypeOK, DeletionHeld
  <2>3. CASE Arrive(x)
    BY <1>1, <2>3 DEF Arrive, Goto, TypeOK, DeletionHeld
  <2>4. CASE Identify(x)
    BY <1>1, <2>4 DEF Identify, FoundSession, CreateAnonymousUser, FinalizeUser, VerifyLogin,
              RejectLogin, CreateSession, FinalizeSession, Authorize, Forbid, Unauthenticated, RejectContent,
              Goto, Respond, TypeOK, DeletionHeld
  <2>5. CASE Answer(x)
    BY <1>1, <2>5 DEF Answer, FinalizeInsert, ReadAffected, CheckVisible, StatementFails, ResponseFails, Finish,
              Goto, Respond, TypeOK, DeletionHeld
  <2> QED BY <1>4, <2>1, <2>2, <2>3, <2>4, <2>5 DEF Step
<1> QED BY <1>2, <1>3, <1>4 DEF Next, Step, ExpireSession, vars, handler, observer

\* What is answered ok is the case.
LEMMA AnswersKept ==
    ASSUME IndInv, IndInv', \A x \in Thread : DeletionHeld(x), Next, NEW t \in Thread, Answers(t)
    PROVE  (req[t] \in Promise /\ Kept(req[t]))'
<1>1. TypeOK /\ InHand /\ Holds(t) /\ TypeOK' /\ InHand'
  BY DEF IndInv, InHand
<1>2. Step(t)
  <2>1. pc'[t] # pc[t]
    BY DEF Answers
  <2>2. ASSUME NEW x \in Thread, Step(x) PROVE x = t
    BY <1>1, <2>1, <2>2, Alone
  <2>3. ~\E u \in User : ExpireSession(u)
    BY <2>1 DEF ExpireSession, handler
  <2> QED BY <2>2, <2>3 DEF Next, Step
<1>3. /\ req'[t].kind \in {"post", "delete"} /\ pc'[t] = "done" /\ pc[t] # "done"
      /\ reply'[t] = "ok" /\ hit'[t] /\ req'[t] \in Request
  BY <1>1 DEF Answers, TypeOK
<1>4. CASE req'[t].kind = "post"
  <2>1. (HoldsPost(t))' /\ (Holds(t))'
    BY <1>1, <1>3, <1>4 DEF HoldsPost, Answered, InHand
  <2>2. req'[t].entry \in EntryId /\ (Created(req[t].entry, req[t].user))'
    BY <2>1 DEF Holds
  <2>3. req'[t].user \in User
    BY <1>1, <1>3, <2>2, NoRowAssumption DEF Created, Exists, TypeOK, Row
  <2> QED BY <1>3, <1>4, <2>2, <2>3 DEF Kept, Promise, Request
<1>5. CASE req'[t].kind = "delete"
  <2>1. pc[t] = "affected" /\ UNCHANGED <<entries, req, hit>>
    <3> USE <1>3, <1>5, <1>1 DEF Goto, Respond, TypeOK
    <3>1. ~Arrive(t)
      BY DEF Arrive
    <3>2. ~Statement(t)
      BY DEF Statement, Insert, RespondEntry, ClearResponse, Delete, HideEntry, UnhideEntry,
             Like, Unlike, Execute
    <3>3. ~Identify(t)
      BY DEF Identify, FoundSession, CreateAnonymousUser, FinalizeUser, VerifyLogin,
             RejectLogin, CreateSession, FinalizeSession, Authorize, Forbid, Unauthenticated, RejectContent,
             Holds, Working
    <3>4. ~(\/ FinalizeInsert(t) \/ CheckVisible(t) \/ StatementFails(t)
            \/ ResponseFails(t) \/ Finish(t))
      BY DEF FinalizeInsert, CheckVisible, StatementFails, ResponseFails, Finish, Holds
    <3>5. ReadAffected(t)
      BY <1>2, <3>1, <3>2, <3>3, <3>4 DEF Step, Answer
    <3> QED BY <3>5 DEF ReadAffected, tables, observer
  <2>2. Kept(req[t])
    BY <1>3, <1>5, <2>1 DEF DeletionHeld
  <2>3. req[t].entry \in EntryId /\ req[t] \in Request /\ Exists(req[t].entry)
        /\ entries[req[t].entry].creator = req[t].user
    BY <1>1, <1>5, <2>1, <2>2 DEF Holds, Counted, TypeOK, Kept, Created
  <2>4. req[t].user \in User
    BY <1>1, <2>3 DEF TypeOK, Exists, Row
  <2> QED BY <1>5, <2>1, <2>2, <2>3, <2>4 DEF Kept, Created, Exists, Promise, Request
<1> QED BY <1>3, <1>4, <1>5

LEMMA WorkHolds ==
    ASSUME CrashInv, Work
    PROVE  CrashInv'
<1>1. IndInv'
  BY IndStep DEF CrashInv, Work
<1>2. TypeOK' /\ InHand' /\ ForeignKeys' /\ (Admin \subseteq users)'
  BY <1>1 DEF IndInv, InHand
<1>3. \A x \in Thread : DeletionHeld(x)'
  BY DeletionStep DEF CrashInv, Work
<1>4. /\ promised' = promised \cup {req'[t] : t \in {x \in Thread : Answers(x)}}
      /\ lasting' = IF Inserting' = {} THEN promised' ELSE lasting
      /\ disk' = IF Inserting' = {} THEN database' ELSE disk
  BY DEF Work, Note, Commit
<1>5. ASSUME NEW r \in promised' PROVE r \in Promise /\ Kept(r)'
  <2>1. CASE r \in promised
    <3>1. r \in Promise /\ Kept(r)
      BY <2>1 DEF CrashInv, CrashTypeOK
    <3> QED BY <3>1, KeptStays DEF CrashInv, Work, Promise
  <2>2. CASE r \notin promised
    <3>1. PICK t \in Thread : Answers(t) /\ r = req'[t]
      BY <1>4, <1>5, <2>2
    <3> QED BY <1>1, <3>1, AnswersKept DEF CrashInv, Work, Kept, Created, Exists
  <2> QED BY <2>1, <2>2
<1>6. CASE Inserting' = {}
  <2>1. disk' = database' /\ lasting' = promised'
    BY <1>4, <1>6
  <2>2. disk' \in Tables
    BY <1>2, <2>1 DEF database, Tables, TypeOK
  <2>3. DiskSound' /\ \A r : Kept(r)' => KeptOnDisk(r)'
    <3>1. /\ disk'.entries = entries' /\ disk'.likes = likes' /\ disk'.users = users'
          /\ disk'.sessions = sessions'
      BY <2>1 DEF database
    <3>2. \A e : On(e)' = Exists(e)' /\ RowOn(e)' = entries'[e]
      BY <3>1 DEF On, RowOn, Exists
    <3> QED BY <1>2, <3>1, <3>2 DEF DiskSound, ForeignKeys, Kept, KeptOnDisk, Created
  <2> QED BY <1>1, <1>2, <1>3, <1>5, <2>1, <2>2, <2>3 DEF CrashInv, CrashTypeOK
<1>7. CASE Inserting' # {}
  <2>1. disk' = disk /\ lasting' = lasting
    BY <1>4, <1>7
  <2>2. DiskSound' /\ (\A r \in lasting : KeptOnDisk(r))'
    BY <2>1 DEF CrashInv, DiskSound, KeptOnDisk, On, RowOn
  <2>3. CrashTypeOK'
    BY <1>2, <1>4, <1>5, <2>1 DEF CrashInv, CrashTypeOK
  <2> QED BY <1>1, <1>3, <1>5, <1>7, <2>2, <2>3 DEF CrashInv
<1> QED BY <1>6, <1>7
-----------------------------------------------------------------------------
(* The inductive invariant and what follows from it.                       *)

LEMMA CrashStart == CrashInit => CrashInv
<1> SUFFICES ASSUME CrashInit PROVE CrashInv
  OBVIOUS
<1>1. IndInv /\ TypeOK
  BY IndStart DEF CrashInit, IndInv
<1>2. CrashTypeOK
  BY <1>1 DEF CrashInit, CrashTypeOK, Tables, database, TypeOK
<1>3. disk.entries = entries /\ disk.likes = {} /\ disk.users = Admin /\ disk.sessions \subseteq Admin
  BY DEF CrashInit, Init, database
<1>4. DiskSound
  BY <1>3 DEF CrashInit, Init, DiskSound, On, RowOn
<1>5. \A t \in Thread : DeletionHeld(t)
  BY DEF CrashInit, Init, DeletionHeld
<1> QED BY <1>1, <1>2, <1>4, <1>5 DEF CrashInit, CrashInv

LEMMA CrashStep == CrashInv /\ [CrashNext]_crashVars => CrashInv'
<1> SUFFICES ASSUME CrashInv, [CrashNext]_crashVars PROVE CrashInv'
  OBVIOUS
<1>1. CASE UNCHANGED crashVars
  <2>1. UNCHANGED vars /\ disk' = disk /\ promised' = promised /\ lasting' = lasting
    BY <1>1 DEF crashVars
  <2>2. /\ entries' = entries /\ likes' = likes /\ users' = users /\ sessions' = sessions
        /\ pc' = pc /\ req' = req /\ hit' = hit
    BY <2>1 DEF vars, tables, handler, observer
  <2>3. IndInv'
    BY <2>1, IndStep DEF CrashInv
  <2>4. CrashTypeOK'
    BY <2>1, <2>3 DEF CrashInv, CrashTypeOK, IndInv
  <2>5. DiskSound' /\ (Inserting = {} => disk = database)'
    BY <2>1, <2>2 DEF CrashInv, DiskSound, On, RowOn, Inserting, database
  <2>6. \A t \in Thread : DeletionHeld(t)'
    BY <2>2 DEF CrashInv, DeletionHeld, Kept, Created, Exists
  <2>7. (\A r \in promised : Kept(r))' /\ (\A r \in lasting : KeptOnDisk(r))'
    BY <2>1, <2>2 DEF CrashInv, Kept, KeptOnDisk, Created, Exists, On, RowOn
  <2> QED BY <2>3, <2>4, <2>5, <2>6, <2>7 DEF CrashInv
<1> QED BY <1>1, WorkHolds, CrashHolds DEF CrashNext

LEMMA CrashInductive == CrashSpec => []CrashInv
BY CrashStart, CrashStep, PTL DEF CrashSpec

\* The variables always have their types, whatever a crash brings back.
THEOREM CrashTypeCorrect == CrashSpec => []CrashTypeOK
<1>1. CrashInv => CrashTypeOK
  BY DEF CrashInv
<1> QED BY <1>1, CrashInductive, PTL

\* What was answered ok lasts, from the first moment since when no handler was between
\* the row and the finalize of an insert of a user, a session or a post.
THEOREM PromisesDoLast == CrashSpec => []PromisesLast
<1>1. CrashInv => PromisesLast
  BY DEF CrashInv, CrashTypeOK, PromisesLast
<1> QED BY <1>1, CrashInductive, PTL

\* Crashes take nothing from what FlightLogProofs shows of the answers.
THEOREM SafeDespiteCrashes == CrashSpec => [](UndisturbedReply /\ PostIsOwn)
<1>1. CrashInv => UndisturbedReply /\ PostIsOwn
  BY DEF CrashInv, IndInv, InHand, Holds, PostsApart, HoldsPost, PostIsOwn
<1> QED BY <1>1, CrashInductive, PTL

-----------------------------------------------------------------------------
(* The tables and the disk implement the abstract archive.                 *)

LEMMA SameBoard ==
    ASSUME [Board!BoardNext]_(Board!boardVars)
    PROVE  [Archive!BoardNext]_(Archive!boardVars)
<1>1. ASSUME NEW u \in User, Board!Join(u) PROVE Archive!BoardNext
  BY <1>1 DEF Board!Join, Archive!Join, Archive!BoardNext
<1>2. ASSUME NEW u \in User, NEW e \in Board!EntryId,
             Board!Write(u, e) \/ Board!Remove(u, e) \/ Board!AddLike(u, e) \/ Board!TakeLike(u, e)
      PROVE  Archive!BoardNext
  <2>1. Board!EntryId = Archive!EntryId /\ Board!Seen = Archive!Seen
    BY DEF Board!EntryId, Archive!EntryId, Board!Seen, Archive!Seen, Board!Posted, Archive!Posted
  <2>2. Archive!Write(u, e) \/ Archive!Remove(u, e) \/ Archive!AddLike(u, e) \/ Archive!TakeLike(u, e)
    BY <1>2, <2>1 DEF Board!Write, Archive!Write, Board!Remove, Archive!Remove, Board!AddLike,
                      Archive!AddLike, Board!TakeLike, Archive!TakeLike
  <2> QED BY <2>1, <2>2 DEF Archive!BoardNext
<1>3. ASSUME NEW e \in Board!EntryId, Board!Moderate(e) PROVE Archive!BoardNext
  <2>1. Board!EntryId = Archive!EntryId /\ Board!Posted = Archive!Posted
    BY DEF Board!EntryId, Archive!EntryId, Board!Posted, Archive!Posted
  <2>2. Archive!Moderate(e)
    BY <1>3, <2>1 DEF Board!Moderate, Archive!Moderate, Board!Hide, Archive!Hide, Board!Unhide,
                      Archive!Unhide, Board!Answer, Archive!Answer
  <2> QED BY <2>1, <2>2 DEF Archive!BoardNext
<1>4. CASE UNCHANGED Board!boardVars
  BY <1>4 DEF Board!boardVars, Archive!boardVars
<1> QED BY <1>1, <1>2, <1>3, <1>4 DEF Board!BoardNext

\* The board on disk is the board of the tables once they are the same.
LEMMA SameImage ==
    ASSUME disk.entries = entries, disk.likes = likes, disk.users = users
    PROVE  boardOnDisk = Archive!board
BY DEF boardOnDisk, On, RowOn, Archive!board, authorOf, removedSet, hiddenSet, answerOf, Exists

LEMMA ArchiveStart == CrashInit => Archive!ArchiveInit
<1> SUFFICES ASSUME CrashInit PROVE Archive!ArchiveInit
  OBVIOUS
<1>1. boardOnDisk = Archive!board
  BY SameImage DEF CrashInit, database
<1>2. Archive!BoardInit
  BY DEF CrashInit, Init, Archive!BoardInit, authorOf, removedSet, hiddenSet, answerOf, Exists,
         EntryId, Archive!EntryId
<1> QED BY <1>1, <1>2 DEF Archive!ArchiveInit

LEMMA ArchiveStep ==
    CrashInv /\ [CrashNext]_crashVars =>
        [Archive!ArchiveNext]_<<Archive!boardVars, boardOnDisk>>
<1> SUFFICES ASSUME CrashInv, [CrashNext]_crashVars
             PROVE  [Archive!ArchiveNext]_<<Archive!boardVars, boardOnDisk>>
  OBVIOUS
<1>1. ASSUME disk'.entries = disk.entries, disk'.likes = disk.likes, disk'.users = disk.users
      PROVE  boardOnDisk' = boardOnDisk
  BY <1>1 DEF boardOnDisk, On, RowOn
<1>2. ASSUME disk'.entries = entries', disk'.likes = likes', disk'.users = users'
      PROVE  boardOnDisk' = Archive!board'
  BY <1>2 DEF boardOnDisk, On, RowOn, Archive!board, authorOf, removedSet, hiddenSet, answerOf,
              Exists
<1>3. CASE Work
  <2>1. [Archive!BoardNext]_(Archive!boardVars)
    BY <1>3, BoardStep, SameBoard DEF Work, CrashInv
  <2>2. boardOnDisk' \in {boardOnDisk, Archive!board'}
    BY <1>1, <1>2, <1>3 DEF Work, Commit, database
  <2> QED BY <2>1, <2>2 DEF Archive!ArchiveNext, Archive!Work
<1>4. CASE Crash
  <2>1. /\ disk'.entries = disk.entries /\ disk'.likes = disk.likes /\ disk'.users = disk.users
        /\ entries' = disk.entries /\ likes' = disk.likes /\ users' = disk.users
    BY <1>4 DEF Crash, CrashInv, CrashTypeOK, Tables
  <2>2. boardOnDisk' = boardOnDisk /\ Archive!board' = boardOnDisk
    BY <1>1, <1>2, <2>1
  <2> QED BY <2>2 DEF Archive!ArchiveNext, Archive!GoBack
<1>5. CASE UNCHANGED crashVars
  <2>1. UNCHANGED <<entries, likes, users, disk>>
    BY <1>5 DEF crashVars, vars, tables
  <2>2. UNCHANGED Archive!boardVars
    BY <2>1 DEF Archive!boardVars, authorOf, removedSet, hiddenSet, answerOf, Exists
  <2> QED BY <1>1, <2>1, <2>2
<1> QED BY <1>3, <1>4, <1>5 DEF CrashNext

\* After any number of crashes, the board is as the abstract archive permits: each
\* step is one operation of the board, or goes back to one earlier state of all of it.
THEOREM CrashesGoBack == CrashSpec => ImplementsArchive
BY ArchiveStart, ArchiveStep, CrashInductive, PTL
   DEF CrashSpec, ImplementsArchive, Archive!ArchiveSpec
=============================================================================
