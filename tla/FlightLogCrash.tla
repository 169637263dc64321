--------------------------- MODULE FlightLogCrash ---------------------------
(***************************************************************************)
(* The handlers of FlightLog in a process that may end at any step and is  *)
(* started again.  There is no explicit transaction: SQLite commits when a *)
(* writing statement ends and no other one on the connection is unfinished.*)
(* The connection is shared by all threads, and an INSERT .. RETURNING is  *)
(* unfinished from its row to its finalize: while one handler is there,    *)
(* nothing that the others write, and answer, reaches the database file.   *)
(***************************************************************************)
EXTENDS FlightLog

VARIABLES disk,        \* the tables as last committed
          promised,    \* observer: posts and deletions answered ok
          lasting      \* observer: those with a moment since when nobody inserted

crashVars == <<vars, disk, promised, lasting>>

\* The handlers that have an INSERT .. RETURNING unfinished: insertUser,
\* insertUserSession (an upsert) and insert of an entry each read the row they made,
\* and finalize the statement when they return.
Inserting == {t \in Thread : pc[t] \in {"userRow", "sessionRow", "postRow"}}

database == [entries |-> entries, likes |-> likes, users |-> users, sessions |-> sessions]

Tables == [entries : [EntryId -> Row \cup {NoRow}], likes : SUBSET (EntryId \X User),
           users : SUBSET User, sessions : SUBSET User]

Promise == [kind : {"post", "delete"}, entry : EntryId, user : User]

CrashTypeOK ==
    /\ TypeOK
    /\ disk \in Tables
    /\ promised \subseteq Promise
    /\ lasting \subseteq promised

CrashInit == Init /\ disk = database /\ promised = {} /\ lasting = {}

-----------------------------------------------------------------------------
\* Only the end of an INSERT commits: what an UPDATE or DELETE wrote waits for one.
MutantInsertsCommit ==
    disk' = IF Inserting' = {} /\ Inserting # {} THEN database' ELSE disk

\* The users and their sessions are written over a connection of their own.
MutantTwoConnections ==
    LET board  == IF \E t \in Inserting' : pc'[t] = "postRow" THEN disk ELSE database'
        people == IF \E t \in Inserting' : pc'[t] # "postRow" THEN disk ELSE database' IN
    disk' = [board EXCEPT !.users = people.users, !.sessions = people.sessions]

Commit == disk' = IF Inserting' = {} THEN database' ELSE disk

\* A post or a deletion that took place is answered ok.
Answers(t) ==
    /\ pc[t] # "done" /\ pc'[t] = "done" /\ reply'[t] = "ok" /\ hit'[t]
    /\ req'[t].kind \in {"post", "delete"}

Note ==
    /\ promised' = promised \cup {req'[t] : t \in {x \in Thread : Answers(x)}}
    /\ lasting' = IF Inserting' = {} THEN promised' ELSE lasting

Work == Next /\ Commit /\ Note

\* The process ends, by a panic or from outside, and serves again: the file is as it
\* was, and some sessions may have expired in the meantime.
Crash ==
    /\ entries' = disk.entries
    /\ likes' = disk.likes
    /\ users' = disk.users
    /\ sessions' \in SUBSET disk.sessions
    /\ disk' = [disk EXCEPT !.sessions = sessions']
    /\ changes' \in {0, 1}
    /\ pc' = [t \in Thread |-> "idle"]
    /\ req' = [t \in Thread |-> NoRequest]
    /\ reply' = [t \in Thread |-> "none"]
    /\ hit' = [t \in Thread |-> FALSE]
    /\ disturbed' = [t \in Thread |-> FALSE]
    /\ promised' = lasting
    /\ UNCHANGED lasting

CrashNext == Work \/ Crash

CrashSpec == CrashInit /\ [][CrashNext]_crashVars

-----------------------------------------------------------------------------
(* Properties.                                                             *)

Kept(r) == Created(r.entry, r.user) /\ (r.kind = "delete" => entries[r.entry].deleted)

\* A post or a deletion that was answered ok outlives every crash, under the id and
\* the author it was answered with, once there was a moment since when no handler
\* had an insert unfinished.  (Before that a crash takes back what was answered.)
PromisesLast == \A r \in lasting : Kept(r)

\* The disk, seen as a board.
RowOn(e) == disk.entries[e]
On(e)    == RowOn(e) # NoRow

boardOnDisk ==
    [members |-> disk.users,
     author  |-> [e \in EntryId |-> IF On(e) THEN RowOn(e).creator ELSE NoUser],
     removed |-> {e \in EntryId : On(e) /\ RowOn(e).deleted},
     hidden  |-> {e \in EntryId : On(e) /\ RowOn(e).hidden},
     answer  |-> [e \in EntryId |-> IF On(e) THEN RowOn(e).response ELSE NoResponse],
     liked   |-> disk.likes]

Archive == INSTANCE FlightLogArchive WITH
    Nobody <- NoUser, NoAnswer <- NoResponse, members <- users, author <- authorOf,
    removed <- removedSet, hidden <- hiddenSet, answer <- answerOf, liked <- likes,
    kept <- boardOnDisk

\* Whatever moment the process ends at, it comes back with the board as it was as a
\* whole at one earlier moment, never with one table older than another.
ImplementsArchive == Archive!ArchiveSpec
-----------------------------------------------------------------------------
(* The inductive invariant of the proofs in FlightLogCrashProofs.          *)

\* What is on disk is a state of the tables that a process can start from.
DiskSound ==
    /\ Admin \subseteq disk.users
    /\ disk.sessions \subseteq disk.users
    /\ \A e \in EntryId : On(e) => RowOn(e).creator \in disk.users
    /\ \A pair \in disk.likes : On(pair[1]) /\ pair[2] \in disk.users

KeptOnDisk(r) ==
    On(r.entry) /\ RowOn(r.entry).creator = r.user /\ (r.kind = "delete" => RowOn(r.entry).deleted)

\* A deletion that is about to be answered did take place.
DeletionHeld(t) ==
    pc[t] = "affected" /\ req[t].kind = "delete" /\ hit[t] => Kept(req[t])

CrashInv ==
    /\ CrashTypeOK
    /\ IndInv
    /\ DiskSound
    /\ Inserting = {} => disk = database
    /\ \A t \in Thread : DeletionHeld(t)
    /\ \A r \in promised : Kept(r)
    /\ \A r \in lasting : KeptOnDisk(r)
=============================================================================
