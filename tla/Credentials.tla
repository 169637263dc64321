----------------------------- MODULE Credentials -----------------------------
(***************************************************************************)
(* Login and change of password of one account, by worker threads that     *)
(* share the SQLite connection and its sqlite3_changes counter.            *)
(*                                                                         *)
(* Both handlers read the stored hash in one statement and verify the      *)
(* password outside the database (argon2, tens of milliseconds); a change  *)
(* then overwrites the hash whatever it is by now, and learns from the     *)
(* shared counter whether it did.  A hash is the password it was made of.  *)
(***************************************************************************)
EXTENDS Naturals

CONSTANTS Thread,      \* worker threads of the process
          Password,    \* passwords that validatePassword accepts
          NoHash       \* the account has no row of user_password_credentials

ASSUME NoHashAssumption == NoHash \notin Password

VARIABLES stored,      \* user_password_credentials.password_hash of the account
          changes,     \* sqlite3_changes of the shared connection
          pc,          \* where the handler of each thread is
          req,         \* the request it handles
          hash,        \* the hash it read
          reply,       \* what it answered
          during,      \* observer: what was stored since the request arrived
          replaced,    \* observer: what its own statement overwrote
          disturbed    \* observer: another one came between it and the counter

handler  == <<pc, req, hash, reply>>
observer == <<during, replaced, disturbed>>
vars     == <<stored, changes, handler, observer>>

Kinds     == {"login", "change", "other"}
NoRequest == [kind |-> "none", current |-> NoHash, new |-> NoHash]
Request   == [kind : Kinds \cup {"none"}, current : Password \cup {NoHash},
              new : Password \cup {NoHash}]
Place     == {"idle", "guard", "read", "verify", "session", "store", "affected",
              "other", "done"}
Refusals  == {"unauthenticated", "forbidden", "invalid_request", "internal_error"}
Reply     == {"none", "ok", "invalid_credentials", "user_not_found"} \cup Refusals

TypeOK ==
    /\ stored \in Password \cup {NoHash}
    /\ changes \in {0, 1}
    /\ pc \in [Thread -> Place]
    /\ req \in [Thread -> Request]
    /\ hash \in [Thread -> Password \cup {NoHash}]
    /\ reply \in [Thread -> Reply]
    /\ during \in [Thread -> SUBSET (Password \cup {NoHash})]
    /\ replaced \in [Thread -> Password \cup {NoHash}]
    /\ disturbed \in [Thread -> BOOLEAN]

\* NoHash: the process that created the account died before it set a password.
Init ==
    /\ stored \in Password \cup {NoHash}
    /\ changes \in {0, 1}
    /\ pc = [t \in Thread |-> "idle"]
    /\ req = [t \in Thread |-> NoRequest]
    /\ hash = [t \in Thread |-> NoHash]
    /\ reply = [t \in Thread |-> "none"]
    /\ during = [t \in Thread |-> {}]
    /\ replaced = [t \in Thread |-> NoHash]
    /\ disturbed = [t \in Thread |-> FALSE]

Goto(t, place) == pc' = [pc EXCEPT ![t] = place]

Respond(t, answer) ==
    /\ Goto(t, "done")
    /\ reply' = [reply EXCEPT ![t] = answer]

-----------------------------------------------------------------------------
Arrive(t) ==
    /\ pc[t] = "idle"
    /\ \E kind \in Kinds, current, new \in Password :
          /\ req' = [req EXCEPT ![t] = [kind |-> kind, current |-> current, new |-> new]]
          /\ Goto(t, CASE kind = "login"  -> "read"
                       [] kind = "change" -> "guard"
                       [] kind = "other"  -> "other")
    /\ during' = [during EXCEPT ![t] = {stored}]
    /\ UNCHANGED <<stored, changes, hash, reply, replaced, disturbed>>

\* requireAccount finds the session of an account; the body parses and the new
\* password is a valid one.
PassGuard(t) ==
    /\ pc[t] = "guard"
    /\ Goto(t, "read")
    /\ UNCHANGED <<stored, changes, req, hash, reply, observer>>

RefuseChange(t) ==
    /\ pc[t] = "guard"
    /\ \E answer \in {"unauthenticated", "forbidden", "invalid_request"} : Respond(t, answer)
    /\ UNCHANGED <<stored, changes, req, hash, observer>>

\* findPasswordHashByEmail, findPasswordHashByUserId: no row fails at once.
ReadHash(t) ==
    /\ pc[t] = "read"
    /\ stored # NoHash
    /\ hash' = [hash EXCEPT ![t] = stored]
    /\ Goto(t, "verify")
    /\ UNCHANGED <<stored, changes, req, reply, observer>>

MutantMissingHashPasses(t) ==
    /\ pc[t] = "read"
    /\ stored = NoHash
    /\ Goto(t, IF req[t].kind = "login" THEN "session" ELSE "store")
    /\ UNCHANGED <<stored, changes, req, hash, reply, observer>>

NoCredential(t) ==
    /\ pc[t] = "read"
    /\ stored = NoHash
    /\ Respond(t, "invalid_credentials")
    /\ UNCHANGED <<stored, changes, req, hash, observer>>

MutantNoVerify(t) ==
    /\ pc[t] = "verify"
    /\ Goto(t, IF req[t].kind = "login" THEN "session" ELSE "store")
    /\ UNCHANGED <<stored, changes, req, hash, reply, observer>>

Verify(t) ==
    /\ pc[t] = "verify"
    /\ hash[t] = req[t].current
    /\ Goto(t, IF req[t].kind = "login" THEN "session" ELSE "store")
    /\ UNCHANGED <<stored, changes, req, hash, reply, observer>>

Mismatch(t) ==
    /\ pc[t] = "verify"
    /\ hash[t] # req[t].current
    /\ Respond(t, "invalid_credentials")
    /\ UNCHANGED <<stored, changes, req, hash, observer>>

\* A statement of t that writes sets the counter the other handlers are about to read.
Disturb(t) ==
    disturbed' = [x \in Thread |-> disturbed[x] \/ (x # t /\ pc[x] = "affected")]

\* The upsert of the account's session.  Of its two calls, the row and the finalize,
\* only the second is seen here: it sets the counter.
MutantTotalChanges(t) ==
    /\ pc[t] = "session"
    /\ changes' = changes + 1
    /\ Respond(t, "ok")
    /\ Disturb(t)
    /\ UNCHANGED <<stored, req, hash, during, replaced>>

CreateSession(t) ==
    /\ pc[t] = "session"
    /\ changes' = 1
    /\ Respond(t, "ok")
    /\ Disturb(t)
    /\ UNCHANGED <<stored, req, hash, during, replaced>>

Observe == during' = [x \in Thread |->
                        IF pc[x] \in {"idle", "done"} THEN during[x] ELSE during[x] \cup {stored'}]

\* ON CONFLICT(user_id) DO NOTHING: only a first password is stored.
MutantDoNothing(t) ==
    /\ pc[t] = "store"
    /\ stored' = IF stored = NoHash THEN req[t].new ELSE stored
    /\ replaced' = [replaced EXCEPT ![t] = stored]
    /\ changes' = IF stored = NoHash THEN 1 ELSE 0
    /\ Observe
    /\ Disturb(t)
    /\ Goto(t, "affected")
    /\ UNCHANGED <<req, hash, reply>>

\* The statement that stores the new hash without the verified one as condition:
\* the account is never disabled or removed, so it always writes a row.
SetPasswordHash(t) ==
    /\ pc[t] = "store"
    /\ stored' = req[t].new
    /\ replaced' = [replaced EXCEPT ![t] = stored]
    /\ changes' = 1
    /\ Observe
    /\ Disturb(t)
    /\ Goto(t, "affected")
    /\ UNCHANGED <<req, hash, reply>>

\* db.rowsAffected() of the connection, as it is now.
ReadAffected(t) ==
    /\ pc[t] = "affected"
    /\ Respond(t, IF changes # 0 THEN "ok" ELSE "user_not_found")
    /\ UNCHANGED <<stored, changes, req, hash, observer>>

\* Any other handler that writes: a like, a deletion, a post.
OtherWrite(t) ==
    /\ pc[t] = "other"
    /\ changes' \in {0, 1}
    /\ Respond(t, "ok")
    /\ Disturb(t)
    /\ UNCHANGED <<stored, req, hash, during, replaced>>

StatementFails(t) ==
    /\ \/ /\ pc[t] \in {"guard", "read", "verify"}
          /\ UNCHANGED <<changes, disturbed>>
       \/ /\ pc[t] \in {"session", "store", "other"}
          /\ changes' \in {changes, 0}
          /\ Disturb(t)
    /\ Respond(t, "internal_error")
    /\ UNCHANGED <<stored, req, hash, during, replaced>>

Finish(t) ==
    /\ pc[t] = "done"
    /\ Goto(t, "idle")
    /\ req' = [req EXCEPT ![t] = NoRequest]
    /\ hash' = [hash EXCEPT ![t] = NoHash]
    /\ reply' = [reply EXCEPT ![t] = "none"]
    /\ during' = [during EXCEPT ![t] = {}]
    /\ replaced' = [replaced EXCEPT ![t] = NoHash]
    /\ disturbed' = [disturbed EXCEPT ![t] = FALSE]
    /\ UNCHANGED <<stored, changes>>

Guard(t)  == PassGuard(t) \/ RefuseChange(t)
Check(t)  == ReadHash(t) \/ NoCredential(t) \/ Verify(t) \/ Mismatch(t)
Write(t)  == CreateSession(t) \/ SetPasswordHash(t) \/ ReadAffected(t) \/ OtherWrite(t)

Next == \E t \in Thread :
            Arrive(t) \/ Guard(t) \/ Check(t) \/ Write(t) \/ StatementFails(t) \/ Finish(t)

Spec == Init /\ [][Next]_vars

-----------------------------------------------------------------------------
(* Properties.                                                             *)

Answered(t, kind) == pc[t] = "done" /\ req[t].kind = kind

\* A login is answered as an instantaneous one could have been: ok only if the
\* password it presents was the account's at some moment of the request, and
\* invalid_credentials only if at some moment it was not, although the hash is
\* read long before the answer and other threads change it meanwhile.
LoginAtOneInstant ==
    \A t \in Thread : Answered(t, "login") =>
        /\ reply[t] = "ok" => req[t].current \in during[t]
        /\ reply[t] = "invalid_credentials" => during[t] # {req[t].current}

\* The password only becomes one that a request asked for which knew a password
\* the account had while it ran, although the hash it verified may be stale by the
\* time of its statement.
ChangedByKnower ==
    \E t \in Thread : /\ req[t].kind = "change" /\ pc[t] = "store"
                      /\ stored' = req[t].new
                      /\ req[t].current \in during[t]
ChangesAreEntitled == [][stored' # stored => ChangedByKnower]_vars

\* An account that was left without a password never gets one through the API:
\* no handler, however it is interleaved, passes the verification it needs.
NoWayIn == [][stored = NoHash => stored' = NoHash]_vars

\* A change that is answered ok did store its password, and a client is told that
\* the user does not exist, although the password was stored, only if another
\* handler wrote between the statement and the reading of the shared counter.
UndisturbedChange ==
    \A t \in Thread : Answered(t, "change") =>
        /\ reply[t] = "ok" => req[t].new \in during[t]
        /\ reply[t] = "user_not_found" => disturbed[t]

\* What README.md says of a change: with a wrong current password it is refused,
\* so one that is answered ok replaced the password it named.
OkReplacedCurrent ==
    \A t \in Thread : Answered(t, "change") /\ reply[t] = "ok" =>
        replaced[t] = req[t].current
-----------------------------------------------------------------------------
(* The inductive invariant of the proofs in CredentialsProofs.             *)

\* A verified handler holds a hash that was stored while it runs.
Knows(t) ==
    /\ pc[t] # "idle" => req[t].kind \in Kinds /\ req[t].current \in Password
                          /\ req[t].new \in Password
    /\ pc[t] \in {"guard", "store", "affected"} => req[t].kind = "change"
    /\ pc[t] \in {"read", "verify"} => req[t].kind \in {"login", "change"}
    /\ pc[t] = "session" => req[t].kind = "login"
    /\ pc[t] = "other" => req[t].kind = "other"
    /\ pc[t] \notin {"idle", "done"} => stored \in during[t]
    /\ pc[t] \in {"verify", "session", "store"} => hash[t] \in during[t]
    /\ pc[t] \in {"session", "store"} => hash[t] = req[t].current
    /\ stored = NoHash => hash[t] = NoHash
    /\ pc[t] = "affected" => req[t].new \in during[t] /\ (changes = 1 \/ disturbed[t])

IndInv == TypeOK /\ (\A t \in Thread : Knows(t)) /\ LoginAtOneInstant /\ UndisturbedChange
=============================================================================
