------------------------------- MODULE Startup -------------------------------
(***************************************************************************)
(* What a process does to the database file before it serves: sqlite.init  *)
(* reads user_version and migrates an older schema inside one transaction, *)
(* then ensureAdminAccount looks the bootstrap admin up, inserts it and    *)
(* sets its password in three statements that commit one by one.           *)
(*                                                                         *)
(* A process may die between any two steps; what is committed stays, its   *)
(* open transaction is rolled back, and the container is started again.    *)
(* Several processes can open the same file (a new container beside one    *)
(* that still runs); they meet only in the file.                           *)
(***************************************************************************)
EXTENDS Naturals

CONSTANTS Process,      \* processes that open the database file
          MaxCrashes    \* bound: how often a process dies

CONSTANT Nobody         \* no process holds the write lock

ASSUME ProcessAssumption == Nobody \notin Process
ASSUME MaxCrashesAssumption == MaxCrashes \in Nat

CurrentSchema == 1      \* current_schema_version

VARIABLES journal,      \* the file's journal mode: "delete" until it is switched
          version,      \* PRAGMA user_version, as committed
          tables,       \* the schema of migrateToV1 is committed
          admins,       \* rows of users with the bootstrap email
          credential,   \* the admin's row of user_password_credentials
          writer,       \* who holds SQLite's write lock across statements
          pc,           \* where each process is
          crashes

database == <<version, tables, admins, credential>>
vars == <<journal, database, writer, pc, crashes>>

Stopped  == {"down", "failed"}
Starting == {"pragma", "open", "begin", "migrate", "stamp", "commit", "find", "create", "password"}

TypeOK ==
    /\ journal \in {"delete", "wal"}
    /\ version \in 0 .. CurrentSchema + 1
    /\ tables \in BOOLEAN
    /\ admins \in {0, 1}
    /\ credential \in {"none", "default", "changed"}
    /\ writer \in Process \cup {Nobody}
    /\ pc \in [Process -> Stopped \cup Starting \cup {"serving"}]
    /\ crashes \in 0 .. MaxCrashes

\* A new file, or one that a later release of the program has written.
Init ==
    /\ \/ /\ journal = "delete" /\ version = 0 /\ tables = FALSE
          /\ admins = 0 /\ credential = "none"
       \/ /\ journal = "wal" /\ version = CurrentSchema + 1 /\ tables = TRUE
          /\ admins \in {0, 1}
          /\ credential = IF admins = 0 THEN "none" ELSE "changed"
    /\ writer = Nobody
    /\ pc = [p \in Process |-> "down"]
    /\ crashes = 0

Goto(p, place) == pc' = [pc EXCEPT ![p] = place]

\* An error returned from main: the connection closes and rolls back.
Fail(p) ==
    /\ Goto(p, "failed")
    /\ writer' = IF writer = p THEN Nobody ELSE writer
    /\ UNCHANGED <<journal, database, crashes>>

\* A write statement finds another connection writing for the whole busy_timeout.
Busy(p) == writer \notin {p, Nobody}

-----------------------------------------------------------------------------
(* sqlite.init                                                             *)

Start(p) ==
    /\ pc[p] \in Stopped
    /\ Goto(p, "pragma")
    /\ UNCHANGED <<journal, database, writer, crashes>>

\* PRAGMA journal_mode = wal comes before busy_timeout is set.  It writes to a file
\* that is not in that mode yet, and reads one that is,
SwitchToWal(p) ==
    /\ pc[p] = "pragma"
    /\ journal = "wal" \/ ~Busy(p)
    /\ journal' = "wal"
    /\ Goto(p, "open")
    /\ UNCHANGED <<database, writer, crashes>>

\* so that an opener that meets another one's switch, or a writer, fails at once
\* instead of waiting.  Two that switch side by side may both fail.
JournalBusy(p) ==
    /\ pc[p] = "pragma"
    /\ journal = "delete"
    /\ Busy(p) \/ \E q \in Process \ {p} : pc[q] = "pragma"
    /\ Fail(p)

MutantIgnoreNewer(p) ==
    /\ pc[p] = "open"
    /\ Goto(p, IF version < CurrentSchema THEN "begin" ELSE "find")
    /\ UNCHANGED <<journal, database, writer, crashes>>

\* user_version is read outside the transaction that may migrate.
ReadVersion(p) ==
    /\ pc[p] = "open"
    /\ version <= CurrentSchema
    /\ Goto(p, IF version < CurrentSchema THEN "begin" ELSE "find")
    /\ UNCHANGED <<journal, database, writer, crashes>>

SchemaTooNew(p) ==
    /\ pc[p] = "open"
    /\ version > CurrentSchema
    /\ Fail(p)

BeginImmediate(p) ==
    /\ pc[p] = "begin"
    /\ ~Busy(p)
    /\ writer' = p
    /\ Goto(p, "migrate")
    /\ UNCHANGED <<journal, database, crashes>>

\* The tables of migrateToV1 without the transaction around them.
MutantNoTransaction(p) ==
    /\ pc[p] = "migrate"
    /\ ~tables
    /\ tables' = TRUE
    /\ Goto(p, "stamp")
    /\ UNCHANGED <<journal, version, admins, credential, writer, crashes>>

\* The statements of migrateToV1: visible to others only when committed.
MigrateToV1(p) ==
    /\ pc[p] = "migrate"
    /\ ~tables
    /\ Goto(p, "stamp")
    /\ UNCHANGED <<journal, database, writer, crashes>>

\* CREATE UNIQUE INDEX has no IF NOT EXISTS: a file that somebody else migrated
\* since its version was read cannot be migrated again.
AlreadyMigrated(p) ==
    /\ pc[p] = "migrate"
    /\ tables
    /\ Fail(p)

StampVersion(p) ==
    /\ pc[p] = "stamp"
    /\ Goto(p, "commit")
    /\ UNCHANGED <<journal, database, writer, crashes>>

Commit(p) ==
    /\ pc[p] = "commit"
    /\ tables' = TRUE
    /\ version' = CurrentSchema
    /\ writer' = Nobody
    /\ Goto(p, "find")
    /\ UNCHANGED <<journal, admins, credential, crashes>>

-----------------------------------------------------------------------------
(* ensureAdminAccount                                                      *)

MutantAlwaysProvision(p) ==
    /\ pc[p] = "find"
    /\ Goto(p, IF admins > 0 THEN "password" ELSE "create")
    /\ UNCHANGED <<journal, database, writer, crashes>>

FindAdmin(p) ==
    /\ pc[p] = "find"
    /\ Goto(p, IF admins > 0 THEN "serving" ELSE "create")
    /\ UNCHANGED <<journal, database, writer, crashes>>

MutantNoUniqueEmail(p) ==
    /\ pc[p] = "create"
    /\ ~Busy(p)
    /\ admins' = admins + 1
    /\ Goto(p, "password")
    /\ UNCHANGED <<journal, version, tables, credential, writer, crashes>>

CreateAdmin(p) ==
    /\ pc[p] = "create"
    /\ ~Busy(p)
    /\ admins = 0
    /\ admins' = 1
    /\ Goto(p, "password")
    /\ UNCHANGED <<journal, version, tables, credential, writer, crashes>>

\* idx_users_email refuses a second row.
EmailTaken(p) ==
    /\ pc[p] = "create"
    /\ admins > 0
    /\ Fail(p)

\* The hash takes a while; the row is written in one statement.
SetDefaultPassword(p) ==
    /\ pc[p] = "password"
    /\ ~Busy(p)
    /\ credential' = "default"
    /\ Goto(p, "serving")
    /\ UNCHANGED <<journal, version, tables, admins, writer, crashes>>

BusyTimeout(p) ==
    /\ pc[p] \in {"begin", "create", "password"}
    /\ Busy(p)
    /\ Fail(p)

-----------------------------------------------------------------------------
(* Afterwards.                                                             *)

\* A signed-in admin replaces the password; a credential must be there already,
\* because the current password is verified against it.
ChangePassword(p) ==
    /\ pc[p] = "serving"
    /\ credential # "none"
    /\ ~Busy(p)
    /\ credential' = "changed"
    /\ UNCHANGED <<journal, version, tables, admins, writer, pc, crashes>>

Crash(p) ==
    /\ pc[p] \notin Stopped
    /\ crashes < MaxCrashes
    /\ crashes' = crashes + 1
    /\ Goto(p, "down")
    /\ writer' = IF writer = p THEN Nobody ELSE writer
    /\ UNCHANGED <<journal, database>>

Migrate(p) ==
    \/ SwitchToWal(p) \/ JournalBusy(p) \/ ReadVersion(p) \/ SchemaTooNew(p) \/ BeginImmediate(p) \/ MigrateToV1(p)
    \/ AlreadyMigrated(p) \/ StampVersion(p) \/ Commit(p)

EnsureAdminAccount(p) ==
    \/ FindAdmin(p) \/ CreateAdmin(p) \/ EmailTaken(p) \/ SetDefaultPassword(p)

Progress(p) == Start(p) \/ Migrate(p) \/ EnsureAdminAccount(p) \/ BusyTimeout(p)

Next == \E p \in Process : Progress(p) \/ ChangePassword(p) \/ Crash(p)

Spec == Init /\ [][Next]_vars

\* A process runs on, and a stopped one is started again (restart: unless-stopped
\* in the production compose file).  Two first starts may refuse each other the
\* switch of the journal mode, but not every time that they are started again.
FairSpec ==
    /\ Spec
    /\ \A p \in Process : WF_vars(Progress(p)) /\ SF_vars(SwitchToWal(p))

-----------------------------------------------------------------------------
(* Properties.                                                             *)

\* A process serves only a complete database: the schema and its version were
\* committed together and the bootstrap admin exists, wherever processes died
\* or overtook each other before.
ServesCompleteDatabase ==
    \A p \in Process : pc[p] = "serving" =>
        version = CurrentSchema /\ tables /\ admins = 1

\* The schema is there exactly when its version says so, so that no start finds
\* half a migration.
VersionMatchesSchema == tables <=> version >= CurrentSchema

\* README: an admin that exists already never has the password overwritten.  A
\* start that still has to set the default password is the one that created the
\* admin, and nobody can have changed a password before that.
PasswordSurvives == [][credential = "changed" => credential' = "changed"]_vars

\* A file that a later release had migrated before this one was started is never
\* written by it: no table, version or row.  (Its journal mode is switched to WAL
\* before the version is read, which this does not cover.)
NewerUntouched == [][version > CurrentSchema => UNCHANGED database]_vars

\* Lost races and crashes during start-up are passing: when processes are started
\* again they all come to serve, in a database this release can read.
EveryoneServes ==
    version <= CurrentSchema => \A p \in Process : <>[](pc[p] = "serving")

\* What README.md says of the default admin: it can be assumed to exist, with
\* its password, once the program runs.
AdminCanSignIn ==
    (\E p \in Process : pc[p] = "serving") => credential # "none"

-----------------------------------------------------------------------------
(* The inductive invariant of the proofs in StartupProofs.                 *)

Migrating == {"migrate", "stamp", "commit"}
Migrated  == {"find", "create", "password", "serving"}

\* What a process may rely on at each place.  Only the process that inserted the
\* admin ever stands before the statement that sets the default password.
Relies(p) ==
    /\ writer = p <=> pc[p] \in Migrating
    /\ pc[p] \in {"stamp", "commit"} => ~tables
    /\ pc[p] \in {"begin"} \cup Migrating => version <= CurrentSchema
    /\ pc[p] \in Migrated => version = CurrentSchema
    /\ pc[p] \in {"password", "serving"} => admins = 1
    /\ pc[p] = "password" => credential = "none"

OneProvisions ==
    \A p, q \in Process : pc[p] = "password" /\ pc[q] = "password" => p = q

IndInv ==
    /\ TypeOK
    /\ VersionMatchesSchema
    /\ credential # "none" => admins = 1
    /\ \A p \in Process : Relies(p)
    /\ OneProvisions
=============================================================================
