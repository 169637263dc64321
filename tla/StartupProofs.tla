--------------------------- MODULE StartupProofs ---------------------------
(***************************************************************************)
(* Proofs about Startup for any number of processes and of crashes.        *)
(***************************************************************************)
EXTENDS Startup, TLAPS

LEMMA StartHolds == Init => IndInv
<1> SUFFICES ASSUME Init
             PROVE  IndInv
  OBVIOUS
<1>1. TypeOK
  <2>0. journal \in {"delete", "wal"}
    BY DEF Init
  <2>1. version \in 0 .. CurrentSchema + 1 /\ admins \in {0, 1}
    <3>1. version = 0 \/ version = 2
      BY DEF Init, CurrentSchema
    <3>2. admins = 0 \/ admins = 1
      BY DEF Init
    <3> QED BY <3>1, <3>2 DEF CurrentSchema
  <2>5. tables \in BOOLEAN
    BY DEF Init
  <2>2. credential \in {"none", "default", "changed"}
    BY DEF Init
  <2>3. pc \in [Process -> Stopped \cup Starting \cup {"serving"}]
    BY DEF Init, Stopped
  <2>4. writer \in Process \cup {Nobody} /\ crashes \in 0 .. MaxCrashes
    BY MaxCrashesAssumption DEF Init
  <2> QED BY <2>0, <2>1, <2>2, <2>3, <2>4, <2>5 DEF TypeOK
<1>2. VersionMatchesSchema
  BY DEF Init, VersionMatchesSchema, CurrentSchema
<1>3. credential # "none" => admins = 1
  BY DEF Init
<1>4. \A p \in Process : Relies(p)
  BY ProcessAssumption DEF Init, Relies, Migrating, Migrated
<1>5. OneProvisions
  BY DEF Init, OneProvisions
<1> QED BY <1>1, <1>2, <1>3, <1>4, <1>5 DEF IndInv

LEMMA StepHolds == IndInv /\ [Next]_vars => IndInv'
<1> SUFFICES ASSUME IndInv, [Next]_vars
             PROVE  IndInv'
  OBVIOUS
<1> USE ProcessAssumption, MaxCrashesAssumption
    DEF IndInv, TypeOK, VersionMatchesSchema, CurrentSchema, Relies, OneProvisions,
        Migrating, Migrated, Stopped, Starting, Goto, Fail, Busy, database
<1>1. CASE UNCHANGED vars
  BY <1>1 DEF vars
<1>2. ASSUME NEW p \in Process, Start(p)
      PROVE  IndInv'
  BY <1>2 DEF Start
<1>3. ASSUME NEW p \in Process, Migrate(p)
      PROVE  IndInv'
  <2>8. CASE SwitchToWal(p)
    BY <2>8 DEF SwitchToWal
  <2>9. CASE JournalBusy(p)
    BY <2>9 DEF JournalBusy
  <2>1. CASE ReadVersion(p)
    BY <2>1 DEF ReadVersion
  <2>2. CASE SchemaTooNew(p)
    BY <2>2 DEF SchemaTooNew
  <2>3. CASE BeginImmediate(p)
    BY <2>3 DEF BeginImmediate
  <2>4. CASE MigrateToV1(p)
    BY <2>4 DEF MigrateToV1
  <2>5. CASE AlreadyMigrated(p)
    BY <2>5 DEF AlreadyMigrated
  <2>6. CASE StampVersion(p)
    BY <2>6 DEF StampVersion
  <2>7. CASE Commit(p)
    BY <2>7 DEF Commit
  <2> QED BY <1>3, <2>1, <2>2, <2>3, <2>4, <2>5, <2>6, <2>7, <2>8, <2>9 DEF Migrate
<1>4. ASSUME NEW p \in Process, EnsureAdminAccount(p)
      PROVE  IndInv'
  <2>1. CASE FindAdmin(p)
    BY <2>1 DEF FindAdmin
  <2>2. CASE CreateAdmin(p)
    BY <2>2 DEF CreateAdmin
  <2>3. CASE EmailTaken(p)
    BY <2>3 DEF EmailTaken
  <2>4. CASE SetDefaultPassword(p)
    BY <2>4 DEF SetDefaultPassword
  <2> QED BY <1>4, <2>1, <2>2, <2>3, <2>4 DEF EnsureAdminAccount
<1>5. ASSUME NEW p \in Process, BusyTimeout(p)
      PROVE  IndInv'
  BY <1>5 DEF BusyTimeout
<1>6. ASSUME NEW p \in Process, ChangePassword(p)
      PROVE  IndInv'
  BY <1>6 DEF ChangePassword
<1>7. ASSUME NEW p \in Process, Crash(p)
      PROVE  IndInv'
  BY <1>7 DEF Crash
<1> QED BY <1>1, <1>2, <1>3, <1>4, <1>5, <1>6, <1>7 DEF Next, Progress

LEMMA Inductive == Spec => []IndInv
BY StartHolds, StepHolds, PTL DEF Spec

\* The file, the lock and the processes keep their types; there is never a second
\* bootstrap admin.
THEOREM TypeCorrect == Spec => []TypeOK
<1>1. IndInv => TypeOK
  BY DEF IndInv
<1> QED BY <1>1, Inductive, PTL

\* Wherever processes die or overtake each other, one that serves has a complete
\* schema of its own version and exactly one bootstrap admin.
THEOREM CompleteDatabase == Spec => []ServesCompleteDatabase
<1>1. IndInv => ServesCompleteDatabase
  BY DEF IndInv, ServesCompleteDatabase, Relies, Migrated, VersionMatchesSchema, CurrentSchema
<1> QED BY <1>1, Inductive, PTL

\* Half a migration is never committed.
THEOREM WholeMigration == Spec => []VersionMatchesSchema
<1>1. IndInv => VersionMatchesSchema
  BY DEF IndInv
<1> QED BY <1>1, Inductive, PTL

\* A file that a later release migrated is only ever opened and left.
THEOREM NewerIsUntouched == Spec => NewerUntouched
<1>1. IndInv /\ [Next]_vars => [version > CurrentSchema => UNCHANGED database]_vars
  <2> SUFFICES ASSUME IndInv, Next, version > CurrentSchema
               PROVE  UNCHANGED database
    OBVIOUS
  <2>1. version \in {0, 1, 2}
    BY DEF IndInv, TypeOK, CurrentSchema
  <2>2. \A p \in Process : pc[p] \notin {"begin"} \cup Migrating \cup Migrated
    <3> TAKE p \in Process
    <3>1. Relies(p)
      BY DEF IndInv
    <3>2. ~(version <= 1) /\ version # 1
      BY <2>1 DEF CurrentSchema
    <3> QED BY <3>1, <3>2 DEF Relies, CurrentSchema
  <2> QED
    BY <2>2 DEF Migrating, Migrated, Next, Progress, Start, Migrate, SwitchToWal, JournalBusy,
       ReadVersion, SchemaTooNew, BeginImmediate, MigrateToV1, AlreadyMigrated, StampVersion,
       Commit, EnsureAdminAccount, FindAdmin, CreateAdmin, EmailTaken, SetDefaultPassword,
       BusyTimeout, ChangePassword, Crash, Fail, database
<1> QED BY <1>1, Inductive, PTL DEF Spec, NewerUntouched

\* No start overwrites a changed password, not even one that overlaps the change:
\* the only process that sets the default one created the admin itself, and while
\* it has not, there is no credential to change.
THEOREM ChangedPasswordSurvives == Spec => PasswordSurvives
<1>1. IndInv /\ [Next]_vars => [credential = "changed" => credential' = "changed"]_vars
  <2> SUFFICES ASSUME IndInv, Next, credential = "changed"
               PROVE  credential' = "changed"
    OBVIOUS
  <2>1. \A p \in Process : pc[p] # "password"
    BY DEF IndInv, Relies
  <2> QED
    BY <2>1 DEF Next, Progress, Start, Migrate, SwitchToWal, JournalBusy, ReadVersion, SchemaTooNew,
       BeginImmediate, MigrateToV1, AlreadyMigrated, StampVersion, Commit, EnsureAdminAccount, FindAdmin,
       CreateAdmin, EmailTaken, SetDefaultPassword, BusyTimeout, ChangePassword, Crash, Fail,
       database
<1> QED BY <1>1, Inductive, PTL DEF Spec, PasswordSurvives
-----------------------------------------------------------------------------
(* Why an admin may be left without a password.                            *)

\* One process has the file to itself and never dies.
Uninterrupted == MaxCrashes = 0 /\ \A p, q \in Process : p = q

\* The admin of this release's file has a password, or gets it at the next step.
Completed ==
    admins = 1 /\ version <= CurrentSchema =>
        credential # "none" \/ \E p \in Process : pc[p] = "password"

LEMMA NobodyElse ==
    ASSUME Uninterrupted, TypeOK, NEW p \in Process
    PROVE  ~Busy(p) /\ ~Crash(p) /\ ~BusyTimeout(p)
BY DEF Uninterrupted, TypeOK, Busy, Crash, BusyTimeout

LEMMA CompletedStep ==
    ASSUME Uninterrupted, IndInv, Completed, [Next]_vars
    PROVE  Completed'
<1> USE DEF Completed
<1>1. CASE UNCHANGED vars
  BY <1>1 DEF vars, database
<1>2. ASSUME NEW p \in Process, Next, Progress(p) \/ ChangePassword(p)
      PROVE  Completed'
  <2>1. TypeOK /\ Relies(p) /\ \A q \in Process : q = p
    BY DEF IndInv, Uninterrupted
  <2>2. CASE CreateAdmin(p)
    BY <2>1, <2>2 DEF CreateAdmin, Goto, TypeOK
  <2>3. CASE SetDefaultPassword(p) \/ ChangePassword(p)
    BY <2>3 DEF SetDefaultPassword, ChangePassword
  <2>4. CASE Commit(p)
    <3>1. version <= CurrentSchema /\ UNCHANGED <<admins, credential>> /\ pc[p] = "commit"
      BY <2>1, <2>4 DEF Commit, Relies, Migrating
    <3> QED BY <2>1, <3>1
  <2>5. CASE /\ pc[p] # "password"
             /\ UNCHANGED <<version, admins, credential>>
    BY <2>1, <2>5
  <2> QED
    BY <1>2, <2>2, <2>3, <2>4, <2>5, <2>1, NobodyElse
       DEF Progress, Start, Stopped, Migrate, SwitchToWal, JournalBusy, ReadVersion, SchemaTooNew,
           BeginImmediate, MigrateToV1, AlreadyMigrated, StampVersion, EnsureAdminAccount,
           FindAdmin, EmailTaken, Fail, database
<1> QED
  <2>1. \A p \in Process : ~Crash(p)
    BY NobodyElse DEF IndInv
  <2> QED BY <1>1, <1>2, <2>1 DEF Next

\* A process that has the file to itself and does not die leaves the admin with a
\* password whenever it serves, as README.md says.  What the run startup_no_password
\* shows needs an end between the two statements: a death, or a lock that another
\* process holds (a statement that fails otherwise would end the process as well).
THEOREM UninterruptedProvisions == ASSUME Uninterrupted PROVE Spec => []AdminCanSignIn
<1>1. Init => Completed
  BY DEF Init, Completed, CurrentSchema
<1>2. IndInv /\ Completed /\ [Next]_vars => Completed'
  BY CompletedStep
<1>3. IndInv /\ Completed => AdminCanSignIn
  <2> SUFFICES ASSUME IndInv, Completed, NEW p \in Process, pc[p] = "serving"
               PROVE  credential # "none"
    BY DEF AdminCanSignIn
  <2>1. version = CurrentSchema /\ admins = 1
    BY DEF IndInv, Relies, Migrated
  <2>2. \A q \in Process : pc[q] # "password"
    BY DEF Uninterrupted
  <2> QED BY <2>1, <2>2 DEF Completed, CurrentSchema
<1> QED BY <1>1, <1>2, <1>3, Inductive, PTL DEF Spec
=============================================================================
