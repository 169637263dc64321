# A verification project for Iridoporth-backend

TLA+ models of the Zig server in `src/src`, the TLC runs that check them, and
TLAPS proofs of the properties that matter most. Paths below are relative to
the repository root `src/`.

## 1. The system

One process: zap/facil.io accepts HTTP and runs handlers on **two worker
threads** of one worker (`src/main.zig:144`); a detached **sampler thread** reads
the machine's status; everything persistent is in one SQLite file, opened once
in threading mode `Serialized` and shared by all handlers (`Context.db`).

| Component | State it keeps | Operations | Talks to |
|---|---|---|---|
| Start-up (`main`, `db/sqlite`, `db/migrations`, `services/user.ensureAdminAccount`) | `user_version`, schema, admin row, its password row | read version, migrate in a transaction, find / insert admin, set password | SQLite file, other processes on the same file |
| Flight-log writes (`endpoints/flight_log/*`, `repositories/flight_log`) | `flight_log_entries`, `flight_log_entry_likes` | post, like, unlike, delete, hide, unhide, respond, clear | sessions, the connection's `sqlite3_changes` |
| Flight-log lists (`services/flight_log`, `listAll*`) | none | list, admin list | same tables |
| Sessions and identity (`http/request_user`, `services/user_session`) | `users`, `user_sessions`, the browser's cookie | look a token up, create an anonymous user lazily, login's session, clear a cookie | every handler |
| Passwords (`services/login`, `services/user`, `repositories/user`) | `user_password_credentials` | login, change of password | sessions, `sqlite3_changes` |
| Raspberry Pi status (`services/raspi_status`, `endpoints/raspi_status`) | `ctx.raspi`: a tagged union with a name and three atomics | sample every second, give up on an error, answer | `/proc`, `/sys`, memory shared without a lock |
| Routing (`endpoints/flight_log/dispatcher`) and PATCH parsing (`entry.parseAction`) | local | parse the path, dispatch by method, count fields, pick the action | flight-log writes and lists |
| Validation, JSON, errors | none | pure functions | all handlers |

What is hard about it:

* **The shared counter.** Handlers run one statement and then ask the connection,
  in a second call, how many rows the last write touched. With two workers the
  number may be another handler's.
* **Several commits per request.** User, session and entry are inserted by
  separate statements; the admin and its password too.
* **Read, then act.** Permission, password hash and schema version are read in
  an earlier step than the statement that relies on them.
* **Start-up of several processes, with crashes anywhere.**
* **Cookies travel.** Requests carry the cookie of the moment they were sent;
  responses arrive in another order or not at all.
* **Lock-free reading** of the sampler's union, and its clean-up by two threads.
* **One connection, many statements.** A list is stepped row by row while others
  write, and nothing is committed while any handler's INSERT is unfinished.

What makes each component correct, in a sentence: the board only changes as the
actions of the API allow and answers say what happened; nobody serves half a
database and no start overwrites a changed password; passwords change only by
somebody who knows one; a cookie stands for one browser and works until it ends;
status answers are fresh or say unavailable; a request does the one thing the API
documents for it; a list tells what was true while it was read; what was answered
is still there after a crash.
`PROJECT.json` lists every component and every hazard with its line.

## 2. Plan

In order of importance; all but the last line is done:

1. `FlightLog` (with `FlightLogBoard`, `FlightLogService`) and its proofs, up to the
   refinement of the service.
2. `Startup` and its proofs.
3. `Credentials` and its proofs.
4. `Sessions` and its proofs.
5. `RaspiStatus`, `Readings`, `RaspiSampler` and their proofs.
6. `FlightLogList`, `FlightLogRoutes`, `PatchRequest`, composed in
   `FlightLogEndpoint`, and its proofs.
7. `FlightLogCrash` (with `FlightLogArchive`) and its proofs.
8. `Identities`, what `Sessions` comes to without tokens and cookies.
9. Left: commits that fail.

No module that is proved about uses a `RECURSIVE` operator.

## 3. The modules

The grain of a step is what the code makes atomic: one `sqlite3_step` or
finalize or `sqlite3_changes` on the serialized connection, one load or store of
shared memory, one message. Between two steps of a handler any other thread may
run. Variables marked *observer* in the modules are read by properties only.
Operators named `Mutant...` are wrong variants of a definition; no specification
uses them. They document which mistake each property would catch.

### FlightLog, FlightLogBoard, FlightLogService

`FlightLog` is the API as the threads run it. `pc[t]` is the place in the handler:

| place | code |
|---|---|
| `identify`, `userRow`, `session`, `sessionRow` | `requireUserIdOrCreateAnonymous`: lookup, INSERT of the user, its finalize, upsert of the session (an INSERT .. RETURNING too), its finalize; also `login` |
| `authorize` | `requireAdmin` |
| `exec` | `sanitizeContent`, then the statement of `repositories/flight_log.zig` |
| `postRow` | INSERT .. RETURNING has delivered its row and is not finalized |
| `affected` | `db.rowsAffected()` |
| `check` | the second query of `like` and `unlike` |
| `done` | the answer, which may fail to be written (`ResponseFails`: `internal_error` of a request that took effect) |

Rows are records of creator, deleted, hidden and response; times and texts are
dropped (NULL or not is kept). Nobody is deleted physically and roles never
change, because no code does it. Sessions are the set of users whose token is
found; that a request presents any of them is the abstraction of the cookie.

`FlightLogBoard` is what the tables promise, one atomic operation per action of
the API, with its permissions. `FlightLogService` adds callers and answers: a call
is identified as a user, by a session, a new identity or a password, or as an admin
(`Identify`), is then one operation of the board at one instant, by that user, and
is answered as it went, unless the answer is lost. A deletion is therefore that of
its caller, who must be the author. `FlightLog`
implements the board with any number of threads and the service with one thread (runs
and theorems). With two it does not, which `flightlog_false_not_found` shows at its
root, the shared counter; `ServiceUnlessDisturbed` says that this is the only way it
fails. Every step is then one of the service, or a `Misread`: a handler after whose
statement another thread wrote takes its answer from a counter or a row that is not
as that statement left it, and changes nothing by it. The answer of the abstract
call is the one its statement has settled (`Settled`), which the handler gives later.

### FlightLogCrash, FlightLogArchive

`FlightLogCrash` is `FlightLog` with a disk. The code opens no transaction after
start-up, so SQLite commits on its own: when a writing statement ends and no other
one on the connection is unfinished. `INSERT .. RETURNING` is stepped once for its
row and finalized by `defer stmt.deinit()` (`src/repositories/flight_log.zig:184`, and
likewise `insertUser` and the upsert of `insertUserSession`); a handler between the
two (`Inserting`) keeps everything the other thread writes from being committed,
answered or not. `Crash` ends the
process at any step, by a panic or from outside; it comes back with the disk and
without its handlers, and some sessions may have expired.

`promised` are the posts and deletions that were answered ok, `lasting` those since
whose answer there was a moment without unfinished insert. `PromisesLast` says the
latter outlive every crash. `FlightLogArchive` is the board with one kept copy of
it: the board works, the copy is renewed as a whole at moments of its choosing, and
the board may go back to it. `ImplementsArchive` therefore says that no crash
leaves tables of different age, such as an entry without its author.

### FlightLogEndpoint, with FlightLogRoutes, PatchRequest and FlightLogList

`FlightLogRoutes` is `parseRoute` and the dispatch by method, `PatchRequest` is
`parseAction`; both are operators. A path is what follows the base: nothing, another
character, or a slash and its segments. A segment is `admin`, `like`, a number,
empty or something else, which is all `parseRoute` tells of it.

`FlightLogList` steps the two SELECTs. The rows come from a walk down the primary
key; because of `GROUP BY` the step that hands out a row has already read the next
entry (`ahead`). `sometime` and `always` observe which entries could be seen at some
moment of the request and which belonged to the list at every moment.

`FlightLogEndpoint` composes them with `FlightLogBoard`: a request is routed
(`Receive`), then writes as one operation of the board (`Act`), or is read out
(`BeginList`, `ReadRow`), or refused, while other handlers write (`Elsewhere`). The
interleaving within one writing request is the subject of `FlightLog`. A behaviour is
one life of the process: a request that panics ends it, whatever other threads are
doing (`Running`), and what a restart finds is the subject of `FlightLogCrash`. `Meaning` is
the reference: what `README.md` and the comments at the head of `dispatcher.zig` say
that a method, path and body ask for. It is stated on the fields of the body, not on
the count that the code makes of them; a `clear_response` that is false asks for
nothing, since only `true` is documented.

### Startup

One file, several processes, each anywhere in `sqlite.init` and
`ensureAdminAccount`. The database is its committed content; `journal` is its mode,
which the first pragma switches under an exclusive lock before any busy timeout is
set, so that a second process may fail at once (`JournalBusy`); `writer` is SQLite's
write lock, held across statements only by the migration. A statement that finds
it held may wait until it is free or end with an error (`BusyTimeout`). `Crash`
rolls the open transaction back. `Init` is a new file or one of a later release.

### Credentials

`Credentials` follows login and change of password of one account: hash read,
verification outside the database, upsert, counter. A hash is the password it
was made of. `during[t]` observes what was stored since the request arrived: a
login must be answered as an instantaneous one could have been at one of those
moments. A change has no such guarantee (finding `credentials_lost_update`);
what is left of it is `ChangesAreEntitled` and, for its answer, `UndisturbedChange`.

### Sessions

Browsers with a jar, slots for requests in flight, the session table with one
row per user. A cookie is a token, `NoToken` (none, or the empty one that
`clearSessionToken` sets; both are looked up in vain) or, in a response, `"none"`
for no Set-Cookie. Kinds: `write` (`requireUserIdOrCreateAnonymous`), `read`
(`getUserIdOrNull`), `account` (`requireAdmin`, `requireAccount`), `login`. Tokens
are fresh by assumption (32 random bytes).

A browser that waits for each response (`Patient`, one slot) has more guarantees
than a hasty one: it loses a cookie only when the server does not know it
(`ClearsOnlyDead`) and is never made a second anonymous user while its cookie
works (`IdentityKept`). For either, a token that expired or was replaced by a later
login identifies nobody (`StaleTokenIdentifiesNobody`), also when the request that
carries it was sent before. For a hasty one both fail: two overlapping first writes
create two users, and the late answer of an old request can clear a new cookie.

### Identities

What the session layer comes to, without tokens or cookies: the users that exist,
those a cookie is accepted for, and whom each request acts as. A request comes to
act as somebody by a session that is valid at its lookup (`Recognize`), by bringing
the user into being (`Introduce`) or by a verified password (`Verify`), and only the
latter two make a session. `Sessions` implements it with its tokens (`signedIn`: users
whose token is in the table and has not expired; theorem `TokensImplementIdentities`).
The actions of `FlightLog` that identify a request (`FoundSession`,
`CreateAnonymousUser`, `CreateSession`, `VerifyLogin`, `ExpireSession`) are written to
allow all that `Identities` allows of the kinds of request it has; that they do is a
matter of comparing the two texts, not of a theorem.

### RaspiStatus, Readings, RaspiSampler

`RaspiStatus` is the control: the union `ctx.raspi`, its sampler and its readers. The
handler's copy is a data race with the sampler, so its loads come in any order, and
a payload that was retagged reads as anything (`Junk`). The sampler's monotonic
stores become visible in any order before it goes on a second later; that a store
takes less than that second to be seen is an assumption of the model.
`Raspi.deinit` is three steps (`Look`, `FreeName`, `Retag`) of whoever runs it: the
sampler when it gives up, and main when `zap.start` has returned, beside each other
because the sampler is detached. A panic ends the process at once.

`Readings` is the arithmetic: `parseCpuTimes`, `calcCpuUsage`, `parseMemoryUsage`, with
a percentage as a fraction and an underflow as a panic. `RaspiSampler` adds the data
to the steps of `RaspiStatus`: counters of `/proc/stat` of which only `iowait` may go
back, and sizes of the memory. It is a refinement of `RaspiStatus` (theorem
`SamplerImplementsStatus`), so what is proved there holds here.

## 4. The runs

| run | bounds | shows |
|---|---|---|
| `flightlog_crash` | 2 threads, admin + 1 visitor, 2 entries; posting and deleting; a crash at any step, any number of them | `PostIsOwn` with interleaved inserts, `PromisesLast`, `ImplementsArchive` |
| `flightlog_one_thread` | 1 thread, admin + 2 visitors, 1 entry, every kind of request | `ImplementsService` |
| `flightlog_two_threads` | 2 threads, admin + 1 visitor, 1 entry; posting, likes, deleting, hiding, expiry | `UndisturbedReply`, `ModerationByAdmins`, `ServiceUnlessDisturbed` |
| `flightlog_false_not_found` | 2 threads | counterexample to `NotFoundChangedNothing` |
| `requests` | 1 handler, admin + 1 visitor, 2 entries; 4 methods, 13 paths, all 54 PATCH bodies; any writes beside it | `DecisionIsMeant`, `ListIsTrue`, `HiddenOnlyToAdmins` |
| `patch_four_fields` | as `requests` | counterexample to `AlwaysDecided` |
| `startup_race` | 2 processes, 2 crashes, a new file or a later release's | all properties of `Startup` |
| `startup_no_password` | 1 process, 1 crash | counterexample to `AdminCanSignIn` |
| `credentials_threads` | 2 threads, 2 passwords | `LoginAtOneInstant`, `UndisturbedChange`, `ChangesAreEntitled`, `NoWayIn` |
| `credentials_lost_update` | 2 threads, 2 passwords | counterexample to `OkReplacedCurrent` |
| `sessions` | a hasty and a patient browser, 2 requests in flight, 1 account, 2 anonymous users, 3 tokens, every kind, losses, expiry | `GuestHasOneBrowser`, `DeliveredTokenWorks`, `ClearsOnlyDead`, `IdentityKept`, `StaleTokenIdentifiesNobody` |
| `status_sampling` | 1 handler, 2 rounds, counters 0..2, sizes 1..2; failure, panic and end of main at any moment | `FreshAnswer`, `NameUnlessFailed`, `NothingLeaks`, `FreedOnceWhileServing`, `UsageIsShare`, `PanicOnlyIfBack`, `FailureIsShown` |

Why the bounds are enough: the process has two workers, so two threads is the
real number. Every hazard needs at most two actors and one row, or two rows for
two posts, or two rows of a list, that must not be confused. A visitor beside the
admin separates permission from identity; `flightlog_one_thread`, which has the
room, adds a third user who is neither the author nor an admin. Respond, clear
and unhide are statements of the same form as hide, and a login a write like any
other; they run there, and the proofs cover them with any number of threads. Two processes and
two crashes let each process die at every place beside the other. Three tokens
give a browser an old, a current and a competing one. Handlers of the status
only read what they share, so one stands for all; so does one reader of lists,
with the writes of all others as board operations. Two rounds have a difference
of readings and one to compare it with, and counters up to 2 can go back by more
than another grows. The paths have every kind of first segment, every kind of tail
and one segment too many. A password is replaced and replaced back with two values.
The counters `EntryCount`, `MaxCrashes`, `MaxSamples` and the sets `User`, `Guest`,
`Token`, `Slot`, `Tick`, `Size`, `Requests` are the named bounds. The proofs need none
of them.

`sessions` uses symmetry, since tokens and anonymous users are interchangeable and only safety is checked there, and a view (`Canon`) that forgets what a
request has no further use for, such as its token after the lookup.
`flightlog_two_threads` and `flightlog_crash` use the symmetry of the two threads,
again for safety only. All other runs are exhaustive without either.

`CHECK_DEADLOCK FALSE` is used for `startup_race`, where a system in which every
process serves, no password exists to change and no crash is left has nothing
more to do, for `status_sampling`, whose process exits or aborts, and for `requests`,
whose process a body with four fields stops.

### Findings

Runs with `expect: violation` state a sentence of the repository's documents and
show that the code does otherwise:

* `flightlog_false_not_found`: a change that was made is answered
  `flight_log_not_found`, because another thread's statement came between the
  statement and the reading of the counter. By the same cause the opposite
  happens (ok to a deletion that selected no row, ok to a like that is not
  stored), and a stored change of password can be answered `user_not_found`, the
  "strange error" of `src/http/api_error.zig:38`. `UndisturbedReply` and
  `UndisturbedChange` are what holds.
* `startup_no_password`: a crash between the admin's row and its password leaves
  an account that no later start completes.
* `credentials_lost_update`: of two changes that verified the same hash the second
  replaces a password it did not name.
* `patch_four_fields`: four fields overflow the two-bit count.

For each of the four a theorem says that the run shows its only cause: with one
worker thread the first and the third do not happen (`OneThreadReportsTruly`,
`OneThreadLosesNoChange`), nor the second in a process that has the file to itself
and does not end early (`UninterruptedProvisions`), and no other request panics than
a PATCH of an entry with all four fields (`PanicsOnFourFields`).

Seen while modelling, and kept as the exceptions that properties name:

* an available answer whose name was freed while it was written
  (`NameUnlessFailed`), a name that sampler and main both free when a reading fails
  during the clean-up (`FreedOnceWhileServing`), and a process that a reading aborts
  because `iowait` went back (`PanicOnlyIfBack`, `UsageIsShare`);
* the two anonymous users of a hasty browser;
* an answer given while another handler's INSERT is unfinished is not on disk yet: a
  crash takes it back, and the id it named may be handed out again
  (`PromisesLast` starts at the next moment without one);
* lists are no snapshot: `ListIsTrue` is what holds of them. Within a row the number
  of likes and whether the viewer likes it are read apart as well, so a row may
  show no likes and `liked_by_this_user`.

`PROJECT.json` quotes the sentences and lists the lines.

## 5. Fairness

* `Startup!FairSpec`: weak fairness of each process's progress. The processor
  schedules it, and a process that ended is started again (`restart:
  unless-stopped` in `scripts/docker-compose.yml`). Crashes are bounded, not fair.
  Strong fairness of `SwitchToWal`: a process that is started again and again meets
  the other one inside its pragma, which lasts a moment, at most for a while.
* `RaspiSampler!FairSamplerSpec`: weak fairness of the sampler, a thread that waits
  for nobody. Nothing is assumed of failures or of main.

The other specifications are safety only: handlers end, but no document promises
when.

## 6. The proofs

| module | theorems |
|---|---|
| `FlightLogProofs` | `TypeCorrect`, `UndisturbedRepliesTrue`, `PostsAreOwn`, `TablesImplementBoard`, `AdminsModerate` |
| `FlightLogServiceProofs` | `ServesUnlessDisturbed`, `OneThreadServes`, `OneThreadReportsTruly` |
| `FlightLogCrashProofs` | `CrashTypeCorrect`, `PromisesDoLast`, `SafeDespiteCrashes`, `CrashesGoBack` |
| `FlightLogEndpointProofs` | `TypeCorrect`, `ListsAreTrue`, `HiddenStaysHidden`, `DecisionsAreMeant`, `PanicsOnFourFields`, `WritesAreMeant` |
| `StartupProofs` | `TypeCorrect`, `CompleteDatabase`, `WholeMigration`, `ChangedPasswordSurvives`, `NewerIsUntouched`, `UninterruptedProvisions` |
| `CredentialsProofs` | `TypeCorrect`, `LoginsAreTrue`, `ChangesAreTrue`, `ChangesEntitled`, `StaysLockedOut`, `OneThreadLosesNoChange` |
| `SessionsProofs` | `TypeCorrect`, `GuestsHaveOneBrowser`, `DeliveredTokensWork`, `StaleTokensIdentifyNobody`, `OnlyDeadCookiesAreCleared`, `IdentityIsKept`, `TokensImplementIdentities` |
| `RaspiSamplerProofs` | `TypeCorrect`, `AnswersAreFresh`, `AnswersNameHost`, `NameGivenBack`, `FreedOnce`, `SamplerImplementsStatus`, `SamplerTypeCorrect`, `PanicsOnlyIfBack`, `UsageTrue` |

They hold for any sets of threads, users, processes, browsers, tokens, passwords,
requests, counters and handlers and any bounds. They assume only what the modules
name as `...Assumption`: that the placeholders (`NoRow`, `NoUser`, `NoToken`, `Nobody`,
`NoHash`, `Null`, `Junk`) are not values of the sets they stand beside, that admins are
users, that requests have the shape of HTTP requests and that the bounds are
numbers. Three theorems whose names begin with `OneThread` assume one worker thread,
and `UninterruptedProvisions` one process that does not die.

Each rests on an inductive invariant, stated at the end of the component's module
and proved by one step per action:

* **FlightLog** (`IndInv`). `UndisturbedReply` is not inductive: it says nothing
  before the answer. `OwnCounter` says what the counter is worth between the
  statement and the answer while nobody disturbs; `InHand` what a handler holds at
  each place (an identified user is a row, an authorized one an admin); `PostsApart`
  that two unfinished inserts have different rows; `ForeignKeys` that users, sessions,
  entries and likes refer to rows that are there, which the database would enforce
  and the other conjuncts need. The refinement of the board maps each statement to
  its operation and all other steps to stuttering.
* **The service** (`ServiceInv`). `IndInv` and `CallsMatch`: a thread has a call exactly
  while its handler runs, and an answer when it is done. Each statement is mapped to
  the operation it is, at the instant it runs, with the answer its WHERE clause
  settles; `OwnCounter` then says that an undisturbed reading finds that answer, and
  for a like or unlike that touched no row, that the second query finds the board as
  the statement left it. All this holds for any number of threads, with `Misread` as
  the only exception (`ServesUnlessDisturbed`). With one thread nobody can disturb
  (`Calm`), which leaves no exception (`OneThreadServes`).
* **Identities.** The refinement maps the step that names the user of a request to the
  way it came by that user. It needs `NothingEarly`, that only a token that was made
  can have expired, so that a new session begins valid, and that a request names no
  user before it has settled one.
* **FlightLogCrash** (`CrashInv`). `IndInv` again, so that every step of a handler is
  covered by the lemmas of `FlightLogProofs`; `DiskSound`, that the disk is a state
  a process can start from, which re-establishes `IndInv` after a crash; that the
  disk equals the tables when nobody inserts; and that what was promised is in the
  tables, what lasts also on disk. The refinement of the archive maps a commit to
  renewing the copy and a crash to going back.
* **FlightLogEndpoint.** `ListInv` says what is still below the walk: every entry
  that always belonged to the list was handed out or lies at or below `ahead`.
  `DecisionIsMeant` compares two case distinctions over all methods, paths and
  bodies; the number of set fields is reasoned about through the cardinality of
  `Active`.
* **Startup** (`IndInv`). `Relies(p)` says what a process may rely on at each place,
  `OneProvisions` that at most one stands before the statement that sets the
  default password: the unique email made the others fail. With `credential =
  "none"` at that place no changed password can be overwritten.
* **Credentials** (`IndInv`). `Knows(t)`: the hash a handler verified was stored while
  it ran, an account without a hash gives none to read, and between its statement
  and the counter a change reads 1 or was disturbed.
* **Sessions** (`SessionInv`). `GuestHasOneBrowser` only speaks of who acted.
  `OneBearer` adds every way a browser could come to act as a user: the cookie it
  holds, the tokens its requests presented and the cookies on their way to it.
  `RowsMatch` ties the session rows to the owners of tokens, so that a token that is
  not replaced or expired is found and one that was replaced is not; `InFlight` that a patient browser's cookie is
  still the one its request presented, and that a token found dead stays dead.
* **RaspiStatus** (`IndInv`). The last complete round is at most each visible sample,
  the floor of a request at most the last complete round, and what is loaded at
  least the floor (`Rounds`, `Loads`); what each of the two clean-ups knows at each of
  its steps (`Deinits`). `RaspiSampler` needs only the types of its counters.

Some theorems have no run of their own: `TokensImplementIdentities`, `WritesAreMeant`, and
`TablesImplementBoard`, whose property `ImplementsBoard` is part of what
`ServiceUnlessDisturbed` says.

Only model-checked: liveness (`EveryoneServes`, `FailureIsShown`), which is out of the
prover's reach.

## 7. Not modelled

* Validation (`domain/validation.zig`): pure functions of one string with table tests
  at both ends of every range. Where handlers call it, both verdicts are possible.
* JSON, status numbers, logging, static files, configuration: no state.
* The columns of a list's rows other than the entry. In passing: the anonymous
  callsign is `Anonymous` for all (`src/repositories/flight_log.zig:24`).
* A commit that fails when a statement is finalized, which the wrapper only logs
  (`zig-pkg/sqlite/sqlite.zig:1640`), and a power failure, against which
  `synchronous = NORMAL` does not protect the last commits.
* Retries by clients: nothing in a request identifies one, so a repeated POST is a
  second post.
* SQLite, zap, facil.io and the Zig wrapper under `zig-pkg/`: third-party. They are
  all of the repository's C code and most of its lines, and none of it is
  the subject of this project, whose program is the Zig code in `src/src`. Relied
  on: the serialized connection makes one step or one counter read atomic;
  `sqlite3_changes` keeps the count of the last completed INSERT, UPDATE or DELETE
  of the connection; a SELECT sees what its own connection wrote between its steps;
  a connection commits when its last unfinished writing statement ends; foreign keys
  and unique indexes are enforced; an uncommitted transaction is gone after a
  crash, a committed one is not.
* argon2 and SHA-256: injective, by assumption.
* Time, except that sessions may expire at any moment.
