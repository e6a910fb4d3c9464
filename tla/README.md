# Verification of sfworkflowd

TLA+ models of `sfworkflowd`, the repair-request tracker in this repository: a
Go daemon that serves a JSON API and a single-page app and keeps everything in
one SQLite file. The models are checked with TLC on small instances, and the
results that matter most are proved with TLAPS for every instance.

The repository has no tests. What is checked here are the hazards a test of
this program would hardly reach: handlers that interleave between SQL
statements, accounts that vanish under a running handler, stored timestamps
that were read earlier, handlers that die half way, a process that is stopped
in the middle of its start.

Paths below are relative to the repository root (`src/` in `PROJECT.json`).

## 1. The system

### Components

| Component | State | Operations |
|---|---|---|
| `internal/repair/repair.go`: request service | table `repair_requests` | Create, List, Get, Claim, TakeOver, Transition, SetPriority |
| `internal/repair/states.go`: state machine | none (tables) | IsTerminal, CanTransition, AllowedNext |
| `internal/auth/auth.go`: accounts | table `users` | CreateUser, Delete, ChangeRole, ChangePassword, List, CountUsers |
| `internal/auth/auth.go`: sessions | table `sessions` | Login, Lookup, Logout, WipeAllSessions, PurgeExpired |
| `internal/machines/machines.go`: registry | table `machines` | FindOrCreate, Search, Get |
| `internal/nodestate/nodestate.go` | table `node_state` | Get, Set |
| `internal/db/db.go` | `schema_migrations`, the connection | Open, migrate |
| `internal/httpapi` | none of its own | routes, requireAuth, requireAdmin, requireSameOrigin, the handlers |
| `cmd/sfworkflowd/main.go` | the process | start, version wipe, purge ticker, shutdown |
| `internal/config/config.go` | the configuration file | Load, updateConfig (no caller) |
| `web/src` | the dashboard's list, selection, session | loadAll, claim, takeOver, transition, changePriority, login, setup |
| `internal/web`, `scripts/`, `deploy/` | none | serving the built app; deployment |

### How they interact

`net/http` runs every request in a goroutine. `requireAuth` resolves the session
(two statements), `requireAdmin` also looks at the role it read there, then the
handler calls a service, and the service runs SQL statements. There is no other
shared state: no mutex, no cache, no channel between handlers. `db.go:52` limits
the pool to one connection, so statements never overlap; the three listings
(`repair.List`, `auth.List`, `machines.Search`) hold it until their rows are closed,
everything else gives it back with the statement. But no service
method opens a transaction (only `migrate` does), so between two statements of
one handler any statement of any other may run. **One SQL statement with the Go
code up to the next one is the unit of atomicity**, and it is what an action is
in every module here.

The tables are tied together by foreign keys (enforced: `db.go:41`): deleting an
account sets `assigned_to` and `created_by` to NULL and deletes its sessions.

### What is hard, and what makes each component correct

* Requests. Claim and TakeOver are single guarded UPDATEs; Transition and
  SetPriority read first and then update by id alone. Correct means: a
  claim is won once; nothing is worked on without a claim; status, `closed_at`
  and owner agree; closed requests stay closed; callers are told the truth.
* Accounts. Setup, Delete and ChangeRole check in one statement and act in
  another. Correct means: the first account is the only one made without an
  admin; there is always an admin; a handler acts on the account it looked up.
* Machines. Find, insert, find again. Correct means: one machine per name, and
  every request under the machine that was typed. The type-ahead compares what
  was typed as a LIKE pattern; correct means it finds what contains it, and
  nothing else.
* Sessions. A sliding expiry stored from a time read earlier, beside a purge
  with a time of its own, a cookie with an expiry of its own, passwords and
  roles that change and accounts that vanish under a request. Correct means: a
  password opens nothing once it was replaced before the login; a session that
  is still good is not lost; one that ended does not come back.
* Start. Every migration is a transaction; the version wipe is two statements
  and a crash can fall between them; the next start may be of another binary.
  Correct means: nobody is served on an incomplete schema, no session outlives
  its version, and a plain restart costs nobody his session.
* Dashboard. Answers may arrive in another order than they were asked for.

`PROJECT.json` lists every hazard at its line, with the properties that cover
it or, where none does, why.

## 2. Modules

| Module | Kind | Models |
|---|---|---|
| `Lifecycle` | operators | `states.go` |
| `RequestLedger` | abstract | what the request service promises, operations atomic |
| `RepairRequests` | detailed | `repair.go` and its handlers, statement by statement |
| `RepairConnection` | detailed | the same, with the one connection as a resource, and listings that hold it |
| `RepairApart`, `MCRepairApart` | detailed, TLC | the same, with the question whether transitions of a request keep apart |
| `Directory` | abstract | what the account service promises, operations atomic |
| `Accounts` | detailed | setup and user management, statement by statement |
| `AccountsApart`, `MCAccountsApart` | detailed, TLC | the same, with the question whether checked writes keep apart |
| `Registry` | abstract | what the machine registry promises, operations atomic |
| `Machines` | detailed | `FindOrCreate` and the filing of a request under its machine |
| `MachineSearch`, `MCMachines` | operators, TLC | the type-ahead over the machines there are |
| `SessionRegister` | abstract | what the session service promises, operations atomic |
| `Sessions`, `MCSessions` | detailed, TLC | logins, requests, passwords, purge and wipe, statement by statement |
| `SessionCookie` | composition | `Sessions` with the cookies of `cookie.go` |
| `Migrations` | detailed | the migration loop of `db.go` with its crash points |
| `Daemon` | composition | `main.go`: starts and stops over `Sessions` and `Migrations` |
| `...Proofs` | proofs | invariants and refinements, section 5 |

In each detailed module `call[p]` is what goroutine `p` is doing: its program
counter `pc` names the statement it is about to run, the other fields are the
locals that later code still reads. `Idle` is the normal form of a goroutine
that does nothing, and `Reply` clears the locals, so that states do not differ
in dead data. `Abort(p)` is enabled whenever a handler is between statements:
the client went away (the request's context is cancelled), the statement failed, or the
daemon died (then every handler aborts, one after the other; the tables are what
SQLite committed). What an aborted handler wrote stays written.

Operators whose comment begins with "Variant" are not part of the model. Each is
a plausible mistake in the operator that follows it; `PROJECT.json` ("mutants")
says which property must fail when it takes that operator's place.

### RepairRequests

* `rows[i]` is a row of `repair_requests` without its texts; `users` the ids in
  table `users`; `clock` is `time.Now().Unix()`; `claimant[i]` is a history
  variable: whose Claim matched row `i`.
* A call may name any id: the path carries any number, and the next AUTOINCREMENT
  key can be guessed. So a claim may arrive, wait and even miss before another
  handler's INSERT creates its request. `call[p].found` is history: whether a claim's
  request was there when the claim arrived.
* Create, Claim, TakeOver, Transition and SetPriority are each a chain of
  actions, `...Begin` to `ReadBack` and `Finish`. `Refuse` covers what is turned away
  before the table is touched. A body that does not decode and a path id that
  does not parse are answered with 400 before anything else and change nothing;
  they are not separate actions.
* The second that a statement stores is read when the handler sets out for it
  (`call[p].now`), as in the Go code, where `time.Now()` is evaluated before
  `ExecContext` waits for the connection.
* `ForeignKeyHolds` is the foreign key on `assigned_to` and `created_by`: an
  account deleted after it authenticated makes the statement fail.
* `DeleteUser` is `DELETE FROM users` with its two `ON DELETE SET NULL`. It is
  not guarded by the last admin here: which account may be deleted is
  `Accounts`' concern, and the requests must survive any deletion.
* Machines are left out; `Machines` has that half of `handleCreateRequest`.

### RepairConnection

`conn` is who holds the connection of `db.go:52`. A `Statement` of a handler needs
it free and leaves it free. A listing takes it with its query (`ListQuery`), keeps it over
the scan of every row (`ListScan`) and gives it back when the rows are closed: at their
end (`ListEnd`), or on an error or a cancelled request (`ListFail`, the deferred
`rows.Close`). Handlers and further listings wait meanwhile. The three listings of the
code differ in their query only, so one stands for all. What would break it are the mistakes a
pool of one connection invites, and which the two mutants are: a statement issued while the rows
are open, and a transaction that looks something up through the pool.

### RequestLedger

The promise, atomically: a request is logged, claimed once, taken over, moved
along `Edges`, and loses its owner only with the account. `LedgerView` maps a row
and its claimant to a ledger entry; "filed" is whether `closed_at` is NULL, which
is what `List`'s open-only filter reads. It is implemented twice:

* with `Edges` = `LegalEdges` (the state machine without the claim edge) while
  the transitions of a request keep apart (`RepairApart`);
* with `Edges` = `ConcurrentEdges` however handlers overlap. That is the weakest
  promise the code keeps: a stale write may move a request between any two
  statuses other than received, and from received only to cancelled. It says
  what survives the race, namely that no request returns to received and that
  no transition stands in for a claim.

### RepairApart and AccountsApart

They ask what exactly the check-then-write races of findings 1, 3 and 4 cost. One
variable more, `apart`, is fixed by the initial state. Where it is FALSE nothing
is restricted, so that one run also checks what the code promises to everybody.
Where it is TRUE the two statements of a check and its write behave like one
transaction, and nothing else does:

* `RepairApart`: no two handlers are between Transition's read and its write of the
  same request. Claims, take-overs, priorities, deleted accounts, the clock, and
  transitions of other requests come in between as they like.
* `AccountsApart`: no two setups are between their count and their INSERT, and no two
  deletions or role changes between finding their target and their write. Creating
  accounts overlaps with everything.

What is false in general is true there: closed requests stay closed and every
move is one of `states.go`; setup makes the first account, and an admin stays. A
fix that puts each check and its write into one transaction would therefore be enough.

### Accounts and Directory

* `accounts[i]` is the row of id `i` or `NoAccount`; `seq` the next AUTOINCREMENT
  key. Names are equal up to case (`COLLATE NOCASE`).
* A management handler starts when `requireAdmin` has let it through, which needs
  an admin to exist at that moment (`EnterAsAdmin`); the role is not read again,
  so the handler goes on even when its caller is demoted or deleted.
* Setup logs the new admin in (`SetupLogin`, `SetupSession`); the session itself
  is state of `Sessions`. The password check may fail when
  the password was changed in between, so it may fail at any time.
* RoleWrite answers ok whether or not its UPDATE matched a row, as `auth.go:211`.

`Directory` has a switch `Guarded`. With it the first account is an admin and the
last admin stays; the service keeps that while its checked writes keep apart. Without it
what is left is unique names and ids handed out once, in order, which the service
keeps however handlers overlap.

### Machines and MachineSearch

`handleCreateRequest` seen from the machine: `FindOrCreate` is find, insert, find
again; then `Create` refuses or files. `requests` remembers what each reporter
typed beside the machine the request was filed under.

`Registry` is the promise: a machine is entered once, under the next id, and is never
renamed or removed, and a request is filed under a machine that is there, by its
name. The refinement maps the two tables to themselves; what it abstracts is that
finding, inserting and filing are statements that other reports come between.

In `MachineSearch` a name is a sequence of characters. `EscapeLike` is the
replacer of `machines.go`, character by character, `Like` is SQLite's LIKE with `ESCAPE '\'` as a recursive
function (where in the text a match of the rest of the pattern may begin), and `SearchFindsWhatWasTyped` compares the
answer with the definition of containing. The letter case, the blanks around
what was typed and the order of the answer are left out.

### Sessions and SessionRegister

* `accounts` has the password and the role, not the name; accounts exist from the
  start, with any mixture of roles, and may be deleted. A password is a value of
  its own and its hash the same value: bcrypt is taken to tell passwords apart.
* `sessions[t]` is the row of token `t`. A token is issued once: 32 random bytes
  are taken never to repeat. "ended" remembers that the row is gone.
* `handed` is what the outside has: a token leaves the daemon with the answer to
  its login, so a session of a login that was aborted after its INSERT is open
  and never used.
* Login is four steps: read the hash, compare (a step of its own, it takes
  long), insert, stamp. The handlers behind `requireAuth` are `LookupSlide` and
  `LookupUser`, the two statements of `Lookup`, then what the handler does:
  nothing that is state here (`use`), `LogoutEnd`, or `PasswordFind` and
  `PasswordWrite`.
* The password typed is chosen where it is first looked at (`LoginCompare`,
  `PasswordWrite`) and not carried along before.
* A failing statement in `requireAuth` or in Login's read is answered with 401,
  and the DELETE of a logout may fail and be answered with ok
  (`auth_handlers.go:82`); `Abort` and `LogoutEnd` say so.
* `purge` is the second `PurgeExpired` has read while its DELETE waits.
* `during` is history: the passwords an account, or the roles a caller, has had
  since his request arrived. The properties about logins and about admins are
  stated with it, because "the current password" has no meaning for a handler
  that takes three steps.
* `Wipe` is `WipeAllSessions`, which only runs before anybody is served; `Crash`
  takes the goroutines and leaves the tables.

`SessionRegister` is the promise: sessions opened for accounts that exist, pushed
ahead within bounds, closed, lapsed, cleared, or ended with their account. The
refinement maps the table to itself; what it abstracts is when the times were
read, and by whom.

### SessionCookie

The browser's half: the answer to a login sets the cookie for `SessionTTL`, the
answer to a logout clears it, nothing else touches it.

### Migrations and Daemon

`Migrations` is the loop: look the migration up, execute its body and insert its
record in a transaction, commit. `tx` is what the open transaction has written,
and `CutShort` is a failing statement or a crash. A body is refused when its
tables exist, which is what would make a start fail for good.

`Daemon` is `main`. `phase` is where it stands; `LoadConfig` starts any of the
`Versions`; `Migrate` runs the loop; `GetVersion`, `WipeSessions` and `SetVersion`
are the version check, and each has a failing twin, because the code logs the
failure and goes on. `flawed` remembers that this has happened. While `serving`,
the steps are those of `Sessions`. `StopProcess` is a signal, a kill or a failed
migration, at any statement. The tables outlive it.

`OnlyAnotherVersionWipes` holds without regard to `flawed`: whatever failed before, a
session that is still good is not lost to a start of the version recorded last, nor
to one that finds no version recorded.
Three consequences of `main.go` that the other properties exclude with `flawed`, and that a reader
should know. A wipe that fails is followed by recording the version all the
same (`main.go:77-84`), so the old sessions stay for good. A version that could
not be recorded lets a later start take the version before it for its own (A, then B
unrecorded, then A again finds B's sessions). And it makes a plain restart of the same binary wipe
the sessions it issued itself: A is recorded, B wipes and cannot record, serves, and is
started again; it still finds A and wipes B's sessions, although `main.go:72` says
"Incidental restarts (same binary) keep sessions intact".
`OnlyAnotherVersionWipes` allows all three; it says that nothing beyond them is lost.

## 3. Runs

Bounds are small because the handlers do not count anything: what can go wrong
needs two handlers and one request, or two accounts, and one or two steps of
the clock.

| Run | Shows | Bounds |
|---|---|---|
| `RepairSafety` | the row agrees with itself, with the accounts and with what callers were told; stamps are in order; the failed claim of a request that was there is final; overlapping handlers implement the ledger with `ConcurrentEdges`, and with `LegalEdges` where transitions keep apart, and then closed stays closed | 2 handlers, 2 accounts, 1 request, clock 0..1; 2.1M states |
| `RepairLiveness` | every handler and every listing is answered, although they wait for one connection that listings keep | 2 handlers, 1 listing, 1 account, 1 request, clock at 0; 107k states |
| `RepairTerminalNotFinal` | finding 1 | 2 handlers, 2 accounts, 1 request |
| `RepairClaimFailed` | finding 2 | 2 handlers, 2 accounts, 1 request |
| `AccountsSafety` | ids keep their meaning; one deletion, one confirmation; overlapping handlers implement the unguarded directory, and the guarded one where checked writes keep apart; then never locked out, one setup | 3 handlers, 2 names, 3 ids; 1.5M states |
| `AccountsLockedOut` | finding 3 | 2 handlers, 2 names, 3 ids |
| `AccountsSecondSetup` | finding 4 | 2 handlers, 2 names, 3 ids |
| `MachinesSafety` | one machine per name, requests filed as typed, races absorbed, the list of machines only grows (`Registry`); the type-ahead finds what was typed | 3 handlers, 3 names of 2 characters, 3 ids, 9 queries with wildcards and backslashes, limits 0, 1 and 51; 50k states |
| `MachinesWithoutRequest` | finding 5 | 1 handler |
| `SessionsSafety` | logins act on a password of their own time, setters were admins, expiries within bounds, no live session lost without a reason, none revived but by a waiting request; the register is implemented | 2 handlers, 1 account, 2 passwords, 2 tokens, TTL 2, clock 0..2; 1.5M states |
| `SessionCookieDropped` | finding 6 | 1 handler, 1 token, TTL 2, clock 0..2 |
| `DaemonRestarts` | no session outlives its version, none is lost to a restart, only another version wipes whatever failed, nobody is served before the schema is complete, expired sessions go | 3 starts of 2 binaries, 2 migrations, 1 handler, 1 account, 1 token, TTL 1, clock 0..2; 98k states |

Three handlers are needed for an id to be reused under a fourth one's feet
(find, delete, create) and for a lost race to coincide with an insert of another
name; two are enough for every other pair of statements to be reordered. One request is enough for the
request service: an action reads and writes one row, and no property relates two. Two
accounts tell an owner from a rival. In `SessionsSafety` two passwords tell a
replaced one from the current one and two tokens two sessions of the account; with TTL 2
and a clock to 2 a slide can land short of a later one and an expiry is
reached, by the session of second 0 in second 2. Three starts are the least in
which a version comes back after another (A, B, A), and two migrations the least
in which a start finds a part of them.

Bounds in the guards: `MaxTime` stops the clock, `RoomForOne` stops Create while
no id is left, `seq \in Ids` and `next \in Ids` stop an INSERT likewise, a login
waits for a token while none is left, and the
last of `MaxStarts` starts is not stopped. The
model then stops where the program would go on, so the Repair and Accounts runs
switch TLC's deadlock check off: with the clock at its bound and every account deleted
nothing can happen any more, and an Accounts handler about to insert past the
last id has only Abort left. The Machines, Sessions and Daemon runs keep the deadlock check.

**Fairness.** `ConnFairness` (`RepairLiveness`) asks two things. What needs no connection, or
has it, goes on: weak fairness of a listing's scan and end and of sending an answer, since the Go
scheduler runs every runnable goroutine. Whoever needs the connection and finds it taken
is passed over only for a time: strong fairness of `Statement(p)` and of `ListQuery(l)`. Weak
fairness would not do, as the connection is taken and returned for ever; strong fairness
is what `database/sql` gives (with probability one), because a returned connection goes to a
waiter picked at random. Nothing is asked of callers, deletions, the clock or clients that go
away.

`DaemonFairness` (`DaemonRestarts`) asks three things. A start goes on while
nothing stops it, and the process is started again: weak fairness of `StartStep`. After a failure
systemd does that (`deploy/sfworkflowd.service:10`, `Restart=on-failure`); after a
clean exit it does not, and that somebody starts the daemon again is an assumption about its operator. The hourly
ticker fires as long as the process serves (`main.go:93-108`): weak fairness of
`PurgeBegin`. The purge's DELETE may fail, which is logged, but not every time:
strong fairness of `PurgeDelete`. Nothing is asked of callers or the clock. The
bound on starts stands for a process that is not stopped for ever.

**Assumption.** The wall clock does not go back. `StampsInOrder`,
`SessionLastsItsTerm` and the two properties on live and expired sessions depend on it.

## 4. Findings

Each is a run that must end in a violation, with the quotation it contradicts.

1. *Closed requests can be reopened or rewritten.* Transition reads the status,
   decides, and updates `WHERE id = ?` alone (`repair.go:224-243`). Two
   overlapping transitions both see in_repair; one completes, the other sets
   awaiting_parts, and the completed request is open again. `states.go:77`:
   "IsTerminal reports whether s is an end state (no further transitions)."
2. *A failed claim does not mean that another user won.* `repair.go:28`: "another
   user won the race", and `repair.go:172`: "the request is already owned". The error
    is the same for a request cancelled before anybody claimed it, for the
   winner himself, when he lost the answer to his claim and sends it again, and even for a
   request that is free: a claim that guessed the next id misses with its UPDATE, the
   request is logged, and the Get that is to explain the miss finds it.
   winner himself, when he lost the answer to his claim and sends it again.
3. *The last admin can go.* `auth.go:151`: "Refuses to delete the last admin", and
   192 for demotion. Two admins removed at once both count two. Nobody can then manage
   users, and setup stays closed if a plain user is left.
4. *Setup can run twice.* `auth_handlers.go:27`: "creates the very first admin
   user. Only callable while the users table is empty". Two overlapping setups
   create two admins; a password hash lies between the check and the insert.
5. *Machines without requests.* `server.go:82`: "New machines are created
   implicitly via find-or-create when a request is logged". The machine is inserted
   before the summary and the priority are validated.
6. *The cookie does not slide.* `auth.go:31`: "Each authenticated request extends
   expires_at to now+SessionTTL; a gap longer than this drops the session". The
   session slides, the cookie is set once, at login (`cookie.go:23`), and a browser
   in constant use loses it `SessionTTL` later, without a gap.

Some smaller ones, met on the way, are plain from single lines of the code and have no run.

* `0001_init.sql:85` says the owner is "changed only by another user pulling ownership to
  themselves", and line 87 sets it to NULL when the account goes, which leaves a
  request in repair with no owner (`Leave` in `RequestLedger`).
* `repair.go:122` says "newest-activity-first",
  but `updated_at` is read before the wait for the connection, so a later write
  can carry the earlier second and be listed below. A claim or a take-over that
  named the id before its INSERT can even store an `updated_at` earlier than
  `created_at`: `StampsInOrder` says where that cannot happen.
* ChangeRole and ChangePassword answer ok when their UPDATE matched nothing.
* `scripts/deploy.ps1:87` builds without the version stamp of `Makefile:25`, so
  two deployments by that script have the same version and wipe nothing.

Documentation that no longer describes the code, and that no run is about:
`README.md:51-64` describes an older pipeline (diagnosing, testing, on_hold, ...)
and a `request_events` history; `states.go` has neither status and
`0001_init.sql:10-13` says there is no event table.

## 5. Proofs

Everything below holds for any number of handlers, accounts, names, ids,
priorities, tokens, versions, migrations and starts, and for any SessionTTL, under the ASSUMEs of the modules only (sentinels such as `Null` differ from the values
they stand beside, bounds are naturals, "normal" is a priority, the TTL is positive).

| Module | Theorem | States |
|---|---|---|
| `RepairRequestsProofs` | `TypesHold` | `TypeOK` |
| | `ClosedStampAlwaysMatches` | `ClosedStampMatchesStatus` |
| | `OwnershipAlwaysStartsWithClaim` | `OwnershipStartsWithClaim` |
| | `AccountsNeverDangle` | `NoDanglingAccounts` |
| | `ClaimAnswersAreTrue` | `ClaimAnswerIsTrue` |
| | `ClaimFailuresAreFinal` | `ClaimFailureIsFinal` |
| | `StampsAlwaysInOrder` | `StampsInOrder` |
| | `ServiceImplementsLedger` | `ImplementsConcurrentLedger` |
| `RepairApartProofs` | `TerminalIsFinalApart` | `ApartTerminalIsFinal` |
| | `ServiceImplementsStrictLedger` | `ApartImplementsStrictLedger` |
| `AccountsProofs` | `TypesHold` | `TypeOK` |
| | `TargetsAreWhoWasFound` | `TargetIsWhoWasFound` |
| | `DeleteAnswersAreTrue` | `DeleteAnswerIsTrue` |
| | `ServiceImplementsDirectory` | `ImplementsLooseDirectory` |
| `AccountsApartProofs` | `NeverLockedOutApart` | `ApartNeverLockedOut` |
| | `SetupMakesTheFirstApart` | `ApartSetupMakesTheFirst` |
| | `ServiceImplementsStrictDirectory` | `ApartImplementsStrictDirectory` |
| `MachinesProofs` | `TypesHold` | `TypeOK` |
| | `NamesHaveOneMachine` | `OneMachinePerName` |
| | `RequestsAreFiledAsTyped` | `FiledUnderWhatWasTyped` |
| | `RacesAreAlwaysAbsorbed` | `RacesAreAbsorbed` |
| | `ServiceImplementsRegistry` | `ImplementsRegistry` |
| | `LikeFindsWhatWasTyped` | `%q%` with q escaped matches exactly what contains q |
| | `SearchIsLiteral` | `SearchFindsWhatWasTyped` |
| `SessionsProofs` | `TypesHold` | `TypeOK` |
| | `LoginsUseTheirOwnPassword` | `LoginPasswordWasCurrent` |
| | `OnlyAdminsSetPasswords` | `SettersWereAdmins` |
| | `SessionsLastTheirTerm` | `SessionLastsItsTerm` |
| | `LiveSessionsOnlyEndForAReason` | `LiveSessionsEndForAReason` |
| | `OnlyWaitingRequestsRevive` | `LateRequestsDoNotRevive` |
| | `ServiceImplementsRegister` | `ImplementsRegister` |
| `MigrationsProofs` | `RecordAlwaysMatches` | `RecordMatchesSchema` |
| | `NothingIsAppliedTwice` | no body and no record is ever refused |
| `DaemonProofs` | `DaemonComposes` | `DaemonSpec => Spec /\ MigrationsSpec` |
| | `DaemonTypesHold` | `DaemonTypeOK` |
| | `NobodyIsServedBeforeMigrating` | `MigratedBeforeServing` |
| | `NewVersionsStartClean` | `NewVersionStartsClean` |
| | `RestartsNeverEndSessions` | `RestartsKeepSessions` |
| | `OnlyAnotherVersionEverWipes` | `OnlyAnotherVersionWipes` |
| | `DaemonKeepsOneRegister` | `DaemonSpec => ImplementsRegister` |

**Requests.** None of the properties is inductive, because a handler in flight
carries a decision about a row that others are changing. The invariant adds,
per row, that its parts agree (status, stamp, owner, claimant, order of
stamps), and, per handler, what its decision still guarantees when it is stored:
the second it carries is not later than the clock and, where the row was read before it,
not earlier than the row's creation; a pending transition was legal from the status it saw; if it saw
anything but received, the request has been claimed, and if it saw received the
transition is a cancellation. That last part is why the race of finding 1
cannot bypass the claim: the invariant is about what was seen, and what was seen
about the claim is never undone (`GrowStep`: the claimant is never forgotten, rows
are never removed, and none is received again). The same fact carries a failed claim
of a request that was there (`found`) from the UPDATE that matched nothing, past the read that
explains it, to the answer and beyond (`PastClaim`). A row step preserves the invariant of its own handler
(`RowStep`, `CallStep`) and of bystanders (`Bystander`). The refinement maps
each action that writes a row to one ledger action and every other to a stutter.

**Requests, with transitions apart.** A handler about to write a transition holds
one that is legal from where the request stands now (`Decided`). No other
transition moves the request meanwhile; take-overs, priorities and deletions leave
its status alone (`StatusKept`); a claim does move it, from received to
in_repair, but then what is pending can only be a cancellation, which a claim does
not make illegal (`ClaimDoesNotObject`). So the claim's WHERE clause and the choice
of edges, and not luck, are why it needs no transaction with the others. Since the two ledgers differ
in `Edges` only, the refinement already proved is reused, and it is enough that
a status changes by a claim or by a transition (`StatusMoves`), along a legal
edge (`LegalMoves`).

**Accounts.** `TargetIsWhoWasFound` needs that an id once handed out is never
given to somebody else: an account, and the target a handler has found, lie below `seq`, and no
step gives an id below `seq` to a new name (`KeepsIds`). It fails with a key that is
not AUTOINCREMENT, which is the mutant. The truth of a confirmed deletion follows from the
refinement: in the directory an id that is gone stays gone (`GoneStaysGone`). With
checked writes apart, what a handler found and counted is still so when it writes
(`StillSo`): an account created in between takes no admin away, and none is
created while setup runs, because creating one needs an admin to start and an
admin, once there, stays (`InsertKeepsAdmin`, `DeleteKeepsAdmin`, `RoleKeepsAdmin`).

**Machines.** A handler that lost the race knows the name is taken, and rows are
never removed; ids from `next` on are free, so an INSERT overwrites nothing. With
that, the statement that inserts is the registry's `Enter` and the one that files
its `File` (`RegistryStep`).

**The search.** This one is about every well-typed state, not about steps: for
names and queries of any length over any characters, the type-ahead finds what
contains the query. It needs induction over the two recursive functions, the
table of `Like` and the one inside the library's `FlattenSeq`. The library's
induction theorems take an operator for the induction predicate, which the
provers cannot instantiate; `SetInduction` and `BoundedInduction` state induction
over a SET of numbers instead, which is first-order and is proved from the
well-foundedness of < on Nat. With it: the tables are defined at every index and satisfy their
equations (`LikeHasTable`, `FlattenHasTable`); the escaped query is one or two
characters for each of the query's, at known places (`FlattenMeaning`,
`EscapedMeaning`, `EscapeMeaning`); between two wildcards, the table at the first place of a query's
k-th character holds exactly the positions where the rest of the query
follows and anything after that (`LikeFindsWhatWasTyped`). The escape
character has to be escaped too for its place in the pattern to mean itself; with the
variant `WildcardsOnly`, the run shows a query that fails.

**Sessions.** `Ready` says what a handler in each place holds: a login about to
compare has a hash of `during`, one about to insert a password of `during` and a
second not later than the clock; a request about to slide has a token that was
issued; a handler about to set somebody's password has "admin" in `during`.
`OpenRowInv` says of every open row that its bounds hold and its account exists.
The bounds survive slides out of order because whoever slides carries a second
that the open row's login does not come after, and what is stored is that second
plus the TTL. Steps are classified by what they disturb: a handler
hands its record over (`Handover`), or the tables change in a way that no other
handler can notice (`Mild`); changes of password and of role are the two that also
extend `during`.

**Migrations.** The record matches the schema because only a commit changes
either, and it changes both by the same number (`TxInv`); every number before the one
the loop stands at is recorded (`LoopInv`).

**Daemon.** Every step of the daemon is a step of `Sessions` or leaves its variables
alone, and likewise for `Migrations`; hence `DaemonComposes`, and every theorem of
either module holds of the daemon. `PhaseInv` ties the place in `main` to the
place in the loop. `VersionInv` is the argument of the wipe: unless a statement of
the check failed, the open sessions are those of the version recorded last,
whatever is running and wherever it was cut short; it is only served when the
recorded version is its own, and recorded only when nothing is open. That the wipe is
reached only with another version recorded needs no such condition, and the
steps of a serving daemon end a good session only by a logout or with its account
(`ServingEnds`); together they are `OnlyAnotherVersionWipes`.

TLC only: liveness (`EveryCallIsAnswered`, `EveryListingIsAnswered`, `ExpiredSessionsGo`), whose proofs would need
the enabledness of actions under fairness, which the provers do not handle. The
invariants and action properties of every passing run, and the six refinements, are all proved.

## 6. Plan

Done, in this order: the request service with its ledger, the accounts with
their directory, the machines and their search, the sessions with their register
and their cookie, the migrations, the daemon, the refinements for checked writes that
keep apart, the registry of machines, the proof of the search, and the connection as a
resource.

Left, in order of what it would add:

1. `Authorised`: Accounts composed with Sessions over one table `users`, for what
   a demoted or deleted caller's handler may still do to accounts. Today
   `Accounts` lets a management handler start whenever an admin exists, which
   allows every interleaving the composition would, and `Sessions` has the role check.
2. `Reporting`: Machines composed with RepairRequests' Create.
3. Liveness of sessions: that a login is answered, under the fairness of
   `RepairConnection`.
4. `Board`: the dashboard against the service, with answers that arrive late or
   in another order.

## 7. Not modelled

* The dashboard. It shows what the server answered, and the server checks every action
  again; `RepairRequests` lets a client send any request at any time.
* `requireSameOrigin`, the JSON helpers, `internal/web`: no state; the
  rest of each handler is independent of them.
* `machines.Get` and the display of a request only read. What a listing answers is not
  modelled, only that it holds the connection; the open-only filter of `repair.List` is what
  `filed` stands for.
* `config.updateConfig` has no caller. What `Load` reads only decides whether the process
  starts, and where it listens.
* The deployment scripts; a new binary is a start with another version.
* Texts (summaries, details, display names), and the format of anything; letter
  case and order in the search.
* bcrypt and the random token: passwords differ when their hashes do, and tokens do not repeat.
* SQLite itself: a statement is atomic and durable once it has returned, foreign keys and
  UNIQUE constraints are enforced, AUTOINCREMENT never hands out an id twice.
