# TLA+ specifications of ZITADEL

ZITADEL is an identity and access management server. Its state is a log of
events; everything else is either computed from the log when a command is
checked, or kept up to date from the log in tables that queries read. This
project models the machinery that all of ZITADEL rests on: how events get into
the log, how they get from there to subscribers and into the tables, how several
processes agree on who schedules a projection, generates a signing key or
migrates the database. On top of it are two parts of the domain in which reads
that are stale when they are used matter most: user grants and the login.

Paths are relative to the repository (`src/`).

## Inventory

### Parts, their state and operations

| Part | Code | State | Operations |
| --- | --- | --- | --- |
| Event store | `internal/eventstore/eventstore.go`, `unique_constraint.go` | none of its own; event mappers | `Push`, `Filter`, `FilterToReducer`, `NewInstance` |
| SQL repository | `internal/eventstore/repository/sql/crdb.go`, DDL in `cmd/initialise/sql` | tables `eventstore.events`, `eventstore.unique_constraints`, one database sequence per instance and `system_seq` | `Push` (one transaction: an `INSERT ... SELECT` per event, then the unique constraints), `CreateInstance`, `Filter` |
| Subscription registry | `internal/eventstore/subscription.go` | process-wide map from aggregate type to subscriptions, a mutex, a queue per projection | `SubscribeAggregates`, `SubscribeEventTypes`, `notify`, `Unsubscribe` |
| Projection handler | `internal/eventstore/handler/handler_projection.go` | its queue, a timer, "succeeded once" | `subscribe`, `schedule`, `Trigger`, `FetchEvents`, `Process` |
| Statement handler | `internal/eventstore/handler/crdb` | tables `current_sequences`, `failed_events` and those of the read models | `Update` (one transaction), `fetchPreviousStmts`, `executeStmts`, `handleFailedStmt` |
| Projection lock | `internal/eventstore/handler/crdb/lock.go` | table `locks`: holder and time of expiry per projection and instance | `Lock` with a renewing goroutine, `Unlock` |
| Setup and migrations | `internal/migration`, `cmd/setup` | migration events and the global constraints `migration_started`, `migration_done` | `Setup`, `Migrate`, `Cleanup` |
| Event store v1, spooler | `internal/eventstore/v1` | `current_sequences`, `locks`, `failed_events` of the older views | `spooler.load`, `process`, `lock` |
| Log store, quotas | `internal/logstore` | a cache of records per process, usage in the database | `Handle`, `ship`, `handleThresholds` |
| Signing keys | `internal/api/oidc/key.go`, `internal/api/saml/certificate.go` | key pairs as events and as a projection | `SigningKey`, `refreshSigningKey`, `lockAndGenerateSigningKeyPair`, `GetCertificateAndKey` |
| Command side | `internal/command` | write models, built for one command | one method per command |
| User grants | `internal/command/user_grant*.go`, `project_*.go`, `internal/query/projection/user_grant.go`, `internal/api/grpc/management` | events, the unique constraint of a grant, rows of `projections.user_grants` | add, change, deactivate, reactivate, remove; removals of roles, project grants, projects and users that cascade |
| Login and user sessions | `internal/auth/repository/eventsourcing/eventstore/auth_request.go`, `handler/user_session.go` | the view `auth.user_sessions` | `VerifyPassword`, `VerifyMFAOTP`, `nextSteps` |
| Query side | `internal/query` | none | reads the projections, some after `Trigger` |
| Notification handlers | `internal/notification` | projections whose statements send messages | reducers |
| API, login, console, authorization, actions, crypto, assets | `internal/api`, `console`, ... | sessions and caches | translate requests to commands and queries |

### How they interact

A command reads events, decides, and calls `Push`. `Push` stores the events and
their unique constraints in one transaction, then starts a goroutine that puts
the events on the queues of the projections of *this* process. A projection
takes events from its queue (`subscribe`), from a timer (`schedule`) or because
a query asks for fresh data (`Trigger`); all three reduce events to statements
and call `Update`, and they do so in all processes at once. What keeps them
apart is the database alone: `Update` compares the sequence numbers and the
links of the events with `current_sequences`. `schedule` and the generation of
keys also take a lease on a row of a lock table. Setup uses the event store
itself as its lock. Requests read projections and views, which lag, and decide
with what they found.

### What is hard

* Transactions of concurrent pushes interleave; sequence numbers are drawn
  before the commit, so the log grows in its middle; the isolation level is the
  server's default, which differs between CockroachDB and PostgreSQL.
* `crdb.ExecuteTx` runs the transaction again, on the same event objects; the
  answer of a COMMIT may be lost.
* Notifications are unordered, are lost on a restart, and do not reach other
  processes.
* Several goroutines run `Update` for the same projection; the sequences they
  fetched with are stale when they use them; statements fail, are retried and
  finally skipped, but an event that cannot be reduced is not; `Update` drops and
  adds statements while its caller keeps indices into the list.
* Processes that migrate may stop between any two steps, decide on stale
  information, and be cancelled by hand while they still work.
* Leases expire while their holder still works; renewals are late, fail, or go on
  although nobody needs them; after the first success a scheduler looks only at
  instances with recent events.
* `notify` sends to bounded queues while it holds the mutex of all subscriptions.
* A command pushes some time after it has read, and nothing but unique constraints ties
  the two together; a cascade works on ids from a projection and skips what it fails to
  read; a push that fails may only be logged; a session is put together from two or
  three queries while the view moves on.

The full list, with the lines, is `hazards` in `PROJECT.json`.

### What makes each part correct

* Event store: the events of a stream (aggregate type of an instance) and of an
  aggregate are one linked list; pushes are atomic; a name is claimed by one
  holder; subscribers hear only of what is stored.
* Projection: every stream is handled in order, each event once, none left out
  except after its failures; the bookkeeping says what was done; no failing
  statement blocks the rest.
* Setup: one process at a time executes a migration, in the order of the list,
  once; nobody waits for ever; what is stuck can be cleaned up.
* Lock and schedule: one process at a time works on an instance while its renewals
  are in time, and no event falls out of the window of active instances unless
  faults outlast it.
* Subscription: each subscription gets the events of its aggregates once, in one
  order, and a notification ends.
* Signing keys: only one process generates keys for a need, and there is a key
  whenever there is a need.
* User grants: one grant per user and project, no access without events that give
  it, removals are final and cascade to what was known and could be read.
* Login: no way through without both factors, none asked for twice, and a number of
  wrong passwords bounded by the policy, the requests at a time and the failed
  checks that were lost.

## Modules

| Module | What it is |
| --- | --- |
| `EventLog` | the rows of `eventstore.events`; the abstract specification `LogSpec` |
| `EventStore` | `Push` and the SQL repository, statement by statement |
| `EventStoreProofs` | theorems about `EventStore`, among them that it implements `LogSpec` |
| `Consumer` | abstract specification of a reader of the log: handle streams along their links, remember how far |
| `Projection` | projection handler and statement handler; reads the rows of `EventLog`, implements `Consumer` |
| `ProjectionProofs` | theorems about `Projection`, among them that it implements `Consumer` |
| `ProjectionLock` | the lease table and its one SQL statement; used by `Schedule` and `SigningKeys` |
| `Schedule` | the schedule loops of several processes on `ProjectionLock` |
| `Subscription` | the registry of subscriptions of one process, its mutex and queues |
| `SigningKeys` | who generates the next signing key or certificate, on `ProjectionLock` |
| `Grants` | user grants: commands, cascades, unique constraints and their projection |
| `Login` | password and one-time password, the view of user sessions, `nextSteps` |
| `Migration` | `Setup`, `Migrate` and `Cleanup` of several processes |
| `MigrationProofs`, `ScheduleProofs`, `SubscriptionProofs`, `SigningKeysProofs`, `GrantsProofs`, `LoginProofs` | theorems about the modules they are named after |
| `MC...` | small instances for TLC |

### EventLog and EventStore

A row is a record with the instance, the aggregate type and id, the owner, the
sequence and the two links (`previous_aggregate_sequence`,
`previous_aggregate_type_sequence`); NULL is 0, as type `Sequence` of the
repository reads it. Event type, payload, editor and dates are left out: nothing
here depends on them.

`LogSpec` says what readers rely on: whole pushes are appended, behind
everything their streams had, linked to it, and nothing is ever changed.

In `EventStore` a client is a goroutine in `Push`. Its steps are those of the
code: `Push` (the checks of `commandsToRepository`, BEGIN), `QueryRow` (the SELECT
part of `crdbInsert`: links, owner, NEXTVAL), `WriteRow` (the INSERT part: NOT
NULL and the unique indices; `Scan` into the event object, whose owner the next
attempt uses), `HandleUniqueConstraint` (one turn of the loop), `Commit` (and what
`Push` does afterwards: notify, or return an error although the rows are
stored), `Fail`, `Retry`, `CreateInstance`. SELECT and INSERT are separate steps
because on a database that does not isolate transactions others commit in between.

The database is external and is modelled by what the code can rely on:
`Serializable` is CockroachDB (one snapshot, commit only if what was read is
unchanged), its negation PostgreSQL's READ COMMITTED (each statement sees what
is committed). Under both an INSERT of a key that another open transaction has
inserted or deleted waits, also when that transaction has inserted the row itself
and deleted it again; a wait that does not end is a deadlock or a timeout, which is
`Fail`. `Fail` is possible at every step, so the model does not promise that a
push succeeds.

### Projection

One projection that handles all of `AggTypes`. Workers are the goroutines of all
processes: `Subscribers` with a queue, `Schedulers` that fetch for the timer or for a
query. A statement is the event it was reduced from. `Process` keeps `statements`,
`index` and `retry`; `Update` keeps `tx`: the list it works on (with the previous events
put before it, without the statements it dropped), the sequences it knows, what it has
handled. `ReadSequences` and `Fetch` are the two queries of `FetchEvents`;
`BeginUpdate`, `ExecuteStmt` and `CommitUpdate` are `Update`. `DropFrom` is the `copy`
in `executeStmts`, which moves elements of the array that `Process` still slices;
`Panic` is the slice expression out of range and the `recover` of the goroutine.
`ProcessFails` and `Restart` are errors of the database and of the process. An error of
`reduce` is not one of them: it depends on the event alone, so that the constant
`Unreducible` says which events have it, and `Process` returns before any statement is
executed, each time it meets one. `Push` is the abstract push of `LogSpec`, one event at
a time, with any free sequence above those of its stream.

The locks of `schedule` are left out on purpose: subscribers and queries run
without them, so `Update` has to be right without.

`handled` is a history variable, the statements of committed transactions in the
order of their commits. With `current` as its position and `handled` as its output
`Projection` is to implement `Consumer`: every commit appends, stream by stream,
events that follow each other and the position, and moves the position to the
last of them. Where the handling of a stream begins is left open there, because
the code leaves it open (see below). `Notified` bounds which events subscribers
hear of; that they do not hear of others is what happens to events another
process has pushed.

### ProjectionLock and Schedule

Time is discrete and relative: rows know how long they are still locked, timers
how long they still run, instances how old their latest event is; `Tick` lets one
unit pass for all. `LockStatement` is the SQL statement, with the length of the
lease, the renewal and 0 (`Unlock`) as durations. A scheduler is the loop of one
process; its steps are the calls of `schedule` that touch the database: `Fire`
(`hasSucceededOnce`), `LockSystem`, `InstanceIDs`, `LockInstances`, `Trigger`,
`UnlockInstances`, `Finish` (`setSucceededOnce`), `Release`. `renew` holds the
goroutines of `handleLock` with `cancelOnErr`: for "system", for the instances in
work, and the one that leaks when `InstanceIDs` fails. `pending` is what `Projection`
would still have to handle; a trigger handles it, fails, or panics (`Panic`: `schedule`
recovers and returns, and nothing starts the loop again while the process lives).
A renewal that is in
flight when its context is cancelled is not modelled.

### Subscription

`Notify`, `Send`, `NextEvent`, `NotifyEnd` are `notify`, from taking the mutex to
releasing it, with the places of its two loops in `at`; `Receive`, `Process`, `Panic`
are the loop of `subscribe`; `Unsubscribe` takes the mutex and changes the registry as
the code does (the last entry moves, nil stays behind), `Close` receives one more event
before it closes the channel. `ByType` are the subscriptions made with
`SubscribeEventTypes`, which registers under no aggregate type, because the list it
loops over is never filled. What a subscription is due (`DueFrom`) is what it asks for,
not where it is registered. The only caller of `SubscribeEventTypes` is
`Handler.SubscribeEvents` (`handler.go:28`), which no handler of the repository calls.

### SigningKeys

A request reads the active keys, the sequence of the projection (a query of its
own), the latest event, the lease, and generates: five steps, each of which the
others may overtake. OIDC and SAML have different worker names and the same lock
row. `lag` and `spent` bound how far the projection is behind and how long a try
takes. The log has the key pairs only. The code compares the highest of the positions
of the projection, which has one per aggregate type, with the newest event of key
pairs and instance. So an event of the instance that is handled may hide a key pair
that is not: `Hidden`, at most `MaxHidden` key pairs deep. That an event of the
instance is not handled yet makes a request try again, as a key of another usage does
in the model. The nested request of a SAML certificate for its authority and the
pauses of `retry` are left out.

### Grants

The grants of one user on one project, given by the owner of the project or by
the organization that has a project grant. The module has three reduce functions
for the same events, as the code has: the write model of a user grant (`Reduce`),
the read model of its preconditions (`ReducePreCondition`) and the projection
(`Project`). A request of the first kind reads and then pushes (`Push`, or `Fail`); one
that cascades asks the API first (`Ask...`), which reads the projection, after a
trigger or not, as the handler does. A cascade leaves out a user grant that is not
live any more, and also one whose events it fails to read (`Unread`): the commands
log the error and push the rest. `claims` are the unique constraints. What the
reduce functions do not do is kept: the preconditions ignore a cascade change of
the project grant and the removal of a project does not end its project grant
for them; a reactivated event cannot be reduced by the projection and stops it (in
the model as a whole; in the code, where the position is one per aggregate type, the
subscriber still reduces events of project and user, which take rows and roles away);
the loop that takes keys out of a list skips the key after each one it takes.

### Login

The events of one user with a password and a one-time password. `Verify` is the
check that the user is active, `HumanCheckPassword` and `HumanCheckMFATOTP` the
command that reads and compares, `Push` its push. A push may fail (`PushFails`): the
commands return the error, except that of a failed password check, which is logged;
the history variables `answered` and `lost` count the wrong passwords since an event
that ends the count, and those of them without an event. `SetPassword` is a changed
password without user agent. `Reduce` is the step of the spooler on the view. In the
code a goroutine that gets events from a subscription reduces beside the spooler
(`handler/user_session.go:47-54`), the row and the current sequence are written by two
statements (`view/user_session.go:37-43`), and an event that has failed too often is
skipped (`handler/user_session.go:166-169`). The model has one reducer in order that does
both at once, so that what is proved of the answers is proved for such a view.
`NextSteps`, `ReadSession`, `ReadSequence` and `Answer` are `nextSteps` with the queries
of `userSessionByIDs` apart; the events newer than the row are merged in
`Answer`. `Unparsable` is the early return for events without data. The state of the
user exists twice: in the view, where an event after the removal changes it
again, and in the write model, where it does not.

### Migration

A push is one step (`EventStore` is about its inside), with the constraints
of `SetupStep.UniqueConstraints`. `CheckExec` is `checkExec` with the loop in
`shouldExec` as it is written: started and failed events flip one flag.
`PushStarted`, `Execute`, `PushDone` are the rest of `Migrate`; `Exit` is
`logging.OnError(err).Fatal`. `Cleanup` reads the latest event and `CancelStep`
pushes the cancellation, as separate steps. `Crash` and `AnswerLost` are the
faults. What a migration does is one step that may fail; a repeatable one
compares the configuration (`Config`) of its process with that of the last run.

## Runs

Deadlock is checked in `schedule` and `signing_keys`. Elsewhere bounds on
sequences, events, starts and faults make all behaviours end.

### Passing

| Run | Instance | Shows |
| --- | --- | --- |
| `event_store` | 2 clients, 6 pushes of up to 2 events with names to claim and release (two spellings, per instance and global, removal of an instance), 4 sequence numbers of the tenant and 1 of the system, serializable | `TypeOK`, `StreamsAreLists`, `NotifiedIsStored`, `ClaimedOnce`, `UniquesMatchClaims`, and that `EventStore` implements `LogSpec` |
| `event_store_read_committed` | 2 clients, 5 pushes to two aggregates of a stream and of a name, one of them claiming and releasing it, 4 sequence numbers, READ COMMITTED | `NoForks`, `ClaimedOnce`: what is left without isolation |
| `projection_order` | 1 subscriber notified of 2 events, 1 scheduler, 2 aggregate types, sequences up to 5, an event that cannot be reduced, failing statements, panics | `TypeOK`, and that `Projection` implements `Consumer` |
| `projection_faults` | 1 subscriber, 1 scheduler, 1 aggregate type, 3 events of which the last cannot be reduced, one crash or error, fairness | `HandledInOrder`, `CurrentIsLast`, `SkippedAfterFailures`, `BlockedByReduceOnly` |
| `schedule` | 2 processes, 1 instance, leases and pauses of 2 units, window of 5, turns of 1 or, when slow, 2, 2 faults (a panic is one), fairness | `TypeOK`, `Exclusive`, `WindowSuffices`, `EventuallyHandled` |
| `subscription` | 3 subscriptions for aggregates and 1 by event types, 2 pushes of 2 and 3 events, queues of 1, 2 panics, fairness | `TypeOK`, `DeliveredInOrder`, `NeverToClosed`, `QuietWhileSending`, `NotifyEnds` |
| `signing_keys` | 2 OIDC and 1 SAML storage, leases of 4 units, 1 expired key, 1 hidden key pair, 1 fault, fairness | `TypeOK`, `KeysFromOneStorage`, `KeyBecomesAvailable` |
| `grants` | 2 requests at a time, 1 role, 3 grants, 4 events after the first grant, 1 change of project or user, cascades that fail to read 1 grant | `TypeOK`, `OneGrant`, `AccessIsGranted`, `RemovedForGood`, `CascadeReaches` |
| `login` | 2 browsers, 2 requests at a time, lockout after 2 failures, 3 events after a first login that the view has seen in part, 1 lost failed check | `TypeOK`, `LockoutBounded`, `CallbackVerified`, `NothingAskedTwice` |
| `migration_setup` | 2 processes of two versions, each started twice, 1 fault, 2 cleanups, fairness | `TypeOK`, `OneAtATime`, `StepsInOrder`, `NeverAgain`, `EverySetupEnds` |

Why the bounds are enough to be interesting: two clients are enough for every conflict
of two transactions, and four sequence numbers let two pushes of two events meet or one
be repeated after a rollback. A gap, a duplicate and a late event need two or three
events of one stream; a previous event needs a second stream; for the index that leaves
the list it takes two previous events after one that was handled, which is four, and a
fifth sequence lets one of them be an event that cannot be reduced. A statement is
skipped at the second failure, so that counting and retrying both happen. For
migrations, two processes meet at every pair of steps, and starting a process twice
gives it a life after its crash. In `schedule` a lease is renewed after one unit and
ends after two, and the window is one unit longer than the pause and two turns, the
least with which `WindowSuffices` holds: with one unit less TLC finds an event that
falls out of it. `cmd/defaults.yaml` has twice the pause (`RequeueEvery` 60s,
`HandleActiveInstances` 120s, `ConcurrentInstances` 1), which is enough as long as turns
are shorter than half the pause. Two faults are a leaked renewer and a restart, or a
late renewal and a failed unlock. In `signing_keys` the lease is just longer than the
bound `KeysFromOneStorage` names; with one unit less two storages generate a key. In
`grants` a removal, its successor and a second removal by a stale request fit into four
events; with one role the skip of `WithoutKeys` is not reached, only its removal of a
single key. In `login` three events are enough to verify, to take back and to verify
again while the view is at any earlier event, and for the failures of two requests at a
time, which reach the bound of `LockoutBounded`.

The projection runs have one instance. Two instances are to `Update` what two
aggregate types are (statements are compared with the sequence of their pair of
both, and `fetchPreviousStmts` looks at other types and other instances alike);
what is not covered that way is that sequences of two
instances may be equal. The event store runs have two, the system instance and a
tenant. Symmetry is used where no liveness is checked: clients in the two event store
runs and in `grants`, aggregate types in `projection_order`, browsers and requests in `login`.

What some properties except, and why:

* `BlockedByReduceOnly` excepts an event that `reduce` refuses, from when it is among
  the events of the next fetch, and the end of all schedulers by panics. These are the
  two ways in which a projection is blocked, although the documentation says that an
  event which cannot be processed is skipped after a number of attempts
  (`docs/docs/concepts/eventstore/implementation.md:77-80`). That is so for statements
  that fail; an error of `reduce` is neither counted nor skipped, and every fetch meets
  it again. The panics are those of `projection_blocked`.
* `Exclusive` excepts the time in which a renewal is overdue: a lease does not stop
  its holder. It holds for one instance per lock; a statement for several
  instances that gets some of them counts as success.
* `WindowSuffices` and `EventuallyHandled`: the window has to be longer than the pause
  plus two turns. With faults or long turns an event can fall out of it, and is
  then handled only after the next event of its instance. `EventuallyHandled` also
  excepts that panics have ended the loops of all processes.
* `DeliveredInOrder` is about subscriptions made with `SubscribeAggregates`; the others get
  nothing, against the comment at `subscription.go:41-42`, which promises them the event
  types they ask for or all events of the aggregate. `due` counts what the comment
  promises for both kinds.
* `NotifyEnds` excepts panics of a receiver: `Unsubscribe` then waits for an event with
  the mutex held, or leaves a nil entry on which the next `notify` panics.
* `OneGrant` excepts a grant that two requests remove: the second removal releases
  the constraint of its successor.
* `CascadeReaches` excepts user grants added after the API has asked for the ids, and
  those whose events the cascade failed to read. The API says that the removal of a
  project or of a project grant removes all user grants on it; these stay.
* `KeysFromOneStorage` says nothing of two requests of one storage: they share the lease
  and may generate a key each.
* `CallbackVerified` excepts sessions with a newer locked or deactivated event, which
  has no data: `userSessionByIDs` then returns the row of the view as it is.
* `NothingAskedTwice` excepts a row that appears between the query for the row and
  the query for the sequence: its events are in neither. The user is asked again.
* `LockoutBounded` allows one wrong password more per further request at a time, and
  one more per failed check whose push failed: the error is logged and the user has
  another try, although the policy says after how many attempts the user is locked.

TLC finds a counterexample to each of these properties without its exception; two
requests of one storage are the one case no instance has.

Fairness. `projection_faults` assumes that a goroutine which can take a step takes
it (weak fairness of each worker as a whole): the timer of `schedule` is reset at
the end of every turn, and the Go scheduler starves nobody. It is not assumed
that notifications arrive or that statements succeed. `schedule` assumes weak
fairness of every loop and every renewing goroutine and that time passes;
`subscription` of the goroutines that notify and receive, not of a receiver's
panic or of new subscriptions; `signing_keys` that requests keep coming, that the
projection of keys is triggered and that time passes. `migration_setup` assumes
the same of processes that are not waiting: `checkExec` polls every 5 seconds, and
`Execute` returns. Nothing is assumed of pushes, faults, crashes or of a person
running cleanup.

### Violations: where the code and its documentation disagree

Each of these runs checks one sentence of the repository. `findings` in
`PROJECT.json` quotes it.

* `projection_blocked`. `Update` adds previous events to its list and returns an
  index into it, which `Process` applies to its own, shorter list. With two
  previous events handled and a failing statement after them the slice
  expression panics. `schedule` recovers, logs, and ends: the projection of this
  process is no longer triggered by its timer, only by queries that trigger it.
* `migration_stuck`. Cleanup cancels a migration that fails by itself at the same
  moment. Two failed events after one started event flip the flag back on: setup
  waits for a migration nobody executes, and cleanup, which looks at the latest
  event only, reports that nothing is stuck.

Behaviours of the models that are worth knowing and that no run is about:

* Under READ COMMITTED the first two events of an aggregate can both be stored as
  its first: both transactions read an empty aggregate, and unique indices
  ignore NULL. (`repository/event.go:17` says of 0: "it's the first event of this
  aggregate".) Two first updates of a projection do not wait for each other
  either, and the slower one can move the current sequence back.
* A stream without a row in `current_sequences` has nothing to compare a statement
  with: a subscriber that is faster than the first fetch makes the current
  sequence jump over what came before.
* After a reactivation of a user grant the projection of user grants stands still, as
  `BlockedByReduceOnly` allows: `reduceReactivated` expects a deactivated event (its test
  passes it one).
* After `RemoveProjectRole` a user grant on a project grant can be given the removed
  role again, since the preconditions do not reduce `GrantCascadeChangedEvent`.
* A locked user who is deactivated and reactivated is active, with the failure
  count he had.

### Mutants

Every property of a passing run has a mutant in `PROJECT.json`: a definition of
the model is replaced by one a plausible bug would give (marked "Mutant" in the
modules), and TLC then finds the property violated.

## Theorems

All are proved by TLAPS for every value of the constants that satisfies the
named assumptions (`...Assumption`) of the module: any number of clients, workers,
processes, subscriptions, browsers and requests, any pushes, any list of
migrations, any durations, limits and number of faults. The assumptions say what
kind of value a constant is (a bound is a natural number, a set of requests is
finite, a null value is none of the values); three hypotheses say more and are part
of the theorems that need them: `Serializable`, `ConcurrentInstances = 1`, and
`WideWindow` (`HandleActiveInstances > RequeueAfter + 2 * NormalTurn`).

Every safety theorem has the same shape: an inductive invariant that implies the
property, its initial step, one lemma per action, and a last step by PTL. TLC
was used on small instances to find out whether a candidate for the invariant
holds before it was proved.

What a recursive function computes is proved by induction, in three modules
(`SubscriptionProofs`, `GrantsProofs`, `LoginProofs`). The induction theorems of the library
cannot be used, because they take an operator as a parameter; `SetInduction` states
induction for a set instead and follows from the well-foundedness of the naturals.
`Iterated` gives from it the function whose values are computed step by step, and with
it the CHOOSE behind a recursive definition can be unfolded one step at a time.

`EventStoreProofs`

* `TypeCorrect`: `Spec => []TypeOK`, by `BaseInv`, which adds that every
  sequence number in use has been drawn, that a snapshot was once the table, that
  nothing is staged outside of a transaction and that an open transaction is
  about commands `commandsToRepository` has accepted.
* `ListsCorrect`: on a serializable database `Spec => []StreamsAreLists`. The
  invariant is not inductive: a commit joins staged rows that were linked
  against a snapshot. `IInv` adds what holds of an open transaction: the rows it
  has staged and the one it is about to write are linked to the snapshot and to
  each other, their sequences are above all it has seen of their streams and are
  nobody else's. At the commit `ReadsUnchanged` makes
  the snapshot's streams the committed ones.
* `ImplementsLog`: on a serializable database `Spec => LogSpec`. The initial states
  agree, and from `IInv` every step is an append or leaves `events` alone.
* `NotifiedCorrect`: `Spec => []NotifiedIsStored`, for both isolation levels. Needs
  `ScanInv`: of the objects of a push, those before the statement it is at in
  this attempt are among its staged rows, whatever an earlier attempt has left
  in the others; at the commit all have been scanned again.

* `ForksExcluded`: `Spec => []NoForks`, for both isolation levels: what the unique
  indices alone give. `ForkInv` says of stored and staged rows together that no two
  collide in an index, and that the row a link names is stored or staged by the same
  transaction, which commits or loses both.
* `NamesClaimedOnce`: `Spec => []ClaimedOnce`, for both isolation levels.
  `UniquesInv` ties the rows a transaction has inserted and deleted to the
  constraints it has been through (names it holds, has released, has claimed
  without releasing before), and keeps everybody else from a name it has claimed:
  by its snapshot on a serializable database, by the locks on the other. The proof
  found that the model had let go of the lock of a row a transaction inserts and
  deletes again; a database keeps it, and so does the model now.
* `TableMatchesClaims`: on a serializable database `Spec => []UniquesMatchClaims`, from
  the same invariant. For a database without isolation one direction
  is proved, as a part of that invariant (`RowsMatch`: a held name has its row);
  the other is open, and not a property of the read-committed run.

`ProjectionProofs`

* `TypeCorrect`: `Spec => []TypeOK`, by `BaseInv`: statements are events of the log
  (not only records of their shape), the log is linked, and the bounds of the three
  nested loops hold. The list of a transaction that shares the array of `Process`
  ends where that one ends; this is what keeps the `copy` of `executeStmts` inside it.
* `OrderedHandling` (`HandledInOrder`) and `SequencesAreLast` (`CurrentIsLast`), on a
  serializable database. `OrderInv` says of every open transaction that what it has
  done leads, stream by stream along the links, from the sequences it has read to
  those it will write, and of the committed statements that they lead from nothing
  to `current`. At the commit what was read is still current.
* `HandlerConsumes`: on a serializable database `Spec => ImplementsConsumer`. From
  `OrderInv` every commit is one `Handle` of `Consumer` and every other step stutters.
* `FailuresCounted` (`SkippedAfterFailures`), on a serializable database. `FailuresInv`
  says that a statement with enough counted failures is behind the current
  sequence, that a failure is counted at most once per transaction, and that a
  transaction which would count past the limit works on sequences that have moved
  on and cannot commit.

The hypothesis `Serializable` is what `cmd/defaults.yaml` configures (CockroachDB).
Without it `HandledInOrder` is false: see the behaviours below the violations.

`ScheduleProofs`

* `TypeCorrect`: `Spec => []TypeOK`.
* `ExclusiveWork`: `Spec => []Exclusive` when `ConcurrentInstances = 1`, the value of
  `cmd/defaults.yaml`. `LeaseInv`: a scheduler whose renewal is neither off nor overdue
  is the locker of every row it works on, for longer than the renewal is away.
  The hypothesis is needed for `OneInstance`: a statement that got one row of several
  counts as a success.
* `WindowIsWideEnough`: `WideWindow` implies `Spec => []WindowSuffices`, for any number of
  processes, of instances and of instances per lock. `WindowInv` holds as long as
  nothing has failed and no turn was slow: every instance with unhandled events
  is covered by some process, which still has it before it in this turn, or asks for
  instances again before the latest event leaves the window. The step that
  makes it hard is a process that leaves out an instance because another one has it
  locked. It relies on that other one, which still handles it or has handled it in
  this turn; what is left then is younger than the turn, and the window is long
  enough for the rest of the turn, the pause and the start of the next turn.
  A first schedule that ends without failure is covered the same way (`Younger`).

`SubscriptionProofs`

* `TypeCorrect`: `Spec => []TypeOK`, with the capacity of the queues.
* `ClosedLeaveRegistry`: `Spec => []NeverToClosed`. `RegistryInv`: a list names a
  subscription at most once, and exactly from `Subscribe` to `Unsubscribe` for its own
  aggregate types. Without "at most once" the entry that moves to the
  place of the removed one could be the same subscription.
* `NotifySeesOneRegistry`: `Spec => QuietWhileSending`, by `MutexInv`: who is inside
  `notify` or `Unsubscribe` holds the mutex.
* `DeliveryInOrder`: `Spec => []DeliveredInOrder`. `DeliveryInv`: what a subscription has
  received, what is in its queue and what the running `notify` still has for it (`Rest`)
  are together what it is due, for subscriptions that are registered under the
  aggregates they name. At the places of the two loops `Rest` is the event of
  the outer loop, if the subscription is still named in the rest of the list, and what
  the later events of the batch have for it (`DueFrom`, by induction over the batch).
  "At most once" is needed again: the inner loop sends an event once per entry.
  After an unsubscription the next `notify` of that aggregate type ends in the panic on
  the nil entry; what is said of it is about what it has sent before.

`SigningKeysProofs`

* `TypeCorrect`: `Spec => []TypeOK`.
* `OneStorageGenerates`: `Spec => []KeysFromOneStorage`. `KeysInv`: who generates still holds
  the lease; an event the projection has not handled is still under the lease it
  was generated with; and a request that has missed a key of another storage cannot
  get the lease before its try has to end. The comparison of sequences in
  `ensureIsLatestKey`, which may be wrong (`Hidden`), is not used: with the lag bounded, a
  long enough lease does it alone.

`LoginProofs`

* `TypeCorrect`: `Spec => []TypeOK`.
* `WrongPasswordsBounded`: `Spec => []LockoutBounded`. `LockoutInv` bounds the counted
  failures *plus* the requests that are about to push one: a request that joins them
  has read a count below the limit. It also says that a push of two events ends with
  the lock. `AnsweredInv` says that a wrong password which was answered is a counted
  failure or was lost. `PasswordCheckFailedCount` is the number of failed checks no later event
  has set back, which is what the loop over the events computes.
* `CallbacksAreVerified` (`CallbackVerified`) and `VerifiedFactorsKept`
  (`NothingAskedTwice`), both about steps. `SessionInv`: a row of the view says what the
  events up to its sequence say of its user agent, and no event between that sequence
  and the position of the view concerns it; a request has what the events up to its
  sequence say, or an empty session if a row has appeared between its queries. The merge
  of the newer events (`MergedSession`) then gives what all events say, by induction
  over the events merged, unless it met one that cannot be parsed.

`GrantsProofs`

* `TypeCorrect`: `Spec => []TypeOK`.
* `OneGrantAtATime` (`OneGrant`), `AccessGranted` (`AccessIsGranted`), and the two about
  steps, `RemovalsAreFinal` (`RemovedForGood`) and `CascadesReach` (`CascadeReaches`),
  all from `GrantsInv`: the events of a user grant begin with one added event whose id
  nobody else uses and its removals name the source of it (`LogInv`); a live grant has
  its constraint, until a grant is removed twice (`ClaimInv`); a row says what the
  events up to the position say, and where there is none there is a reason (`RowInv`);
  what a request is about to push adds a new grant or is about grants that were added
  (`RequestInv`); a removal that cascades has every grant on its way that was known when
  it was asked for, could be read and is still live (`ReachInv`). The lemma `ClosedForm`
  says what the loop of the write model comes to: under `LogInv` a grant is removed
  exactly when there is a removal of it, whatever comes later. This is by induction over
  the events, as is what a trigger does to the rows (`ProjectedRows`).

`MigrationProofs`

* `TypeCorrect`: `Spec => []TypeOK`.
* `StepsCorrect`: `Spec => []StepsInOrder`, with any crashes and cleanups. `OrderInv`
  adds that every done event still has its constraint `migration_done`.
* `OneAtATimeCorrect`, `NeverAgainCorrect`: until somebody runs cleanup execution is
  exclusive and what is done is not started again. `ExclusiveInv` adds that who
  executes a migration holds `migration_started`, and that a done migration keeps
  it for ever: this is what stops a process that decided before.

Model-checked only: the liveness properties (`BlockedByReduceOnly`, `EventuallyHandled`,
`NotifyEnds`, `KeyBecomesAvailable`, `EverySetupEnds`), which are out of the prover's
reach. All invariants and all other action properties of the passing runs are theorems,
some of them under the hypotheses named above.

## Not modelled

* The reading side of the event store (query builder, SQL generation, event
  mappers): data conversion without state; `Filter` is the set of rows it returns.
* `AllowOrderByCreationDate`, off by default.
* The pseudo events of scheduled handlers.
* Event store v1: its registry of subscriptions is the same code, and of its
  spooler only the effect on one view is in `Login`. Its locks, bulks and failures
  are left for later.
* Log store and quotas, notification handlers.
* Of the user grants: `AddProjectGrant`, deactivated project grants, changes of
  roles, and the removal of organizations. Of the login: life times of checks,
  external identity providers, passwordless login, prompts, steps of the setup of
  factors, the fallback when the query for events fails, the second reducer of the view
  and what it skips, and that a password is
  compared with a hash that was changed since it was read.
* The other commands, reducers and queries: hundreds of methods of one shape
  (read a write model, compare, push; one event to one statement), most of them
  about policies, texts and identity providers, whose concurrency is that of the
  event store and of the projections.
* API, user interfaces, authorization, actions, cryptography, assets: stateless
  with respect to what is checked here, or pure I/O.

## What is left

1. `TableMatchesClaims` without isolation, the direction that is open.
2. The spooler of event store v1 (locks, bulks, failures); the log store with its
   debouncer and quotas; the session API (`internal/command/session.go`).
