# BizPilot.Ai: a TLA+ verification project

BizPilot.Ai is a multi-tenant SaaS backend (TypeScript, Express, Prisma on
Postgres) with a React frontend. Several Node processes (the API,
`run-scheduler.ts`, `run-job-worker.ts`, one-off scripts) share nothing but the
database, so correctness rests on single conditional statements, unique
constraints and a few row locks; a browser holds copies of what the API once
answered. This directory models those parts, checks them with TLC and proves
the central results with TLAPS.

Paths are relative to `src/backend/src/modules/` unless they start with `src/`.

## 1. Inventory

| Component | State | Operations | Hard behaviours | Modules |
|---|---|---|---|---|
| Job queue (`scheduler/job-queue.service.ts`, dead letters of `admin/admin.service.ts`) | `Job` rows | enqueue, claim, start, complete, fail, retry and cancel a dead letter | contested and late claims, leases that run out under a handler, crashes | `JobQueue`, `JobLifecycle` |
| Workflow engine (`workflows/workflow-engine.service.ts`) | `WorkflowInstance`, `WorkflowStepRun` | start, step loop, approve, reject, retry | one row driven by several calls, unconditional writes, two layers of retries | `WorkflowEngine` |
| Scheduler (`scheduler/scheduler-tick.service.ts`, `scheduled-workflow.service.ts`) | `ScheduledWorkflow` | tick, create, enable, disable | several processes, backlog, edits under a tick | `SchedulerTick` |
| Backup and retention schedules (`backup/backup-scheduler.service.ts`, `data-retention/data-retention-scheduler.service.ts`) | the two maintenance schedules, their jobs | first boot, tick, drain | several processes that boot, contend and die | `Maintenance` |
| Marketing autopilot (`marketing-autopilot/`, `src/backend/src/infrastructure/ai`, `openai`) | step outputs, content assets | the seven steps of a plan | provider answers, charges, retries, people reviewing meanwhile | `ContentPlan` |
| AI-credit ledger (`billing/credit-ledger.service.ts`) | `AICredit`, `AIUsage`, FIRST_AI_ACTION | balance, charge, grant | unlocked check before a locked charge, retry of whole steps | `CreditLedger` |
| Usage alerts (`billing/usage-alert.service.ts`) | notices, audit rows | check after a charge | thresholds met by overlapping checks, adjustments that nothing checks | `UsageAlerts` |
| Subscriptions and trials (`billing/subscription.service.ts`, `trial.service.ts`) | `Subscription`, audit rows | create, change plan, cancel, reactivate, start, convert and end a trial | decisions on rows read outside the writing transaction | `Subscription` |
| Monthly grants (`billing/scheduler.service.ts`) | `ScheduledJobRun` | claim a slot, recover, grant, batch | runs beside each other, retries, crashes | `MonthlyGrant` |
| Payment webhooks (`billing/webhook.service.ts`) | `WebhookEvent` | receive, gate, apply, mark | duplicates, disorder, half-way failures | `Webhook`, `Commerce` |
| Team and seats (`team/`) | members, invitations, pending downgrade | invite, accept, revoke, remove, change role or plan | seats and last owner checked before the write | `TeamSeats` |
| Authentication (`auth/auth.service.ts`) | sessions, reset tokens, password | register, login, refresh, logout, change, reset | token rotation beside revocation | `AuthSessions` |
| Access control (`auth/jwt.ts`, `src/backend/src/common/middlewares/`, `src/backend/src/scripts/seed-rbac.ts`) | roles, permissions, signed claims | sign, select a workspace, admit, seed | claims outlive the roles behind them, seeding cut short | `AccessControl` |
| Onboarding, review, product events (`onboarding/`, `content-assets/`, `analytics/`) | progress, assets, once-only events | advance, skip, review, track | read, decide, write by id | `Activation` |
| Notifications (`notifications/`) | rows, pages in a browser | notify, list by cursor, mark | rows that come in behind a reader | `Notifications` |
| Backups (`backup/`) | `BackupRun`, files, copies | dump, verify, restore, reap, prune | torn dumps, overlapping runs, late results | `BackupDump`, `BackupRuns` |
| Data retention (`data-retention/`) and CRM (`crm/`) | soft-deleted rows, purge runs, contacts, leads | purge with audit, create, delete, move a lead | purges beside requests, cascades | `DataRetention`, `Crm` |
| Data export (`data-export/`) | runs, files, jobs | trigger, export, download | failures, lost leases, two exports at once | `DataExport` |
| HTTP layer (`src/backend/src/server.ts`, `app.ts`, middlewares) | connections, limits, metrics | admit, limit, time out, shut down | late answers, clients that leave, shutdown under load | `HttpServer` |
| Configuration (`src/backend/src/config/env.ts`, adapters) | variables, what the process loaded | edit, boot, use an adapter | variables that pass at boot and fail hours later | `Environment` |
| Browser (`src/frontend/src`) | stored tokens, query cache, review screen | refresh, fetch, invalidate, save | concurrent 401s, answers that overtake writes | `BrowserAuth`, `ClientCache`, `PlanReview` |

Listed in `PROJECT.json` with a reason and only partly modelled, or not: payment
providers and plans, workspaces, administration and alerting; profiles,
feedback and analyzer; mail, test database and seeds.

How they interact: requests and the scheduler enqueue jobs; a worker's handler
runs a workflow, a backup, a purge or an export; a workflow's AI steps check
and charge the ledger, which the monthly job, plan changes and administrators
grant to; subscriptions are changed by owners, the grant job and payment
events at once; plans bound the seats of the team and the thresholds of the
alerts; everything notifies and tracks. The browser refreshes its tokens
against the sessions and shows cached answers of all of it.

What makes each correct, in one line:

- **Job queue**: a valid lease is never taken over, only its holder settles a
  job, every failure counts once, what is settled stays settled.
- **Engine**: one call executes an instance; no step is skipped, nothing behind
  a gate runs unapproved, nothing decided is overwritten.
- **Schedules**: an occurrence fires once, a backlog as one, a day is lost only
  to a death.
- **Plan**: people review what was validated and paid for, and keep what they
  decided.
- **Ledger**: never overdrawn, true snapshots, a retry charges no more than its
  faults explain. **Alerts**: each once, none lost.
- **Commerce**: one current subscription, one trial, one grant a period, an
  event applied once. **Team**: seats within the plan, one owner left.
- **Sessions**: a changed password ends the old sessions, a token is exchanged
  once. **Access**: nobody is served a lifetime after losing the right.
- **Backups**: what verifies restores, the newest stay. **Retention**: only
  what expired goes, with its audit row, and no lead with it.
- **Exports**: what can be downloaded is whole. **HTTP**: limits hold, a graceful
  shutdown cuts off nobody. **Configuration**: what boots also works.
- **Browser**: a user's own write shows, data never goes back, pages stop loading.

## 2. Order of the project

1. `JobQueue` with `JobLifecycle` and its proofs; `WorkflowEngine`;
   `SchedulerTick`; `CreditLedger` and its proofs.
2. `Subscription`, extended by `MonthlyGrant` and `Webhook`, composed in
   `Commerce`; `TeamSeats`; `UsageAlerts`.
3. `AuthSessions`, extended by `BrowserAuth`; `AccessControl`; `Activation`.
4. `BackupDump`, `BackupRuns`; `Crm`, extended by `DataRetention`; `DataExport`;
   `Maintenance`; `HttpServer`; `Environment`.
5. `ContentPlan`, `ClientCache`, `PlanReview`, `Notifications`.
6. Proofs, one module for the components that a run puts together: first what
   each component keeps, then the same in the specification the run checks.

Every safety property that a passing run checks is now also proved. What would
come next: the queue, the engine and the export composed, so that an executor's
crash and the resumption meet the same rows.

## 3. Modules

One rule throughout: each database statement is one action, since Postgres makes
it atomic and every `await` lets others run; code between two statements belongs
to one of them. A transaction that locks the row it decides on is one action;
one that only writes what was decided before is its commit. A call's local
variables are functions of the caller. Crashes and rejected awaits are the same
action when the code treats them alike. History variables are marked as such
where they are declared. Identifiers follow the source.

### Queue, engine, schedules
**JobQueue**: one `jobKey`. `status`, `attempts`, `leaseOwner` are columns.
Instants are relative to the present: `dueIn` is nextRunAt - now, `leaseLeft` is
leaseExpiresAt - now, `age` how long ago a worker captured `now` in claimJob;
`Tick` lowers them, down to `Past`, which no `now` reaches. (Absolute instants
would make the state space infinite for the same behaviours.) `pc`, `held`,
`seen` are a worker's place in runWorkerTick, its job, and the row it read. A
crashed worker comes back under a new uuid in the code; here it comes back idle
under its old name, which can only make a stale row look more like its own. With
`Timely`, `Tick` waits for workers whose lease is about to end. `JobLifecycle` is
the promise to producers (absent, ready, in flight, done, dead or cancelled, with
a failure count); `Lifecycle` is the refinement mapping.

**WorkflowEngine**: one instance. `status`, `cursor` (currentStepKey as an index,
0 for null) and `outcome` are columns; `made[s]` is the highest attempt number
of step `s`, `done` the steps with a SUCCEEDED run. A call that makes the
instance RUNNING executes the steps itself. `seen[c]` is the status of the
call's in-memory instance, which assertTransition looks at. What the code
writes unconditionally (`FailInstance`, `Advance`, `AwaitApproval`, `Finish`) is
unconditional here.

**SchedulerTick**: `due[p]` is what a tick still has of the rows it read, `at[p]`
its `now`, `cur[p]` the occurrence claimed and not yet enqueued. `Anchored`
schedules fire at wall-clock slots (DAY, WEEK, MONTH), the others a period after
their previous occurrence; calendars and zones are slots of a fixed period.
**Maintenance** does the same for the two schedules whose rows the scheduler
process itself creates at its first boot, and for the drain of their jobs: days
are `DayLength` instants, the slot of a day `HourOfDay`.

**ContentPlan**: the seven handlers of one plan with their contexts, their places
(check, provider, charge, alert) and outputs. A provider answer is modelled by
which of its parts fit together (slots, pillars, captions), which is what
validate_output tells apart. `patch` is a person's request with the status it
read. `PlanDies` is the process; a plan whose process died stays RUNNING.

### Money
**CreditLedger**: `supply` and `used` are the two sums of computeBalance, read
one table at a time in either order, without a lock in assertSufficientCredits
and under the Workspace row lock in recordUsage and grantCredits. An `Action` is
one AI step, thrown back to the start by a transient fault at most
`MaxStepAttempts` times; faults may hit any await, also the answer of a commit
that was applied. With `TrackingFaults` the statement for FIRST_AI_ACTION may
fail in Postgres, which aborts its transaction.

**Subscription**: `subs` is the table in the order of creation; a call reads the
`Current` row, decides (`Write` records what it will put into which columns) and
commits by id later. `trial` is trialEndsAt as unset, ahead or past. Nothing in
the code advances currentPeriodStart, so a period is named by its row.
**MonthlyGrant** adds the slot of a period and the stages of a job, **Webhook** the
event's row and its handling; `Commerce` interleaves the three on the same rows,
with the same callers. **UsageAlerts** models a check as its read, its
comparison, a notification and an audit row per threshold; percentages are
rounded as the code rounds them. An administrator's adjustment (either way) and an
upgrade are followed by no check: `unseen` remembers them until the next charge.

### People
**TeamSeats**: `teamCall` is what a request has read and decided, `lock` the
Workspace row that inviteMember takes, `staleTeam` names the
kinds of decisions that were committed on outdated reads; properties say which
of them they exclude (of owners only a count that no longer covers the write,
`Miscounts`). **AuthSessions**: a refresh token is the id of its session
row; `cred` and `parent` are its history. **BrowserAuth** extends it with one
tab: `store` is localStorage, `flight` refreshInFlight. **AccessControl**:
`claims` is a member row read for a token about to be signed, `token` what the
browser holds, `ago` for how long a permission has been gone; seedRbac deletes
and creates a role's permissions in two statements.

**Activation**, **Crm**: read, decide, write by id, with a history variable for a
write that overtook another. `Fault` ends a request, or loses the insert of an
event, which trackEvent swallows: the request then goes on. **Notifications**: the rows with their createdAt,
writers whose insert may come later than its clock, and the notification
centre's walk of the pages, kept under their cursors by the query cache.

### Upkeep and serving
**BackupDump**: a schema is a set of foreign keys; `BreakKey`, `Sort`, `DumpTable`,
`Verify`, `InsertTable`, `FixUp` follow backup-core.ts, while `AppWrite` keeps the
live database consistent. **BackupRuns**: rows, their files, the guard, reaping,
copies and pruning; `undone` remembers a success that was overwritten.
**DataRetention** extends `Crm` with members, purge runs and audit rows.
**DataExport** reduces the queue to what `JobQueue` shows of it (a job is held,
taken again after a failure or a lost lease, dead after its attempts) and models
run rows and files one statement at a time. **HttpServer**: a connection is
"handled" until it is answered, "late" if its 503 came first, "left" if its client
went away before the answer, which `abandoned` counts and the metrics do not;
limits are counted per window. **Environment**: a variable is a class of values that the checks and
the adapters tell apart; `settings` is edited only while nothing runs.

### Browser
**ClientCache** follows one query key from page to page: entry, fetch, writes
with the keys each of them invalidates, staleTime and collection. Entries do
not interact, so every key is an initial state instead of a part of the state.
**PlanReview** is the review page with its cards: an answer is put into the instance
that the card was drawn from.

### MC modules
A run puts components together that belong together for a reader. Where they
share no state, a variable (`part`; `component` in `MCServing`, `upkeep` in
`MCUpkeep`) chooses which one a behaviour belongs to: one state space then holds the components side by side and not their product, and
fairness is assumed only of the chosen one. Real compositions over shared state
are `Commerce`, `BrowserAuth` on `AuthSessions`, and `DataRetention` on `Crm`.

## 4. Runs

| Run | What it asks | Bounds, and why they are enough | Result |
|---|---|---|---|
| `JobQueueSafety` | queue: leases fence, jobs settle once, refinement | 2 workers on 2 jobs, 2 attempts (a retry, a dead letter), lease 1, stall 1 (claims that arrive expired), 1 crash, 1 reset; symmetric | holds |
| `JobQueueTimely` | is the lease a lock, is all work worked off | lease 2, handlers within it, 1 crash; schedule: 2 processes, days of 2 instants, 5 instants (two days due at once), 1 death | holds |
| `WorkflowReview` | engine, plan and pages; do calls, plans and loading come to rest | 3 steps with the gate in the middle, 1 starter, 2 reviewers, 2 attempts, 2 retries, 1 cut call; plan: 2 slots, 2 pillars, 2 tries, 1 retry, 2 faults, credits for one charge too many; every query key, 1 write at a time, 2 versions, 3 moves, 1 fault | holds |
| `WorkflowClaimRace` | one executor with 2 starters | 2 steps | violated |
| `SchedulerTicks` | workflow schedules | 2 processes, an anchored and an interval schedule, 5 instants with period 2 (a backlog of two), 1 edit, 1 crash | holds |
| `CreditSpending` | ledger | 2 steps of price 1 and 2, grants of +2 and -1 (one step affordable, both, none), 2 attempts | holds |
| `Commerce` | subscriptions, grants, events; notifications | 1 workspace, 2 callers (one may start a trial), 2 plans, 2 rows (a trial that ends makes the second), 1 change, 2 crashes, 1 event delivered twice; notices: 3 occasions, 2 writers, pages of 1 row, so 3 pages | holds |
| `WebhookRetry` | is a failed event handled again | the same with 1 crash and 1 notice | violated |
| `TeamSeats` | seats, owners; review screen | 3 users, 2 requests at once, plans of 1 and 2 seats, 2 invitations; 2 cards, 2 plans, 2 saves, 1 mishap; symmetric | holds |
| `Accounts` | sessions, browser, access, activation, alerts | 2 requests at once; 3 sessions (a chain of two refreshes), 2 passwords, 1 reset, a crash or a lapse; 2 workspaces, a role with and one without the permission, 2 seeders, lifetime 1; allowances 10 and 50, so that charges of 1 and 4 meet and skip thresholds, and one adjustment, of either sign; 1 fault each | holds |
| `Upkeep` | backups, purges, CRM | all schemas of 3 tables ordered, a chain and a cycle dumped (the constraint says so) with 4 writes; 2 processes, 3 runs, 1 to keep; 1 contact, lead and member, 2 purgers | holds |
| `Serving` | grant jobs, exports, HTTP, configuration | 2 exports, 2 workers, 2 tries, 4 runs, 2 faults; 2 connections, 2 users at 2 addresses of one tenant, limits of 2 and 1, 3 requests; 3 edits between boots (two variables that contradict each other, and a third) | holds |

Two actors at once are enough for every race met in this code: each hazard is one
actor's write between another's read and write. `Commerce` delivers one event; that
several come in any order is what `BillingAlwaysHolds` proves, for any events. The
limit of runs is measured per window (`BurstBounded`): twice as many may come
across a window's end. Bounds named `Max...` are constants
of the modules, spent in guards. Every property has a mutant in `PROJECT.json`: a
plausible bug in one operator (a "faulty variant" in the modules) that makes TLC
refute it under the same configuration.

Deadlock is checked for the queue runs. The other systems may stop: a workflow
ends, the modelled time ends, every step has been paid, every edit is spent.
Symmetry is used only in runs that check no liveness.

**Fairness.** Queue, export, maintenance: each worker keeps ticking (`for (;;)`
in `src/backend/src/scripts/run-scheduler.ts:111`) and time passes; crashes,
enqueues and resets are owed by nobody. A worker step is weakly fair as a whole, so
a handler may fail as often as its attempts allow. Engine and plan: calls under
way proceed, and startWorkflow is called again while the row is PENDING, which the
queue's retry of its job does; reviewers owe nothing. Scheduler: tick processes
keep ticking. Ledger: a call that has begun continues, no fault is owed to end
it, and a waiting transaction gets its lock because the others are finitely
many. Grants: a job that has begun goes on, and nothing more. Nothing in the
repository runs the batch (`src/backend/src/scripts/run-monthly-credit-grants.ts`
2-12: wired to no cron), nothing enqueues the job of its lane, and
`docker-compose.prod.yml` 11-14 leaves that lane to an external cron; so no grant is
claimed to come, only that a claimed slot is settled (`SlotSettles`). Backups and
purges: what runs goes on, and a row that is RUNNING becomes old. HTTP: timers
fire and `close` calls back once nobody waits; handlers may hang for ever, so
nothing is owed by them. Pages: requests are answered, since the server answers
503 after its own limit. People, browsers and providers owe nothing.

### What the violated runs show

1. `WorkflowClaimRace`: startWorkflow sees PENDING, runToNextGate reads the row
   again. If it is RUNNING by then, the call takes somebody else's claim for
   permission and executes the loop too. The comment in lines 192-199 says it
   returns without touching the loop.
2. `WebhookRetry`: an event whose handling failed is answered with a 5xx, the
   provider delivers it again, and the gate turns it away as a duplicate because
   it has a row, with 200. The comment in lines 78-80 says that the retry is
   treated as a fresh attempt because the row is FAILED.

### Properties that do not hold

The modules also state, without a run, promises of comments and tests (or what a
reader would expect) that TLC refutes.

- `JobQueue.ClaimSeesPreClaimState`: a claim stalled past its lease writes a lease
  that is already over, and both contenders succeed (`LeaseRespected` holds).
- `WorkflowEngine.RetryRewindsToFailedStep`: retryInstance computes the rewind from
  a row it reads before its claim.
- `SchedulerTick.ClaimsBecomeJobs`, `DisabledNeverFires`: a crash between claim and
  enqueue loses the occurrence; a schedule disabled under a tick fires once more.
- `CreditLedger.ChargedOncePerAction`, `ReportedMeansCharged`: a transient fault
  after the charge charges the retry again; a database error while tracking the
  first AI action is swallowed, but has aborted the transaction, whose COMMIT
  rolls the charge back.
- `Subscription.LegalTransitions`: a write decided on an old row leaves
  LEGAL_TRANSITIONS. `UsageAlerts.AlertMeansUsed`: an upgrade raises the allowance
  and grants nothing, so the difference counts as used, and so do credits that an
  administrator takes away.
- `TeamSeats.TokenUsedOnce`: an invitation accepted and revoked at once is both.
- `BackupDump.VerifiedRestores`: a dump with a write between two SELECTs verifies
  and does not restore.
- `ContentPlan.ReviewIsLegal`: two people at once let an approved asset fall to DRAFT.
- `PlanReview.NothingLostOnScreen`: two cards saved at once; the second answer
  shows the first card as it was.
- `Notifications.NothingIsMissed`: a run that fails again after a retry is not
  notified of, the notice being unique for the run.
- `Environment.ScheduleFollowsSettings`: the schedule's time is written by the
  first boot and never brought up to date.

## 5. Proofs

Each theorem holds for every value of the constants, from the assumptions named,
by one lemma per action that an inductive invariant is kept. Where the run
checks a composed specification, a last theorem carries the result over: a step
of it is a step or a stutter of each component. TLC evaluates every assumption.

**JobQueueProofs** (`JobQueueAssumption`: at least one attempt, natural bounds,
backoff within its cap): `IInv == TypeOK /\ AttemptBudget /\ OwnershipIsCurrent`.
`TypeOK` is not inductive by itself: failJob writes `attempts + 1` from a read
before, which stays within `maxAttempts` only because the count read is still
current whenever the WHERE clause matches (`OwnershipIsCurrent`), and a job in
flight has an attempt left (`AttemptBudget`). From it follow `LeasesFence`,
`SettledOnce` and the refinement of `JobLifecycle`. `SoleExecutor` needs `Timely` and
`MaxStall <= Lease` (a claim written later than a lease after its read would
begin with a lease already over), and that a worker driving a job has a lease
that lasts, or has completed the job without hearing of it (`LeaseLasts`).
The schedules (`MaintenanceAssumption`): a job that is held is one process's
(`JobsAreHeld`); a claim is of an occurrence that is due (`ClaimsAreDue`) and
leaves nextRunAt past all firings (`FiringsArePast`), so firings differ and come
in order (`FiringsDiffer`, `FiringsInOrder`); what was fired has its job, or the
day went with a process that died (`JobsWereFired`, `DaysLostToDeaths`).
`OneRunADay` follows.

**CreditLedgerProofs** (`CreditAssumption`: positive prices, integer amounts): the
invariant adds that a caller inside a transaction holds the lock (`Exclusive`)
and that what it has summed up is what the tables hold (`SumIsCurrent`), which
the commit needs. `LedgerIsExact` follows, also with `TrackingFaults`. Without them
`PaidOnce` does too: where a step stands tells how often it was charged
(`ChargesTell`), once for the delivery and once for each fault after a charge.

**WorkflowEngineProofs.** *Engine* (`WorkflowAssumption`, and `OneStarter`: with two,
`WorkflowClaimRace` shows that `SoleExecutor` fails): none of the properties is
inductive, since the step loop writes without conditions. The invariant adds
that one call at most drives the instance (`OneDriver`), and what the place of a
call says of the row (`CallFits`): the driver alone meets a PENDING, RUNNING or
RETRYING row, so every claim by a reviewer meets a row nobody drives; the loop is
one step past the cursor; every gate behind it was approved (`Approved`).
*Plan* (`ContentPlanAssumption`, `NotYetAssumption`): an asset's content is that of
the last item of its slot (`AssetsAreWritten`), which a second run of
persist_assets writes again over the same row, so a review survives it. That
upserting a calendar item by item comes to this is proved by taking the least
item at which it would not (`AllUpsertedIs`). A request read an asset that is
still there (`PatchesFit`); where the call stands tells which steps were charged
and which answers metered (`StepsPaid`). *Pages* (`ClientCacheAssumption`): each write
invalidates every query whose answer it changes (`WritesTellTheirKeys`, over the
writes of all features); so an answer is not older than what was told before its
fetch began (`AnswerIsNew`), and an entry that counts as valid is not either
(`EntryIsNew`). Together they give `ReviewHolds`.

**SchedulesProofs.** *Scheduler* (`SchedulerAssumption`, `NoneAssumption`): `FiredOnce`
speaks of claims; what keeps a second one away is that the first left nextRunAt
past its tick's `now` (`BacklogIsPassed`), which rests on the arithmetic of
`CatchUp` and on ticks reading only what is due (`DueIsPast`). *Backup runs*
(`BackupAssumption`): a row is one process's, which alone may make it a success
(`RowsApart`); what is pruned or about to be has enough newer successes to do
without it (`OnlyOldArePruned`). *Dump* (`DumpAssumption`): the order that Sort finds
is topological and complete (`OrderIsKept`), again by the least round at which it
would not be; what is dumped is what lives unless a write fell in between
(`DumpedIsLive`), and what is inserted is what was dumped, but for the deferred
references (`InsertedSoFar`). *Purges and CRM* (`CrmAssumption`, `PurgeAssumption`): an
update is of a lead there is and follows the status it read (`UpdatesAreLegal`),
an expired contact gets no lead (`ExpiredIsAlone`), what was selected is still
due, gone, or came back (`SelectedStaysDue`). Hence `BackupsHold` and `RowsAreKept`.

**AccountsProofs.** *Access* (`AccessAssumption`): what was served follows from the age
of the claims, and that from what was read for them, so a permission somebody
has is of this tick (`Current`), and so is everything about to be signed
(`ReadingIsCurrent`). *Alerts* (`AlertAssumption`): alerts come in ascending order
(`Ascending`); without faults each is audited or about to be (`RaisedIsAudited`),
and a threshold that is reached is announced, or a check under way will find out,
or it was reached by an adjustment or an upgrade since the last charge
(`ReachedIsRaised`, up to `unseen`). *Activation* (`ActivationAssumption`): a request keeps to what it
read (`ClientsHold`), first approvals are counted within approvals and inserts
lost (`FirstsCounted`), and unless two looked at once only one records the first
(`OneFirst`). *Sessions* (`AuthAssumption`): a session about to be issued rests on a
password no older than the one enforced, unless a revocation of all sessions
overtook it (`CallsHold`); the newest password is enforced or about to be
(`EnforcementComes`); an unclaimed reset token has changed nothing
(`UnusedIsUnspent`); and what the tab stores, or has got and not stored yet, was
never presented (`StoreIsNew`, `GotIsNew`).

**ServingProofs.** *HTTP* (`HttpAssumption`): every run begun in a window was counted
under its workspace's key (`BegunWereCounted`), and a server that closes was
asked to (`ClosingWasAsked`); a request leaves the handled ones by being counted,
abandoned or cut, whatever a late answer takes with its socket. *Configuration* (`EnvironmentAssumption`): a process runs
with what the variables said when it came up, and they passed every check
(`RunsOnValid`). *Exports* (`ExportAssumption`): a worker's row is its own export's
and no other worker's (`OwnRow`, `RowsApart`), a lease is one's own (`Leased`),
attempts are left (`TriesLeft`), and no more rows stay RUNNING than there were
faults (`LeftByFaults`). `ServiceHolds` and `ServingTypeOK` also rest on the
invariant of commerce, whose grants the run checks beside them.

**CommerceProofs** (`SubscriptionAssumption`, `WebhookAssumption`,
`NotificationAssumption`): a call under way writes a row of its workspace
(`CallsHold`); trials started and calls that may start one share the trialers
(`TrialsCounted`); of a workspace with a single row, a job about to grant is the
first to (`JobsHold`); an event is with the one caller that recorded it and
applied as far as that one got (`HooksHold`). Notices: one per event
(`OneNoticeEach`), pages that go on behind their cursors (`PagesHold`), and a way
through them that leaves out no row there was at its start, unless rows came in
behind others (`TrailHolds`).

**PeopleProofs** (`TeamAssumption`: a larger plan has no fewer seats, and the largest
has room for the founder; `PlanReviewAssumption`): a call keeps to what it read
(`TeamCallsHold`); under the lock, whoever is about to be invited is neither
invited nor a member (`InvitedIsFree`); a pending downgrade does not fit, or is
about to be looked at again (`PendingIsOver`). Each is stated up to the kinds of
outdated writes that break it, which `staleTeam` records. Review screen: plans come
in order (`PlansInOrder`), what a card saved is on the server (`SavedIsThere`), and
the screen and the answer to an approval follow the server but for cards whose
answer is on its way (`ScreenFollows`, `AnswerFollows`), unless an answer strayed.

**Only model-checked**: what holds under fairness (`ReviewSettles`, `DueFires`,
`ActionsSettle`, `WorkGoesOn`, `UpkeepSettles`, `ServingSettles`), which is out of the
prover's reach, as is the absence of deadlock in the queue runs.

## 6. What was met on the way

Read in the code while modelling it; where a property depends on one, its
comment names it as an exemption.

*Billing.* The trial functions and assertEntitled have no caller.
currentPeriodStart never advances. A grant job whose process dies with the slot
RUNNING leaves the workspace without that grant (`Stuck`), and nothing starts the
job but an operator by hand. Credits taken away, or an upgrade, may pass a threshold
without an alert until the next charge. `Math.round` makes
99.5 % "exhausted"; `src/frontend/src` claims thresholds that match exactly, but
does not round.

*Sessions.* Login or refresh overlapping a password change leaves a live session
of the old password. A refresh resolves the claims of the oldest membership, so
a user in a newer workspace gets 404 afterwards. The frontend's logout never
calls `/auth/logout`; two tabs are not de-duplicated; a sign-out during a refresh
is undone by its answer. Permissions in a token are at most one lifetime old
(`AccessHolds`). seed-rbac run again leaves a role bare between deleteMany and
createMany.

*Onboarding, content.* An advance or skip may overwrite COMPLETED; two first approvals
at once give two FIRST_CONTENT_APPROVED; a failed insert of CONTENT_APPROVED is
swallowed, so a first approval may be on record without any approval. A plan that failed in validate_output
can never be repaired by retryInstance. Duplicates in a calendar inflate the
asset count. A plan whose process dies stays RUNNING for ever.

*Queue, schedules.* Crashes count no attempt: a job whose handler kills its
process is reclaimed for ever, so only bounded crashes are modelled. The comment
at `workflows/workflow-engine.service.ts:56` says that no code path sets
RETRYING; retryInstance does. Two scheduler processes that boot first race for the
schedule's unique name and the loser exits, although its comment says it is safe
to call on every process startup. A backup schedule edited after the first boot
is ignored; an invalid time silently becomes 03:00.

*Backups.* FAILED and CORRUPT runs keep their directories. A cleanup error after
SUCCEEDED repeats the whole backup; a failed prune in S3 leaks the copy; a
restore does not check checksums again; a stuck RUNNING row hides the stale-backup
alert; rotating BACKUP_ENCRYPTION_KEY makes older backups undecryptable;
BACKUP_MIN_RETAINED may be 0. `docker-compose.prod.yml` gives its scheduler none
of the S3 or encryption variables, so its backups are neither sealed nor copied.

*Retention, CRM, export.* A purge deletes by id, so a member who joins again
between selection and purge is purged; the count includes rows already gone.
Nothing soft-deletes a lead. An export run whose worker died stays RUNNING.

*HTTP, configuration.* The general limit is keyed by address though documented per
user. After a 503 the handler goes on, and its late answer throws: the
error handler throws too, and Express destroys the socket, with whatever else waits
on it. A client that leaves before its answer is in no metric. A second signal,
or an uncaught failure, ends a shutdown at once. S3_FORCE_PATH_STYLE still uses
z.coerce.boolean, so "false" is true, though `env.ts` 25-34 describes that mistake;
ALERT_WEBHOOK_URL='' refuses the boot. The OpenAI SDK's 25 s with two retries
exceeds the request timeout, contrary to the comment.

*Alerting.* evaluateAlerts is reached only by an administrator's request,
dispatchAlerts by nobody; the stall alert ignores RUNNING jobs whose lease is over.

*Frontend.* A joined first fetch hides one's own write until the page is left.
usage-summary, latest-workflow-instance, invoices and dashboard-activity are
never invalidated. `AdminPage.tsx` 128 says "never a cached snapshot" with
a staleTime of 30 s. Toasts pass `undefined` for an infinite duration, so the
library's default of 5 s applies.

## 7. Not modelled

Business profiles, feedback and the analyzer write single rows without any
interplay; mail, encryption, the protocol of S3, payment and AI providers are
I/O whose outcomes the models choose freely; pglite is for development and tests
only; seeds are data; entitlement checks have no caller; invoices, usage,
activation metrics and alerting aggregate what others wrote. Within modelled
components the data is abstracted: payloads, prompts, texts, the contents of a
bundle, calendars and time zones, page layout and forms.
