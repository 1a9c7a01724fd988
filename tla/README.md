# RevOps Pro: a verification project

TLA+ models of the parts of RevOps Pro (a multi-tenant revenue-operations
backend: Postgres behind Drizzle, tRPC mutations, Inngest background functions,
webhook receivers, an AI agent) in which several processes touch the same rows,
the TLC runs that check them on small instances, and TLAPS proofs of the
properties that matter most. Paths below are relative to `src/packages/` unless
they start with `src/`.

## 1. The system: components, state, operations

| Component | State it keeps | Operations that change it | What makes it hard | What makes it correct |
|---|---|---|---|---|
| Database access (`db/src/client.ts`) | one READ COMMITTED transaction per `withTenant` | `withTenant` (73-93), `bypassRls` (108-114: no transaction) | every tRPC mutation, its `inngest.send` included, runs inside one transaction (`trpc/src/server.ts:42-58`) | events are sent about committed data; a failed mutation leaves nothing |
| Commission ledger (`domain/src/commissions`, `jobs/.../commission-recompute.ts`, `.../commission-hold-release.ts`) | `commission_entries`, the per-sale advisory lock | recompute of a sale, release of elapsed holds | overlapping runs, refunds, rule edits, payouts, retries, READ COMMITTED re-reads | one open entry per recipient and installment; no run refreshes a settled row; entries traceable to rule terms; a closed sale's ledger closes |
| Commission arithmetic (`domain/src/commissions/compute.ts`) | none (pure) | split of an installment, penny remainder | rounding | shares add up |
| Commission rules (`domain/src/commission-rules`) | rules, append-only versions | create, update, soft delete | an edit between two statements of a recompute | an entry cites the version that made it |
| Sales (`domain/src/sales`) | `sales`, plans, installments, recipients, `calls.linked_sale_id` | create, link, unlink, soft delete, refund | stale reads in overlapping transactions | sale and call agree on their link; links are made between what is alive |
| Calls, dispositions (`domain/src/calls`, `dispositions`) | `calls` | create, update, outcome, disposition, soft delete | a mark compared with a value read before | every outcome has its funnel event |
| Reconciliation (`domain/src/reconciliation`) | rejected links in `sales.metadata` | suggest, reject (confirming is `linkToCall`) | read-modify-write of JSON | a rejected pair is not suggested again |
| Opt-ins, speed to lead (`domain/src/optins`, `jobs/.../speed-to-lead-sla-sweep.ts`) | `optins` | arrive, contact, sweep | two sweeps at once, a sweep failing half way, its limit of 200 | a late lead is chased; a lead is contacted once |
| Tasks (`domain/src/tasks`) | `tasks` with a `unique_key` | create, upsert, complete, snooze | repetition by sweeps and tools | one task per key, left alone by sweeps |
| Funnel (`domain/src/funnel`) | stages and versions, events, dedupes | `emitFunnelEvent`, edit of a stage | missing stage throws | a version says what its row says |
| Webhook inbox (`src/apps/web/src/app/api/webhooks/*`, `jobs/src/webhooks/*`, `trpc/src/routers/webhooks.ts`) | `webhook_inbound_events`, `calls`, `funnel_events` | receive, process, replay | at-least-once providers and queue, crash between effect and `processed_at`, 20 concurrent runs | an accepted delivery is never forgotten nor marked before its effect |
| GHL backfill (`jobs/src/workflows/ghl-backfill.ts`) | synthetic rows of the inbox | list, store, send | retries, collisions with real deliveries | every listed appointment becomes a call |
| Fathom (`jobs/src/webhooks/fathom-handler.ts`, `integrations/src/fathom`) | inbox rows, `agent_facts` | receive, chunk, embed, learn, judge | redelivery, replay, retries, two runs at once | each text is learnt once; what is marked is learnt |
| Accounts, OAuth (`src/apps/web/src/app/api/integrations`, `jobs/src/workflows/oauth-refresh.ts`) | `data_sources`, `data_source_connections` | connect, refresh | rotation inside a transaction, time-outs, reconnects | the provider is asked with the stored token |
| Goals (`domain/src/goals`) | `goals` | create, update, delete, patch | check then insert; the turn of a month | quotas share no day; an empty cell can be filled |
| Analytics (`domain/src/analytics`) | none (queries) | none | each query bounds periods in its own way | figures of different pages agree |
| Onboarding, presets (`domain/src/onboarding`, `seed-demo`) | taxonomies of a workspace | bootstrap, claim, switch a preset, seed | switches against edits and other switches; cut-off requests | the roles are those of one preset |
| Team, roles (`domain/src/team`, `roles`) | memberships, invitations, assignments, role versions | invite, revoke, remove, update | updates across removals, lost updates | roles are held by members |
| Agent turn (`jobs/src/functions/agent-turn.ts`, `agent/src`) | threads, messages, audit log | load, persist, hydrate, plan, execute, commit | durable steps that fail or lose results, caps | the turn ends within its cap; message kept; executions audited |
| Auth, integration clients, realtime, observability, evaluation, UI | none in the database | HTTP, sessions, rendering | I/O | see section 6 |

### How they interact

A tRPC mutation opens one transaction (`withTenant`), calls the domain function
(which may open a savepoint and emits a funnel event), sends an Inngest event and
returns; the transaction commits after that. Inngest delivers the event to a
background function at least once and reruns it on failure. Crons call the
release sweep (hourly) and the speed-to-lead sweep (every minute); the token refresh waits
for an event that no code sends. Webhook receivers store the raw delivery and send an event;
processors map it to domain rows. The agent calls the same domain functions as tools. The
dashboards read what all of them write.

## 2. Modules

| Module | Role |
|---|---|
| `CommissionLedger` | recomputes of one sale against rule edits, refunds, deletes, payouts and the release sweep |
| `SalesDesk` | sales, calls, their links, outcomes, refunds and rejected pairs |
| `FollowUps` | opt-ins, the sweep, tasks |
| `InboxContract` | what the inbox promises about each delivery: an abstract specification |
| `WebhookInbox` | receivers, backfill, handler runs and replay for one call; implements `InboxContract` |
| `Integrations` | accounts and tokens; what the agent learns from recordings |
| `AgentTurn` | the durable steps of the agent's turns on one thread, and its tools |
| `WorkspaceSetup` | people, roles, stages, presets, the wizard, sample data |
| `Scoreboard` | quotas and the figures of the dashboards |
| `MC*` | instances for TLC: feeds, rule terms, calendars, symmetry |
| `*Proofs` | one for each of the above but `InboxContract`: theorems and their proofs |

A mutation that reads before it writes is two actions, a Begin that keeps what was read in
`tx` (`drawer` in `Scoreboard`) and a Commit that writes from it: a row it has written stays
locked until the commit, so nothing is between the writes and the commit, but anything
may be between the reads and the writes. `Abort` rolls it back. A mutation of one statement
is one action. Routers, pages and tools are disjunctions that say who may start what; a page
may be out of date, so the guards of a mutation are those of the domain function. Where the
code leaves a race open, a history variable notes that it happened, and the property excepts
what the variable names.

### 2.1 CommissionLedger

One sale of a workspace. `ent` holds a row per (installment, recipient, rule slot):
the upsert's key. A slot is a rule or one of `NoRuleSlots`, because a null `rule_id`
never conflicts. `Workers` are runs of `commission-recompute`; `lock` is the per-sale
advisory lock; `buf` holds the uncommitted writes of a run. `wanted` are the rows a refund's
update has found and not yet locked, `held` those it has written and not committed.

| Action | Code |
|---|---|
| `TakeRequest`, `FailRun` | delivery of `commission.recompute.requested`, retries (`commission-recompute.ts`) |
| `BeginMissing`, `BeginDeleted`, `Begin` | lock, load the sale, its installments and rules (`recompute.ts:53-143`) |
| `ReadVersions` | `snapshotRules`: the latest version of each matched rule, in a later statement |
| `CheckSettled`, `UpsertEntry`, `ReplaceEntry` | one entry: look for a settled one, upsert it or delete and insert it |
| `SelectObsolete`, `VoidEntry`, `CommitRun` | select what the run did not produce, void it by id row by row, commit |
| `AbortRun`, `RollbackMutation` | a transaction rolls back |
| `DeadlockVictim` | external: Postgres ends a circle of row locks at the expense of the run (`RollbackMutation`: of the refund) |
| `CreateSale`, `SoftDeleteSale`, `CommitSale` | create and soft delete; each sends its event before its commit |
| `ReadRefund`, `StartClawback`, `ClawBackRow`, `ApplyRefund`, `CommitRefund` | `recordRefund`: read the sale; update it, the installments and the entries one by one; emit and send; commit |
| `CreateRule`, `UpdateRule`, `SoftDeleteRule` | rule edits, each appending a version |
| `ReleaseAvailableEntries`, `Tick` | the hourly sweep, time |
| `MarkPaid`, `CollectInstallment` | external: nothing in `src/` pays an entry or collects an installment |

Reductions. The loads of `Begin` are one step, since no writer changes two of them in one
transaction that a run could see by half. The select of obsolete rows is a step of its own
because a refund can commit between it and the update. Rows are locked one by one where two
transactions can each hold one the other needs: in a run's upserts and voids, and in the refund's
update, which finds its rows when it starts, waits for each that a run has written and looks
at its status again. A row without a rule that a run has replaced is gone when the refund
gets to it, and the new one is not seen (`Replaced`). So a run and a refund can wait for one
another, and one of them is then the victim. The release sweep and a payout take the rows
of their statement at once: a deadlock of the sweep with a run, which the next hour
repairs, is left out. Partial refunds are in
`SalesDesk`: they always throw, as no preset has the stage `partially_refunded`. Amounts are left
out: the properties are about status, hold, version and date.

### 2.2 WebhookInbox and InboxContract

One appointment of GoHighLevel, or one phone call of Aircall. The provider works through
`Feed`; `inbox` holds one row per event type, which is what the key `type:id` gives for one
entity. `queue` counts undelivered background events; `pc`, `job`, `found` and `tries`
belong to a run of the handler. `applied` is a history variable: the types some committed
run has applied.

| Action | Code |
|---|---|
| `Report` | external: the provider |
| `Receive`, `Acknowledge`, `ReceiverFails` | the POST routes: insert on conflict do nothing, send, answer |
| `Connect`, `ListAppointments`, `StoreListed`, `SendListed`, `BackfillFails` | the OAuth callback and `ghl-backfill.ts` |
| `ResetRow`, `SendReplay` | `webhooks.replayInbound` |
| `Take`, `Load`, `ResolveConnection`, `Reject` | the handler up to its transaction; each read is a step |
| `FindCall`, `ApplyPayload`, `StageMissing` | its transaction: select, then insert or update, emit, commit |
| `MarkProcessed`, `RunFails` | the update after the transaction; a throw, with its retries |

After the select, a transaction writes the call row it found, so it holds its lock, or
inserts a row that nobody else can see; the rest of it is one step. `connected` only becomes
true: connections are disabled, never removed.

`InboxContract` gives each delivery a state (none, pending, done, rejected) and a set of
applied deliveries. A delivery is applied only while it is stored, is done only once
applied, is never forgotten, and its effect is never undone. `Contract == INSTANCE
InboxContract WITH ...` maps the rows and `applied` onto it.

### 2.3 AgentTurn

The turns of one thread. `at` is the step a turn executes next, `tries` its failed attempts.
A step is one action, because the platform executes one step of a thread at a time; the
steps of two turns may alternate, as its concurrency limit counts executing steps. Each
attempt either checkpoints its result, or breaks: before its transaction committed
(`StepBreaks`, `ToolBreaks`) or after (the second disjunct of `CheckpointOrLose` and
`ReportOrLose`: the effect stays and the step runs again). `spent` is a history variable:
what the model has charged, which the code does not see for lost results.

`Kinds` are the kinds of tool calls: under a unique key, unkeyed, rejected by the domain
function, aborted by the database, denied, malformed, unknown. All keyed calls of a thread
share one key, the worst case. A database error inside a tool fails the step although the
tool's error is caught: the driver rethrows at commit. Membership, prompts, memory and
realtime events are left out; memberships are only ever marked deleted, which
the turn does not look at, and `emit` never throws.

### 2.4 SalesDesk

`sale` and `calls` hold the rows, `events` counts the funnel events of an entity under a
stage, `tx` is the open transaction of each user. `partners` (every pair ever linked) and
`stale` (sales unlinked by a transaction that had read another link) are history, and so is
`crossed`: the pairs of a transaction that had looked for the call before it was deleted.

| Action | Code |
|---|---|
| `BeginCreate`, `CommitCreate`; `BeginLink`, `CommitLink`; `BeginUnlink`, `CommitUnlink`; `SoftDeleteSale` | `domain/src/sales/index.ts` |
| `BeginRefund`, `CommitRefund` | `recordRefund`: the stage must be in the preset, a reason replaces the metadata |
| `SuggestedCalls`, `BeginReject`, `CommitReject` | `domain/src/reconciliation/index.ts` |
| `CreateCall`, `UpdateCall`, `BeginOutcome`, `CommitOutcome`, `SetDisposition`, `SoftDeleteCall` | `domain/src/calls/index.ts` |
| `SalesRouter`, `CallsRouter`, `NewSaleForm`, `NewCallForm`, `RefundCard`, `CallDetailActions`, `LinkerCard`, `LinkTool`, `UnlinkTool` | who starts them |

Scores, amounts and dates of a pair are one set `Candidates`. Installments and commissions
are in `CommissionLedger`.

### 2.5 FollowUps

`tasks` is the table in order of insertion; `rows` is what a sweep has selected and not yet
handled. The sweep (`SpeedToLeadSlaSweep`) runs outside any transaction (`bypassRls`): one
select, then a statement per row, `SweepFails` between any two. `Job` is the scheduled one,
limited to one run at a time; the manual trigger runs beside it. `PickSetter` attributes an
opt-in to a setter with the fewest open follow-ups, a tie being free.

### 2.6 WorkspaceSetup

`held` and `dropped` are the assignments in force and those soft-deleted, because the unique
index counts both. A row of a taxonomy is its kind, slug and the switch that seeded it.
`BeginApply`, `DeleteTaxonomies` and `CommitApply` are the three points of
`applyTopologyPreset` that others can get between: the check of activity, the delete (which
waits for another switch's only if there are assignments to delete) and the inserts.
`ContinueStep1` and `AlreadyApplied` show the wizard comparing with the preset its page was
given. `SeedWipes`, `SeedUsers`, `SeedRecords` are statements of a route without a
transaction; `SeedCutOff` ends it between them. `crossed` and `mixed` are history.

### 2.7 Scoreboard

Instants are numbers, `DayLength` of them a day; `MonthStart` is the calendar. Each query
keeps its own bounds: `ClosedByNow`, `leaderboard`, `CellAttained`, `getQuotaContext`,
`bookedAmountSeries`, `Aging`; `ManagerDashboardPage` and `CloserDashboardPage` put them
together as the pages do. `BeginCreateGoal` is the check of `createGoal`, whoever asks: a cell
of the grid (`SaveNew`), the wizard (`setFirstQuota`), or the route itself (`CreateGoal`), which
takes any period and kind, as `PatchGoal` does for a goal that exists. A sale's shares are
parts of `Full` (10000: four decimals) that add up to it within `Tolerance` (10), as
`createSale` accepts them; a credit is in parts of `Full`, so nothing else is rounded. `drawer` is a
cell open in the grid or an insert in its transaction; `begun` orders `created_at`, the start
of a transaction. `contended`, `patched` and `dated` (members the route gave a goal) are history.
Goals of a role, which no page creates, are left out. The days SQL groups sales by are those
of the session's time zone; they are taken to be UTC's, as `analytics/timeseries.ts:22` does.

### 2.8 Integrations

Tokens: `honoured` is what each grant's provider takes (external: it takes the token
it gave last and answers with a new one); `conns` are the rows; `connect` is a user's chain of
statements; `run` a refresh. The advisory lock (`Locked`) orders refreshes; the update of
`refreshLockAcquiredAt` (`HoldRow`), a column nothing reads, takes the row lock that makes a
reconnect wait. `TimeOut` lets the queue start a retry while the old process goes on
(`zombie`). Transcripts: a line is its length and a chunk the lines in it, so that
`chunkTranscript` is translated whole; `learner` is a run of the handler, `facts` the rows.
A statement that throws ends a connect request and leaves what those before it wrote
(`FailConnect`). `met` and `lost` are history.

## 3. Runs

| Run | Module, bounds | What it shows |
|---|---|---|
| `ledger_edits` | two runs, two rules (one closer, one default), two edits; 1 148 693 states | one open entry per recipient and installment; terms some version had; versions advance |
| `ledger_closing` | one run at a time, three requests, two recipients (one with a rule, one without), one hold, a crash, one tick; 136 542 states | a request queued after a delete or refund closes the ledger for good; holds end; runs end, deadlocks with the refund included; settled rows are left to the refund that holds them and to the run that had selected them |
| `ledger_deleted_sale` | violation | a deleted sale keeps open entries |
| `desk_links` | two sales, two calls, two users, six edits; 361 050 states | ends of a link agree unless contended; outcomes have events; links are made between what is alive |
| `follow_ups` | two opt-ins, two setters, two users, job and manual sweep, three edits, two failures; 103 000 states | one task per key, one contact, tasks left alone; late leads are chased |
| `inbox_ghl` | two runs, two events, backfill, one replay, one failure; 516 957 states | the contract; every event is that of the payload first stored; no more calls than runs |
| `inbox_single` | one run, a missing stage, an ignored contact; 42 561 states | nothing stays pending but what was given up |
| `inbox_distinct` | violation | a second update is acknowledged and dropped |
| `agent_turn` | one turn, three plans of at most one call of seven kinds, two retries, three failures; 102 318 states | it ends within its cap; message kept; one task per key; executions audited |
| `setup_team` | founder and one more person, two tabs, two presets, three edits, two switches, one failure; 557 000 states | roles are held by members and are those of one preset; a version says what its row says |
| `score_months` | two members, two tabs, two sales, one call, four instants over the turn of a month, three edits, one of them through the route; 220 282 states | quotas share no day, empty cells can be filled, dashboards agree, series add up |
| `integrations` | two users, two refreshes, two learners, two recordings, four requests, one failure; 1 880 000 states | the provider is asked with the stored token; each text is learnt once |

### Why these bounds

Two writers are enough for every race: each property relates at most two rows or two
transactions, and locks and queues treat them alike (hence the symmetry in runs without
liveness). One recipient suffices for `ledger_edits`, because no statement relates two recipients
of one installment once amounts are left out. A circle of locks needs two rows and two owners,
so `ledger_closing` has two recipients, whose rows, one under a rule and one under none, are
written by different statements, against one worker and the refund; its rule exists when the sale
is created (`SeedRules`) and it has no edits. The proofs cover the other sizes. Two edits
reach a version that overtakes a run twice; six reach a link made, contended, unlinked and
made again with deletes and a refund in between. `SweepLimit` is the number of opt-ins: the
case in which the sweep keeps its promise. The retry limits are 3 (handlers) and 2 in the
code; one retry reaches the give-up branch and the re-run after every step, and the agent's
run uses the code's 2. `MaxIters` is 3 for 6, with `Cap` reached by the first costly plan or
not at all. Months have two days and days two instants, so that every bound of a period, its
midnight, its last instant and the instant after are times something happens at. `Full` is 4
and `Tolerance` 1, with a sale of one member and one whose halves were rounded down; the
periods the route is asked for are one across a month's end and one of a month's second day
alone. Chunks are
2 to 5 for 200 to 5000; the transcripts have an empty line, a line to cut, a rest that is
noise and a chunk in common. One failure per behaviour is enough for single-fault properties; the
agent's three exhaust the retries of a step. `OneSideAtATime` keeps `integrations` from
multiplying accounts by transcripts: they share no variable but the bounds, and no property
relates them. Bounds that exist only in the models are `MaxTime`, `MaxEdits`, `MaxRequests`,
`MaxFailures`, `MaxDups`, `MaxReplays`, `MaxSwitches`, `MaxPatches`, `Horizon`. Deadlock is
not checked: when feeds, requests and failures are used up the system rests.

### Fairness

Steps of runs are weakly fair: the platform delivers and retries. A mutation that has begun to
write goes on and commits or fails, and Postgres ends a circle of locks after its
`deadlock_timeout` (weak fairness of each). Time passes. The release sweep is strongly fair:
it runs every hour and Postgres grants row locks in order, so runs that keep taking rows
cannot starve it. The speed-to-lead job starts every minute and goes on until it has handled
its rows or failed (weak fairness). The provider retries a delivery until it is acknowledged.
Nothing is assumed of users, the manual sweep, rule edits, payouts, replays or failures, and
no fairness makes a crashed receiver resume: the provider's retry does.

## 4. Proofs

Proved by TLAPS for every value of the constants that satisfies the named assumptions
(`ConstantsAssumption`, `DeskAssumption`, `FollowUpsAssumption`, `InboxAssumption`,
`IntegrationsAssumption`, `SetupAssumption`, `TurnAssumption`, `ScoreboardAssumption` and
`CalendarAssumption`: months are in order and cover the clock). They type the constants; the
others say what the code fixes or a database cannot help having: finitely many runs, members,
sales and calls, aging edges in ascending order, shares that add up to a whole within the
tolerance.

| Module | Theorems |
|---|---|
| `CommissionLedgerProofs` | `TypeCorrect`, `NeverTwoOpenEntries`, `SettledRowsAreKept`, `TermsAreTraceable`, `VersionsOnlyAdvance`, `WaitsAreForTheRefund`, `ClosedSalesStaySettled` |
| `SalesDeskProofs` | `TypeCorrect`, `LinksHaveTwoEnds`, `EveryOutcomeEmits`, `LinksAreMadeAlive` |
| `FollowUpsProofs` | `TypeCorrect`, `KeysAreUnique`, `ContactIsOnce`, `TasksAreLeft`, `LeadsAreKept` |
| `WebhookInboxProofs` | `TypeCorrect`, `InboxInvariant`, `ContractIsKept` (the refinement), `EventsShowStoredPayload`, `CallsAreBounded`, `PendingRowsAreInHand` |
| `AgentTurnProofs` | `TypeCorrect`, `CostIsBounded`, `InputIsKept`, `KeysAreUnique`, `ExecutionsAreAudited`, `TurnsAreFinite` |
| `WorkspaceSetupProofs` | `TypeCorrect`, `MembersHoldRoles`, `RolesAreOfThePreset`, `VersionsSayTheRow` |
| `ScoreboardProofs` | `TypeCorrect`, `QuotasShareNoDay`, `EmptyMonthsAreFree`, `FiguresAgree`, `SparklinesAddUp` |
| `IntegrationsProofs` | `TypesHold`, `RefreshesAskOnce`, `ChunksKeepLines`, `RecordingsLearntOnce` |

None of the properties is inductive as it stands. What each invariant adds:

- `LedgerInv`: only the holder of the lock has uncommitted writes (`LockInv`, `CleanBuf`); at
  most one unruled slot is in use (`OneUnruled`); once a run has selected the obsolete rows,
  every open row it did not write is among them (`ObsComplete`); rows a refund holds stay as
  it left them (`HeldRows`); what a run has selected is not among what it produced (`ObsUnseen`),
  and its copy
  of a settled row is that row or that row voided (`WrittenSettled`). Without
  `ObsComplete` the void step would not be known to leave a single open row.
- `TermsInv` follows the terms of a rule from its history of versions, which only grows
  (`HistoryKept`), through what a run has read, to the entry it writes: a run's rules are those
  of the version it read or of an earlier one (`RunTerms`). Versions advance because a run
  takes the lock before it reads them, so what it overwrites was read before.
- `WaitInv` and `RefundIsFull`: the lock is of a run in its transaction, a run out of one needs
  nothing, a refund has rows only from its update to its commit, and a
  refunded sale has no installment left to collect.
- `DeskInv`: what a transaction has read may be stale, but some of it stays true until it
  commits (`ReadsHold`: what is not absent never is again, a mark that was read had its event,
  a link that was read is in `partners`, a call to be linked is alive or `crossed` has the pair),
  and every link is in `partners`
  (`PartnersKnown`), so a pair without other partners cannot be disturbed by a third row.
- `LeadInv`: an opt-in that is being created belongs to one transaction, one that was read
  or selected exists.
- `InboxInv`: whatever is queued, sent, replayed or run has its row, and a run past its
  transaction has applied it; so a step that marks a row done maps to the contract's step.
  `PayloadInv` adds that a run carries the payload stored first and that events show it,
  `CallsInv` that the calls there are and the runs that found none are no more than the runs,
  and `HandInv` says who has a row in hand, the runs' reads of `connected` included.
- The turn's invariant has `CapChecked`: a turn that is about to plan is within its cap, which
  is checked on the way back; hence one plan at the most exceeds it. `AuditInv` numbers the
  audit rows of a call without a gap (`RowsNumbered`), so a new row never falls on an old one
  and the rows of a call keep up with its tasks (`TasksLogged`).
- `SetupInv`: an open update is of a member or the removal was noted (`UpdatesOfMembers`); one
  switch is open at a time and has seen all roles, or the mix was noted (`SwitchesAlone`);
  rows yet to be seeded have their first version too (`VersionsFollow`).
- `BoardInv`: drawers and quotas are of whole months but for members the route gave one
  (`DrawersOfMonths`, `QuotasOfMonths`), so the grid's test of the first day decides
  whether any day is taken; a
  creation under way is the only one of its member (`CreationsAlone`) and its days are still
  free (`CreationsFree`).
- `TokenInv`: one run holds a connection (`OneHolder`); a grant is of one request, then of one
  connection and its run (`GrantsApart`); what is stored is what the provider takes, but for an
  answer being stored (`StoredHonoured`, `RunsHonoured`); and what a run has read is still
  there (`RunsCurrent`). `KindsApart` adds what the types need: a connection without a
  refresh token is one of Aircall.
- `FactInv`: the chunks a run holds are those of its recording, from where it is
  (`Placed`); two facts of one text are of runs that held it at once, which `met` has noted.
  `ChunksKeepLines` is by induction on the lines, over the fold that builds the chunks.
- `FiguresAgree` needs of sales and calls only their types and that every split is one of
  `Splits`; the rest is arithmetic of sums, valid in every state of any calendar. Of quotas it
  needs `BoardInv`: a member with no quota of next month, none raced and none of another period
  has the same one in his cell and in the query of the dashboards (`ActiveInCell`).

Induction. The library's induction theorems have an operator as a parameter, which the
provers cannot instantiate, so the proofs use set forms of them: a property is the set of the
things that have it, and `FiniteInduction` and `ElementInduction` (`ScoreboardProofs`) get the
induction from the well-founded order of strict subsets. From these follow that the recursion
behind `SumFunctionOnSet` has a value (`TotalIsSum`), and the laws of sums over finite sets:
removing, adding, grouping and scaling (`SumRemoves`, `SumAdds`, `SumOfGroups`, `SumLinear`).
`IntegrationsProofs` treats the fold over the lines of a transcript in the same way.

Only model-checked are the liveness properties (`ClosedSaleSettles`, `HoldsEnd`, `RunsEnd`,
`AcceptedProcessed`, `TurnsEnd`, `LateLeadsChased`), which are out of this prover's reach. What
some of them need besides fairness is a safety property, and is proved:

- `TurnsWindDown` (for `TurnsEnd`): the attempts a turn has left are a natural number that each
  of its steps decreases, so a turn that goes on ends;
- `PendingInHand` (for `AcceptedProcessed`): a pending row always has a delivery, event,
  replay, backfill or run that will handle it, or was given up;
- `WaitsEnd` (for `RunsEnd`): a run waits for a refund only, and that commits, has a row
  nobody else holds to take, or is in a circle with this run, which Postgres ends;
- `ClosingSettles` (for `ClosedSaleSettles`): a settled closed sale stays settled, and the
  run that reads it closed settles it;
- `NoLeadDropped` (for `LateLeadsChased`): a late lead stays chased until it is contacted, and
  one a sweep has selected keeps its place until it has a task, or the sweep fails.

TLC has found these five true of the instances of `agent_turn`, `inbox_ghl`, `inbox_single`,
`ledger_edits`, `ledger_closing` and `follow_ups` (the last with a `SweepLimit` of 1
too); no run repeats them, since the proofs cover every instance.

## 5. Where the code and its documentation part

The two violation runs, with the line that promises otherwise, are the findings of
`PROJECT.json`. Others were met and have no run of their own. The models keep what the code
does, and the properties except it where they must.

Ledger and inbox:

- a recipient can hold a paid entry and an open one for one installment, under two rules,
  though `db/src/schema/commissions.ts:103` says one row per recipient per installment;
- a row paid, or clawed back by a refund, between a run's select and its update by id is
  voided (`recompute.ts:331`), though line 11 says paid and clawed-back entries are never
  rewritten: the exception of `SettledKept`;
- a run that is the victim of a deadlock with a refund, and has no retry left, is given up, and
  what it should have closed stays open until somebody asks again (`lost`);
- an entry can cite a version other than the one it was computed with
  (`select-rules.ts:107-117`), when an edit falls between two reads;
- with two rules of one role, re-running can void an entry for good: the select has no order
  and a voided row is not revived, though `recompute.ts:147` says deterministic by id;
- no recompute follows the edit of a rule, and the release date of an available entry can move
  into the future (`recompute.ts:287`);
- two runs insert two calls for one appointment (`ghl-handler.ts:122`; the index in
  `db/src/schema/calls.ts:61` is not unique) though the header promises an upsert; dates are
  not compared though lines 6-7 say so; a replayed creation records a second event;
- a listed appointment that collides with a row rejected before the account was connected
  never becomes a call (`ghl-backfill.ts:124`).

Sales desk and follow-ups:

- refunds are impossible under the presets without the stage `refunded`, and partial ones
  under every preset (`sales/index.ts:746`, `emit.ts:70`);
- unlinking one of two sales linked to a call clears the other's back-pointer; a stale unlink
  leaves one dangling; deleting a call leaves its sale linked, and a sale created with or linked
  to a call that is deleted after the check keeps its id (`sales/index.ts:326-336, 494-562`),
  the exception of `LinksMadeAlive`; `updateCall` sets an appointment
  without the event `booked`;
- a refund with a reason, or an overlapping rejection, drops rejected links;
- the sweep's 200 rows include opt-ins that have their task, so with more than that others may
  never be read; an opt-in that arrives while nobody is a setter is never attributed; a task
  may come after the contact, or go to a setter who has left; nothing ends a snooze;
- a repeated `recordFollowUp` throws (`record-follow-up.ts:45`), since the insert returns no
  row on a conflict, though line 15 calls it a no-op;
- `listTasks` pages by id while it orders by due date.

Setup:

- `applyTopologyPreset` deletes dispositions and never seeds them again; a pending invitation
  that names a role of the old preset strands its person (`bootstrap.ts:58-74`);
- a role removed from a member cannot be given back: the unique index counts soft-deleted
  rows and the conflict is ignored (`team/index.ts:327-344`);
- an update that crosses a removal gives roles to a removed member; overlapping edits of a role
  lose one of them; the last admin can be demoted; `seed-demo` calls itself idempotent
  and fails once there are goals.

Goals and analytics:

- `getActiveQuota` and the manager's team quota include next month's quota
  (`analytics/quotas.ts:38`), as a period ends with the first day of the next month there and
  with its last day in `goals/index.ts`; the one created last is taken, though the comment of
  `goals/index.ts:107-110` has the check keep such lookups unambiguous (the exception of
  `Unambiguous`);
- `goals.create` takes any period (`trpc/src/routers/goals.ts:63-95`): after a quota of the 15th
  to the 31st the cell of that month says "+ Quota", by its first day
  (`goals/index.ts:461-466`), and the check rejects the quota it offers (111-123): the
  exception of `EmptyCellsCanBeFilled`. The patch of a goal checks no overlap at all;
- shares are rounded to four decimals and may miss one by 0.001
  (`sales/index.ts:70, 106, 271`; three at 0.3333), so the closers' figures do not add up to the
  team's exactly, only within that tolerance;
- the previous period counts up to now, so the trend is never "up", and it is not the calendar
  month; aging buckets include both ends; an update of a goal deleted meanwhile reports
  success; two creations at once both pass the check.

Integrations and the agent:

- nothing sends `oauth.refresh.requested` (`jobs/src/client.ts:29`), so tokens expire, and the
  page has no link to reconnect a provider that has a connection;
- overlapping connects insert two connections; a reconnect between the select of a refresh and
  its first update is overwritten with the old grant's tokens; a rotated token is lost with a
  rolled-back transaction;
- a wrong number of embeddings marks the row before it throws, so the retry skips it; two runs
  insert a chunk twice; invitees match deleted customers too;
- a tool call that is denied, malformed or aborted by the database leaves no audit row,
  though `docs/adr/0003-agent-architecture.md:275` and `define-tool.ts:6-7` say it does; and
  the ceiling of 20 calls or 8 minutes of line 57 there is six plans in the code.

## 6. Not modelled, and why

- Realtime, observability, evaluation, rendering, HTTP clients and signatures: no state of
  their own, or best-effort I/O. Row-level security: a static filter on the tenant. Sessions:
  a library.
- Amounts of commissions: a pure function of one call. The models of the ledger are about
  status, hold, version and date.
- The dedupe table of funnel events: its key includes the time of the event.
- Pace, status and trend of an attainment, funnel conversion, retention, cash forecast,
  concentration, revenue trajectory: formulas over
  one query each, and nothing else computes what they could be compared with.
- Edits of one row by one user (customers, settings, threads), and tools that only read.
- Aircall deliveries have no run of their own: `WebhookInbox` has the provider as a constant,
  the proofs cover both, and the run instantiates GoHighLevel, whose handler has more
  branches.

## 7. What could follow

A module for the arithmetic of an installment, whose shares and remainder the laws of sums in
`ScoreboardProofs` could prove to add up; an abstract ledger of entries that `CommissionLedger`
implements; what is safe in `HoldsEnd` (an elapsed hold never goes back);
the composition of `WorkspaceSetup` with `FollowUps`, where a switch of the preset takes the
setters away from a sweep.
