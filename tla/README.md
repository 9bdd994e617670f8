# Wafer fabrication scheduling: a TLA+ model

The system schedules orders of wafers on the daily capacities of factories. It
is a Next.js application with a PostgreSQL database (Prisma), a Redis instance
for locks, version counters, sessions and cached previews, and a separate cron
process. Several application processes and the cron process run side by side;
inside each one, every `await` lets other requests in; and planners work on
pages that show what was true some time ago. What must hold in the end is a
ledger (what a factory has left on a day and the work on that day add up to its
capacity), that orders get the work they need and reach their end once, that a
planner does not overwrite what nobody has shown them, and that who has lost an
account, a role or a session is out.

## Inventory

| component | source | state | operations |
|---|---|---|---|
| schedule lock | `infra/redis/schedule-store.ts` | a Redis key per production type, with an owner token and a lease of 300 s | `withScheduleLock` |
| version and previews | `infra/redis/schedule-store.ts` | `schedule_version:<type>`, `preview:<id>` | get, increment; set, get, delete |
| scheduling engine | `modules/schedule/{core,run,preview,strategy}.ts`, `app/api/schedule/*` | orders, assignments, daily capacities | run, preview, apply |
| order service | `modules/order/order-service.ts` | orders, assignments, capacities | create, update, cancel, delete |
| manual edit | `modules/schedule/manual-edit-service.ts` | assignments, capacities | move assignments, place pending orders |
| daily execution | `modules/schedule/daily-execution.ts`, `infra/db/daily-execution-repository.ts` | statuses of assignments and orders | advance, revert |
| simulation mode | `app/api/system/simulation/route.ts`, `lib/get-time.ts` | mode and date | switch on, move on, switch off |
| cron process | `scripts/cron.ts`, `modules/schedule/auto-scheduler.ts` | overlap flags | the two jobs |
| conflict issues | `modules/order/conflict-issue-service.ts` | issues, comments with proposals | open, comment, accept, reject, close, reopen, cancel the order, suggest |
| sessions | `modules/auth/{auth-service,session-store,token-service,require-auth}.ts` | counters of users, refresh tokens, sessions in Redis, access tokens | login, refresh, logout |
| invitations, email change | `modules/auth/{invitation-service,email-change-service}.ts` | links, users | invite, resend, accept; request, confirm |
| users and roles | `modules/users/user-service.ts` | users, the factories they manage | update, delete |
| planning board | `app/(dashboard)/visualization/page.tsx` | the rows and versions it has fetched, edits, a preview | edit mode, save, refresh, preview, apply, run |
| issue page | `app/(dashboard)/conflict-issues/page.tsx`, `components/conflict-issues/IssueDetailPanel.tsx` | the issue it shows, calls and fetches on their way | select, write, accept, reject, the buttons |
| mail, other pages, scripts | `modules/mail`, `app/(dashboard)`, `scripts` | - | output, read-only queries, tooling |

Who meets whom:

- run, apply, cancel, delete, manual edit and the daily advancement take the
  lock of the type and write the three tables; the preview takes no lock, and
  its result comes back to the tables through Redis and an apply, minutes later;
- the version counter is what tells an apply, and a save of the board, that it
  is stale; it is incremented after the transaction, in another store, by
  whoever remembers to, and the board counts it on by itself;
- conflict issues are opened by the commit of the engine, and change orders
  through `acceptProposal` and `cancelOrdersAndReleaseCapacity`, without the lock;
- the date is read once per request, at its beginning, while days go by and
  simulated time is switched on and off;
- tokens are in PostgreSQL, the session they belong to is in Redis, the access
  token is with the client; links are mailed before what they replace is revoked.

What is hard: interleavings at every `await`, absolute capacities written over
what was read earlier, two stores without a common transaction, processes that
die or commands that fail in between, a lease that nothing renews, answers that
come back to a page that has moved on. `PROJECT.json` lists the components with
what is and is not modelled, and the hazards of the code line by line with the
properties that cover them. Where the code really lets a hazard come true, the
property that stands beside it names that case as an exception and is about all
others, and the `note` of the hazard says so.

## Modules

| module | what it is |
|---|---|
| `LockService` | what callers of the lock rely on: granted only while free, never passed on directly |
| `ScheduleLock` | `withScheduleLock`, one step per `await`, with expiry, failing commands, death and restart |
| `ScheduleCore` | the operations on the schedule of one type, one step per `await`, on top of `LockService` |
| `GreedyStrategy` | the strategy: what one run makes of the tables it has read |
| `OrderStore` | the tables that the services around an order share |
| `IssueDesk`, `Suggestions` | conflict issues, and what their page suggests |
| `OrderDesk` | creating, editing, cancelling, deleting orders |
| `ProductionLine` | runs with the strategy, the cron jobs, simulated time |
| `OrderLife` | these together, with days, deaths and leases that run out |
| `IssuePage` | the page of an administrator beside `OrderLife` |
| `PlanStore` | work, capacities, versions and locks of several types, and what each page has of them |
| `ManualEdit` | the calls a save makes, as the server executes them |
| `PlanningBoard` | the page in edit mode: what is kept in it, and what a save makes of it |
| `PreviewDesk` | previews, applies and runs asked for from the page |
| `Planners` | several pages on one schedule |
| `AccountStore` | the tables, sessions and tokens that the account services share |
| `Sessions`, `Invitations`, `EmailChange`, `UserAdmin` | one account service each |
| `Accounts` | these together, with the clock and with processes that die |
| `StrategyProofs` | lemmas on sums and folds over finite sets, and what they say of the strategy |
| `ScheduleLockProofs`, `ScheduleCoreProofs`, `AccountsProofs`, `OrderLifeProofs`, `OrderQuantityProofs`, `PlannersProofs`, `CapacityProofs` | theorems |
| `MCScheduleLock`, `MCScheduleCore`, `MCOrderLife`, `MCPlanners`, `MCAccounts` | the instances TLC checks |

Three models speak of the schedule, at three grains. `ScheduleCore` has one step
for each `await` of a handler and orders of quantity one: it is about locks,
versions and previews. `OrderLife` has the strategy itself, orders that are
split, issues and dates; there a run is two steps, under the lock, and the
transaction of another service is one. `Planners` has the pages, with what they
believe of several types. What one takes as a step the finer one shows to be
safe: `WritesExcluded` and `RunCommitsFresh` in `ScheduleCore` are why a run may
read in one step and write in another in the others.

### ScheduleLock

`store[t]` is the key of a type, with the token of the call that set it; `want`,
`acquired` and `toFree` are the local variables of the call (`types`,
`acquiredLocks`, and what the `finally` loop has left). Types are their ranks in
the sort order, so the sorted array is a set walked upwards. `AcquireError` and
`ReleaseError` are Redis commands that throw, applied or not. `Expire` may
happen at any time, under a running body too. `lapsed` and `blame` are history:
whose lease ran out, and whose key made a call fail.

### ScheduleCore

`ord`, `rows` and `cap` are the tables `order`, `order_assignment` and
`daily_capacity` (`cap[c] = None`: no row yet); `holder`, `version` and
`preview` are what Redis keeps; `today` is what `getTime` returns. A request
goes through the steps its handler awaits; `pc`, `job`, `seen` and `plan` are
its local variables. `edits`, `quiet` and `commits` are history: how many
transactions have committed, how many of them no increment follows, and whether
each commit of the engine found the tables as it had read them.

| request | steps |
|---|---|
| run | `StartRun`, `TakeLock`, `ReadOrders`, `Plan`, `Commit`, `Bump` (only if a capacity row was updated), `Unlock` |
| preview | `StartPreview`, `ReadOrders`, `Plan`, `StorePreview` |
| apply | `StartApply`, `TakeLock`, `CheckVersion`, `Commit`, `Bump`, `Settle`, `ForgetPreview`, `Unlock` |
| cancel | `StartCancel`, `TakeLock`, `CheckVersion`, `CancelTx`, `Bump`, `Unlock` |
| delete | `StartDelete`, `TakeLock`, `CancelTx`, `Bump`, `Unlock` |
| cancel from an issue | `StartIssueCancel`, `CancelTx` |
| daily | `StartDaily`, `TakeLock`, `DailyTx`, `Unlock` |
| move, place | `StartMove` or `StartPlace`, `Precheck`, `TakeLock`, `Validate`, `CheckRoom`, `MoveTx` or `PlaceTx`, `Bump`, `Unlock` |

Any of them may be `Refused`, may `Fail` at a step (a throw: the transaction is
rolled back and the `finally` block frees the lock) or may `Crash` at it (the
lease frees the lock). The strategy is a contract: `Engine(v, j)` is the set of
results in which every order in need gets a cell on the first day of its window
with room, or fails because no day has any, whatever the order in which they are
served.

Abstractions: a transaction is one step; one production type; orders have
quantity one and are not split; a configuration has no end date; orders are not
created and their fields not edited; issues and mails that a commit produces are
left out; the expected version of a client is the one it loaded when it submits,
or none; a request is executed once; a stored preview does not expire. The body
of a request does not outlive its lease here: what happens then is what
`ScheduleLock` shows (`lapsed`), and the mutant `ExpireEarly` shows that the
engine depends on it.

### GreedyStrategy and OrderLife

`PlanOf(in)` is `greedyBestFitStrategy`: orders ranked by policy, priority, due
date and age; each one placed in the first cell with room for all of it, or, if
it may be split, filled up day by day; a failure rolls its cells back
(`RolledBack`). Each order is a step of a fold over the ranking. `OrderStore` has
the tables for one production type: `ord[o].rev` stands for `updatedAt`,
`cap[c] = None` is a missing row, `req[q]` what a request is doing and `hist`
history. `Prepare` is `prepareSchedulingData`, `RunCommit` is
`_applyScheduleTransaction` with the issues it opens; `Advance` and `PatchRevert`
are the two bulk updates of `daily-execution-repository.ts`; each statement of
`conflict-issue-service.ts` that others could come before is a step of
`IssueDesk`. A scene (`Scenes[scene]`) puts together the tables a behaviour
starts from, the operations it has and how many requests there are.

Abstractions: one type, days as the grain of time; the lock, transaction and
unlock of the order service are one step (a held lock refuses it); the version a
comment carries is that of the order when it begins, or what the page shows if
it comes from the page; the check that a SALES user comments on its own order,
an explicit null for the simulated date, and the run that a PATCH starts within
one day are left out; rows of work are known by their slots.

The properties name what the code does not promise, in the history of each
order: `astray` (edited by hand while it had work or under a plan, planned on
cancelled work, or given a status by a daily job or a revert that does not look
at the status it had), `crossed` (two requests were creating its issue at once,
or its ended issue came back), `overlapped` (two accepts of a proposal had both
read it), `skewed` (real time entered past the revert).

### IssuePage

`page.shown` is what was fetched last, `page.fetches` and `page.calls` what is on
its way, `page.choice` what the buttons Close and Reopen remember. A click is
`setAdminAction` and the timer that follows, in one step; a request reaches the
server at the click; two fetches that have read the same count as one. Proposals
sent from the page carry the `updatedAt` of what is shown. `PageSettles` leaves
out two gaps of the code: fetches that overlapped, and a selection that changed
before a change was answered; what comes last is shown then. A stale accept gives
an error and no refetch; the draft and the choice survive another selection.

### Planners

`rows`, `room`, `version` and `lock` are the server's; `board[p]` is the page
(what it fetched, its edits, the status line, the preview over the calendar),
`call[p]` the calls of a save in their order (`Saves(p)`: one is under way), `ask[p]` what it has asked of the
engine. Each `await` of the manual edit is a step; a flag is written under the
lock in one step; the transaction on the capacities is atomic. `base` and `marks`
are history: the writes a page has seen, and all of them, for each type.

`NothingUnseenOverwritten` has five known gaps, `PreviewComesTrue` three, each
named at the line of the code beside the property. `CapacityKept` exempts the
cells in `hist.astray`, and there are two ways for a cell to get there:

- it was written without the lock of its type: work of another type was moved
  there (`manual-edit-service.ts:111`), or deleted there by the engine
  (`core.ts:164`), which gives back only capacities that it has read
  (`core.ts:105-114`);
- it was written under the lock, by an apply of a plan that is older than the last
  write to its type (`stale` in `EngineCommit`, `core.ts:173-182`). Such a plan gets
  past the comparison of the versions when the preview was torn
  (`preview/route.ts:58`) or a run moved no version on (`core.ts:211`). Astray are
  the cells that the plan writes (`WrittenCells`), not the rest of its type. TLC
  finds such cells out of balance as soon as they are not exempt: a preview that
  reads the tables, a run, the version after the run, the apply.

Bounds of the pages: one fetch, one save and one apply or run of a page at a time;
nothing is edited while a save is under way (the page allows it and the success
clears it, `page.tsx:2900`: an edit that is lost is then in none of the calls
`SavedMeansStored` speaks of), nor discarded then, though the button Discard stays
enabled (`page.tsx:4122`); the answer to a call of a save is not lost, so that a
save repeated after a call that did reach the server, and conflicts with its own
write, is outside of `ConflictHasCause`; a late preview is not edited under; which splits
are proposed is `parts`; leaving edit mode without edits is not modelled; a
SUPERADMIN's flags are always refused (`getScopeGroup` throws), as in the code.

### Accounts

One step per `await`: a request works on the rows it read (`req[q]`), the four
tables and the sessions are `user`, `token`, `invite`, `change` and `session`,
what clients were given is `access`, `held` and `mailed`. The clock counts in
ticks; a request does not last over two of them; access tokens are dropped when
they expire. `Die` is a crash or a store that throws at any step. `traffic` is
the mix of requests of a behaviour. Whoever asks for or confirms an address is
any client, which is more than the routes allow; the SUPERADMIN who administers
is outside of the table; deletions that a restricting foreign key refuses,
patches of the username and `createUserService`, which no route calls, are left
out.

## What TLC checks

| run | instance | shows |
|---|---|---|
| `lock_expiry` | 3 callers, 2 types, 1 call each, expiry | `MutualExclusion`, `NoMutualRefusal`, `NoOrphanLock` |
| `lock_live` | 2 callers, 2 types, 2 calls each, all faults | `ImplementsLockService`, `EveryCallReturns`, `NoLockForEver` |
| `core_locked` | 2 requests of the six kinds that lock, 2 orders, 3 days, dates 0 to 2, capacity 1, failures | `CapacityLedger`, `NoDoubleAssignment`, `CancelledReleased`, `ScheduledBacked`, `RunCommitsFresh`, `ImmutableKept`, `WritesExcluded` |
| `core_occ` | 3 requests among run, preview, apply, cancel from an issue, daily; 2 orders, one fixed; 2 days; failures | `OccSound`, `ApplyOnce`, `FreshCommitsKeepLedger`, `LockReturned`, `ProductionUntouched` |
| `order_life` | 2 orders, 2 factories, 4 days, nine scenes, 328,320 states | `PlanSound`, `RankRespected`, `SuggestionHolds`, `QuantityCovered`, `NothingRunsEarly`, `NoDuplicateOpenIssue`, `AppliedOnce`, `ResolvedMeansApplied`, `PageSettles`, `WorkGetsDone` |
| `board` | 2 planners, 2 types with a factory each, 3 orders, 3 days, eight scenes, 116,402 states | `CapacityKept`, `NothingUnseenOverwritten`, `ConflictHasCause`, `SavedMeansStored`, `PreviewComesTrue`, `PreviewBelongs` |
| `accounts` | 2 users, 2 requests at a time, eight mixes, 284,608 states | `StaleRoleBounded`, `LogoutEnds`, `GuessesBounded`, `LinkWorksOnce`, `LatestLinkOnly`, `ScopeMatchesRole` |
| `silent_run` | run, preview, apply; 1 order | `UntornApplyFresh` fails |
| `daily_regress` | preview, apply, daily; 1 order | `ImmutableKept` fails |
| `issue_cancel` | run, cancel from an issue; 2 orders | `WritesExcluded` fails |
| `cancelled_revived` | cancel, daily; 1 order | `CancelledStays` fails |
| `order_life_final` | comment, accept, reject, edit; 1 order | `EndStatesFinal` fails |

Bounds. Two types are the fewest on which the order of acquisition matters, and
three callers the fewest where one waits for two. `MaxCalls` makes tokens of an
earlier call meet keys of a later one. In `ScheduleCore`, `LastDay` and
`Horizon` let an assignment lie in the past, in production and in the future,
inside and outside of the window of the engine; capacity one makes every second
order hit the limit, and two orders with different deadlines compete for a day.
Two requests suffice for the operations that exclude each other; a stale preview
needs three (preview, writer, apply). `Open` says which capacity rows exist from
the start; the other rows may or may not. The initial states have any subset of
the orders booked in any cells that fit.

In `order_life` the scene `Planning` runs the strategy once over 576 tables (two
orders of up to three and two wafers, rooms of two and one, deadlines on and
before the last days, priority, a fixed order, work of an earlier run, rows of
capacity or none) with all three policies, split or not, with and without an end
date: an order may have to be spread over both factories and several days and be
rolled back when it fails. The other scenes have two to four requests: an accept
and a reject with a death between them, cancellation requests beside a failing
run, edits under a plan, a switch into simulated time and back beside a cron job
and a run, a cron job that dies with the lock. The clock stops on day 3; jobs go on.

In `board` each scene gives each planner one to four edits and one or two saves,
enough for a save of several moves, a repetition after a refusal, work moved
between the types, and a write by the other planner between any two steps; the
previewing scenes let one page preview and apply while the other runs, previews
too or edits; and in one the engine deletes a piece of work between the drag and
the save, so that the save moves what is gone.

In `accounts` two requests overlap in every way, refresh, logout and deletion of
one user among them; three tokens and one session are a login, a refresh and the
refresh that comes after; two links are one and its replacement; the horizon of
two ticks is one lifetime of a refresh token, a lock and a link. Symmetry is over
the two requests, and the run has only invariants, so it is sound.

Deadlock is not checked (`CHECK_DEADLOCK FALSE`): the behaviours end when the
requests, edits or days that the bounds allow are used up.

Fairness. In `lock_live` one live caller goes on with a step that is enabled
(Node runs every continuation that is ready, and bodies are transactions with a
timeout), and Redis deletes an expired key. The other caller may stop anywhere,
and no fault has to stop happening. In `order_life`, only in the scene `Waiting`:
a request goes on with its next step (`Onward`; the step `RunPlan` is always
enabled where a request is at it, so that not staying there is its weak fairness),
the cron process starts the daily job again (its timer does, whatever a tick did)
and the lease of a dead holder runs out. Deaths there are two, a bound; nobody
has to die, and no request has to be made. Everything else assumes no fairness.

Every property comes with a mutant, an operator marked `Mutant` beside the
definition it changes, that makes TLC find it violated.

### Where code and documents part

- `silent_run`: `_applyScheduleTransaction` increments the version of the types
  whose capacity rows it updated. A run that only inserts rows increments
  nothing, against `modules/schedule/README.md:272`. `OccSound` states what does
  hold: a stale apply was torn, or something without an increment came before.
- `daily_regress`: the daily advancement increments nothing either. The apply
  that follows turns an order in production back into a scheduled one and gives
  it a second assignment, against `modules/schedule/README.md:57-60`.
- `issue_cancel`: the cancellation from an issue takes no lock, against
  `modules/schedule/README.md:268`.
- `cancelled_revived`: an order cancelled while it is in production becomes
  COMPLETED, against `app/api/orders/README.md:56` and `prisma/README.md:129`.
- `order_life_final`: accepting a proposal never looks at the status of the order
  and writes PENDING over one that was cancelled meanwhile, against
  `app/api/orders/README.md:56`.

Without a run of their own:

- the preview reads the version after the tables
  (`app/api/schedule/preview/route.ts:53-58`), which is the `torn` of `OccSound`
  and of `PreviewComesTrue`;
- an apply whose closing increment fails leaves its preview valid, which is the
  `quiet` of `ApplyOnce`;
- `deleteOrdersService` cancels COMPLETED orders;
- the comment at `app/api/schedule/run/route.ts:51` says that only the winner of
  the lock resolves the date, which is read before the lock is asked for;
- the suggestions of an issue say that an accept verifies again
  (`conflict-issue-service.ts:929`); `acceptProposal` compares `updatedAt` and
  nothing else. They promise too much when the window of the failed run has begun
  or the order was overdue (the two exceptions of `SuggestionHolds`), and fail for
  an issue opened by a cancellation request, whose snapshot is empty;
- the buttons Close and Reopen send the choice from before the click
  (`IssueDetailPanel.tsx:1139`, `:1168`, with `:807-832`): the first click sends
  nothing, and so "Reopen it to add comments" (`:573`) takes two;
- the button Preview sends no orders, so that no pending one is in its plan;
- the timeline query has no filter on the status of the work it shows.

## What is proved

With TLAPS, for every value of the constants that satisfies the assumptions
named in the modules:

- `ScheduleLock`: type correctness; `MutualExclusion` from the invariant that a
  key a caller counts as acquired holds its token unless its lease ran out;
  `NoMutualRefusal` from the ascending order of what is acquired (the caller
  refused at the higher type holds the lower one, so it was not refused by the
  other there); `NoOrphanLock` without failing commands and deaths; and that the
  keys implement `LockService`, under every fault.
- `ScheduleCore`: type correctness, through `Typed`, which says of every step
  what a request that has reached it must hold (a commit has a plan, a move has
  an assignment); `LockReturned`, through `Guarded` (whoever is at a locked step
  holds the lock, and the holder is at one or dead); `WritesExcluded`, by
  `Guarded` and `Permitted` (a transaction is reached only by the operations
  that lock), when the operations do not include the cancellation from an issue;
  and under the same assumption `RunCommitsFresh`, through `Faithful`: from its
  reading of the orders to its commit the tables have not changed, so neither
  has the number of edits.
- in the same module, when the operations include neither the apply of a
  preview nor the cancellation from an issue: `CapacityLedger` and
  `NoDoubleAssignment`. The invariant `Ledger` adds to the above that an
  assignment is known by its order and its writer (`Keyed`), that a request has
  written only after its transaction (`Signed`), that a pending order has no
  assignment (`Unplaced`), that a cell without a capacity row has not even a
  cancelled one (`Balanced`, stronger than the ledger), and that what a manual
  move has read and checked still holds (`Moving`, by the lock). There is one
  lemma for each transaction; the one on the commit of a run uses `Faithful`:
  the plan frees exactly the rows the transaction deletes, and the absolute
  capacities it writes are those of the cells as they are.
- under the same assumption: `CancelledReleased`,
  `ScheduledBacked`, `ImmutableKept` and `ProductionUntouched`. To `Ledger` is
  added that a waiting assignment belongs to an order that is scheduled, and a
  cancelled one to a cancelled order (`Agreed`: without it the engine could see
  a cancelled row and leave an order whose live row it has freed unplaced), and
  that a move that is past its checks is not about a fixed order (`Unfixed`).
- in the same module: `OccSound`, with every operation and every fault. What an
  apply knows is dated: the version it has read, or was given, belongs to a state
  of the tables no older than the preview (`Ageing`), what has passed the check
  carries the version that is stored (`Checked`), and a version that is stored is
  not ahead of the counter (`Stored`). `ApplyOnce`, because an apply that has
  committed has counted the version on, or never will (`Spent`).
  `FreshCommitsKeepLedger`, from what a request that is still fresh knows of the
  tables (`Knowing`), for operations where the cancellation from an issue does not
  meet a manual move or placing (`Undisturbed`). That hypothesis is not for the
  proof's sake: the cancellation takes no lock, and a move that has checked its
  assignment would move the row that was cancelled meanwhile and free its old cell
  a second time.
- `AccountsProofs`, for any users, lifetimes, mixes and any number of requests at
  a time: `TypeOK` with `Owned` (a token or link that is there has its user: the
  cascade of a deletion, beside every request that works on what it read before),
  through `RequestsOK`, which says of each step what the request has read;
  `LinkWorksOnce`, because a claim is recorded in the row it claims
  (`ClaimsRecorded`) and no identifier is given out twice; `LogoutEnds`, because
  the session is gone and no refresh holds a copy of it (`EndedGone`); and
  `StaleRoleBounded`, from `RolesKnown`: whoever was given a role in an answer, or
  is about to be, had it when the row was read, or the time it was lost is known
  (`HadSince`), for which an account must be created by one request only
  (`FreshUsers`) and a request must not outlast a tick.
- in the same module, of a single user: `ScopeMatchesRole`, for accounts that start so (the
  hypothesis of the theorem): while one update is under way for a user, the row
  holds what it has read until it writes, and what it wrote until it writes the
  factories (`ScopeOf`), and nobody creates that row anew (`KnownUsers`).
  `LatestLinkOnly`: the invitation of a resend that is alone is the only other one
  until it revokes the rest, and a change that is alone creates its token only when
  it has deleted every other (`InviteOf`, `ChangeOf`).
  `GuessesBounded`, for two requests at a time: two logins that overlap read the
  same count, and the slower one writes it back and takes away the lock, so that
  neither the count nor the lock bounds anything by itself. What does is the least
  count that a login under way has read, or the row holds, `m`: an account whose
  count is f < T allows T - f + 1 guesses as it stands and `Left(m + 1)` once the
  count was put back, and one that is locked allows two more when the lock runs
  out, which is at least `LockTtl` - 1 ticks after the last guess (`Fits`,
  `GuessesOf`). Of two guesses under way at most one has read less than the row
  holds (`Both`), and an account that is created has none (`Unborn`).
- `OrderLifeProofs`, about the specification of `IssuePage`, so with the page and
  all the services beside each other, for any scenes, tables, bounds and lengths of
  the calendar: `TypeOK`, which has the foreign keys, and for each step of a request
  the rows it has read, which are still there (`Linked`). One lemma for each action
  says what it does to the tables (`Moved`: rows stay, with what they are about; a
  new version of an order is a later one), and what holds for the other requests
  follows once (`LinkedStays`). On it rest
  - `AppliedOnce`, from `Behind` (a proposal that was applied expects a version of
    its order that is gone) and `AboutToApply` (who is about to apply one knows the
    order from a version that is not later than the present one, and is alone unless
    the accepts overlapped): an acceptance that is repeated after a death finds that
    its version is gone;
  - `ResolvedMeansApplied`, from `AppliedLate` (a request past the write of the order
    has applied its proposal) and `WhoResolves` (no other step resolves an issue);
  - `NoDuplicateOpenIssue`, from `FlagsAlone` (while a request is about to create an
    issue there is none, and no other such request) and `IssuesForOnce` (a commit
    gives each failed order one row, by counting the free places below it);
  - `NothingRunsEarly`, from `RevertsToday` (a revert under way has a date that has
    come), `AdvancedOnTime` and `RevertedOnTime`;
  - `PageSettles`, from `Settling`: without overlapping fetches the only fetch on
    its way is for the selected issue and, once it has read, has read every change
    made here; and what the next button sends is among what was clicked.

  The scenes must start from tables that satisfy the schema (`StartsAssumption`) and
  that have no history (`FreshAssumption`: the history variables start empty, so
  what they would have recorded has not happened before, and an order that counts as
  planned has been given its work), and their requests must carry what the routes
  let through (`ValuesAssumption`). That a commit writes rows of the right columns
  for orders that exist is a guard of `RunCommit`, as the schema refuses other rows.
- `PlanSound` and `RankRespected`, also in `OrderLifeProofs`, are about the strategy
  itself. They hold of what `PlanOf` makes of any tables whose numbers are numbers;
  the invariant `Planful` says that every plan about to be written is `PlanOf` of
  what the run has read, and that the capacities it can read have their type
  (`CapacityTyped`). The strategy is a fold over the orders, of folds over the days,
  of folds over the factories. The provers cannot use the induction theorems of the
  library, but none is needed: a set that has the empty set as a member and is
  closed under adding one element contains every finite set (`GrowingFamily`: take
  among the sets that are missing one that contains no other), and that is first
  order. Each fold has an invariant that this carries:
  - `OpenDay`, `Fill`, `TakeSplit` and `TakeWhole` keep `Books`: the ledger of an
    attempt, taken back from its end, gives the capacities it began with; what it has
    placed, one piece to a cell, makes up for what it no longer misses; and what is
    left of a cell is what there was less what was placed there. An attempt that ends
    short has left no room in its window (`Used`);
  - `PlaceOrder` and `PlanOf` (`PlanOfGood`): the plan keeps the books after each
    order, and for each order that has failed the room in its window was less than
    it missed; as orders come in the order of `Ranks`, what was taken since then, and
    only that, belongs to orders that count less (`RankRespected`).
- `QuantityCovered`, in `OrderQuantityProofs`, is about all services at once: an
  order that counts as planned has work for exactly its quantity, unless one of the
  ways in which a status and the work of an order can part has happened to it
  (`hist.astray`). By itself it is not inductive, because a commit writes what was
  read some steps before. The invariant `Booked`, which TLC has found to hold in all
  328,320 states of `order_life`, adds
  - `Positive`: work is of a positive quantity, and `Covered`: an order that counts as
    planned has some work. Without them a run could give back and delete work that
    adds up to nothing, or an edit by hand could change the quantity of an order
    that has none;
  - `PlansLocked`: a run that has made its plan holds the lock. So there is one such
    plan at a time, and whoever asks for the lock leaves its orders alone;
  - `PlansCurrent`: of an order in the plan that has not gone astray, the row and
    the work are as they were read (`UpToDate`). Those that write without the lock
    (an acceptance, a cancellation from an issue, a revert) set the orders they write
    astray while a plan is under way (`PlanUndisturbed`).

  What is deleted is then what was given back in memory (`Freed`, `Removed`), and the
  rest is what the plan counted as kept (`KeptSum`); the plan gives an order all that
  it misses or nothing, and decides on its status accordingly (`PlanNeat`, by the same
  induction as `PlanGood`). That the new rows do not fall on each other or on rows
  that stay is shown by their ranks (`PlacesByRank`, `CommitPlaces`): an order on the
  new rows and one on the free places put the first of the one on the first of the
  other, and so on. `CommitCovers` adds it up. `WhoOrders` says who else writes
  orders or work, and one lemma for each says what it leaves alone.

- `PlannersProofs`, for any planners, types, factories, calendars, scenes, tables
  and any number of edits, saves, refreshes and plans:
  `NothingUnseenOverwritten`, `ConflictHasCause` and `PreviewBelongs`. The first
  two are two directions of one relation, `Tracks`, between the version and the
  writes that a page counts on and those of the tables: where the page has seen
  all writes its version is the stored one, and where its version is the stored
  one it has seen all writes, unless rows and versions were torn, a run was
  silent, or somebody has written and not yet moved the version on (`Ahead`). The
  data of the last refresh keep track (`DataTracks`), what edit mode has taken
  from them keeps track through every refresh (`EditTracks`), and the save counts
  its own writes on both sides (`TracksShift`) unless it is `lopsided`. Whoever is
  ahead holds the lock of the type, so that nobody else who holds it or finds it
  free can be misled: this needs that a lock is held by the one who is at work
  under it (`Owned`, `ActOK`) and that a save past its lock moves only work that
  is still there, in types it has locked (`MovesHeld`). `StepOf` says what any
  step of one planner may do to what the others know; one lemma for each action
  shows that it does no more, and `OthersKept` has once what follows for the
  others. `PagesKeepTrack` is the invariant itself.

  The scenes must have tables with the columns of the schema (`PlanAssumption`).
  Nothing is assumed of the plans of the engine but that they are about orders of
  the type they were made for, which `PlannedFits` shows.
- `CapacityKept`, in `CapacityProofs`, for the same planners, scenes and plans and
  for any number of moves in a save. What is in a cell is a sum over the rows of the
  tables, and what a save or a commit writes is a difference of sums over what it
  sends (`NetChange`) or has planned. The two agree only if each row is written for
  one reason, so the proof is about where the rows go: `MovesLand` finds for each
  move of a save a row of its own, that of the piece it moves or a free one, and
  `PlanSettles` does so for the new work of a plan and the rows it frees (by
  `PlacesByRank`). `SumShift` then says that a sum changes by what is put on the rows
  that are named one to one, and `LandedTotals` and `SettledTotals` apply it. That no
  row is moved twice in a call is a matter of how the page makes its calls
  (`MovesOK`, `EditsOK`: a piece has one place it is moved to).

  `CapacityKept` is not inductive: a save finds that its moves fit some steps before
  it writes them, and a plan is computed many steps before its commit. The invariant
  `Ledger`, which TLC has found to hold in all 116,402 states of `board`, adds
  - `FitsStill`: where the save holds the lock of a cell's type, what has fitted when
    it was read still fits when it is written;
  - `PlanOK` and `UpToDate`, of every plan that is on a page, on its way to one or
    about to be committed (`PlansInHand`): what it leaves of a cell is what it was
    given less what it places there, and not less than nothing where it places work
    (from `PlanOfGood`, the theorem on the strategy); and if nothing was written to
    its type since, what it was given is what there is and what its commit will give
    back (`Freed`).

  `WritesTo` says of a step which types it writes to; from it alone follows what the
  plans and the saves of the others keep (`PlanKept`, `FitKept`), once for all
  actions. Beyond `PlanAssumption` the proof needs `SceneAssumption`: days are counted
  from 0, rows of the tables have the columns of the schema, the work a scene starts
  from fits in its cells, and pieces are dragged to cells of the calendar.

The invariants need the strengthening because the properties speak of the last
step only: that a commit is fresh depends on who could have written since the
read, that depends on who holds the lock, and that on what each step requires.

The type invariants of these modules are theorems and no run repeats them.

Only model-checked:

- liveness (`EveryCallReturns`, `NoLockForEver`, `WorkGetsDone`), out of the
  reach of this prover;
- `ProductionUntouched` with the apply and the cancellation from an issue
  (`core_occ`). With these two operations the ledger itself cannot be promised: a
  plan that is applied stale writes absolute capacities, which is why
  `FreshCommitsKeepLedger` is conditional;
- `SuggestionHolds`, which compares the arithmetic of the issue page with runs of
  the strategy that nobody makes; `PreviewComesTrue`, which compares the sums that
  `CapacityKept` is about between the page and the tables, and `SavedMeansStored`, which depends on the order
  in which the calls are sorted.

## What is not modelled

- Of the parts above: deletion of several orders at once and edits of fields no
  other part reads; the daily job over several types; REASSIGN, editing and
  deleting comments; the shutdown of the cron process that gives a job 30 s; the
  edits of factories and of the scheduling configuration, which are constants;
  the expiry of a preview in `ScheduleCore` (it can only make an apply fail;
  `PreviewDesk` has it).
- The pages other than the board and the issue page (orders, permissions, users,
  profile, login, dashboards, the list of issues): they show a table and send
  single requests, whose server side is modelled; what is left of them is layout.
  Most lines of the repository that the map does not name are of this kind, with
  the seeds, the stress scripts, the mail templates and the routes that parse one
  request and call one service.
- The SALES view of the timeline, the dashboard queries and the changelog: reads
  that no write depends on.
- `rbac.ts` and `scope.ts`: pure checks of one request.
- Mail: sent after the commit; a failure is logged and changes nothing, except for
  invitations, where it is modelled.
- Layout, wording, logging and translation.
