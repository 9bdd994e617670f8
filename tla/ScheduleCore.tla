----------------------------- MODULE ScheduleCore -----------------------------
(***************************************************************************)
(* The operations that write the schedule of one production type, at the   *)
(* grain of their awaits: the engine's run, preview and apply              *)
(* (modules/schedule/core.ts, run.ts, preview.ts), cancelling and deleting *)
(* orders (modules/order/order-service.ts), cancelling one from a conflict *)
(* issue (modules/order/conflict-issue-service.ts), the daily advancement  *)
(* of production (modules/schedule/daily-execution.ts) and the manual      *)
(* moves (modules/schedule/manual-edit-service.ts).  They meet in three    *)
(* shared stores: the PostgreSQL tables, the lock key and the version      *)
(* counter with the stored previews in Redis.                              *)
(*                                                                         *)
(* A database transaction is one step.  Orders have quantity one and the   *)
(* configuration is not splittable, so an order is placed in one cell.     *)
(* The lock is the service that ScheduleLock.tla implements, and no body   *)
(* outlives its lease.                                                     *)
(***************************************************************************)
EXTENDS Integers, FiniteSets

CONSTANTS
  Orders,          \* the orders of this production type
  Factories,       \* its active factories
  LastDay,         \* bound: the calendar is 1 .. LastDay, the model starts on 0
  Horizon,         \* bound: the clock runs from day 0 to this day
  MaxCapacity,     \* maxCapacity of every factory, in orders per day
  Deadline,        \* Deadline[o]: calculateOrderDeadline of the order
  Fixed,           \* the orders with isFixed
  FrozenDays, ProductionDays,  \* of the scheduling configuration
  Policies,        \* the reschedule policies in use
  Requests,        \* the requests and cron ticks; each is executed once
  Operations,      \* which operations they perform
  Failures,        \* whether processes die, and their calls fail
  Type,            \* the production type
  Open,            \* cells that have a DailyCapacity row from the start
  None             \* no client, no row, nothing

Days == 1 .. LastDay
Cells == Factories \X Days
AllPolicies == {"GAP_FILLING", "GLOBAL_OPTIMIZE", "PRIORITY_RETAIN"}
AllOperations == {"run", "preview", "apply", "cancel", "delete",
                  "issueCancel", "daily", "move", "place"}

ASSUME CoreAssumption ==
  /\ LastDay \in Nat
  /\ Horizon \in Nat
  /\ MaxCapacity \in Nat
  /\ FrozenDays \in Nat
  /\ ProductionDays \in Nat
  /\ Deadline \in [Orders -> Int]
  /\ Fixed \subseteq Orders
  /\ Policies \subseteq AllPolicies
  /\ Operations \subseteq AllOperations
  /\ Failures \in BOOLEAN
  /\ Open \subseteq Cells
  /\ None \notin Requests
  /\ None \notin Int
  /\ IsFiniteSet(Orders)
  /\ IsFiniteSet(Factories)
  /\ IsFiniteSet(Requests)

VARIABLES
  ord,      \* Order.status
  rows,     \* the OrderAssignment rows; (ord, by) identifies a row
  cap,      \* DailyCapacity.curCapacity of a cell, None without a row
  holder,   \* the lock of the type
  version,  \* schedule_version of the type
  preview,  \* the previews stored in Redis, under the request that made them
  today,    \* what getTime() returns, as a day number
  pc,       \* the next step of each request
  job,      \* what each request was asked to do
  seen,     \* what it has read of orders and assignments
  plan,     \* the engine's result it holds
  edits,    \* history: number of transactions committed so far
  quiet,    \* history: those that no version increment follows
  commits   \* history: what the engine's commits were based on

data == <<ord, rows, cap>>
ghosts == <<edits, quiet, commits>>
vars == <<ord, rows, cap, holder, version, preview, today,
          pc, job, seen, plan, edits, quiet, commits>>

Lock == INSTANCE LockService WITH
  Types <- {Type}, Clients <- Requests, NoClient <- None

OrderStatus == {"PENDING", "SCHEDULED", "IN_PRODUCTION", "COMPLETED",
                "CANCELLED", "FAILED"}
AssignmentStatus == {"SCHEDULED", "IN_PRODUCTION", "COMPLETED", "CANCELLED"}
Rows == [ord : Orders, cell : Cells, st : AssignmentStatus,
         by : Requests \cup {None}]

DayOf(c) == c[2]
RowsAt(S, c) == {r \in S : r.cell = c}
Live(S) == {r \in S : r.st # "CANCELLED"}

Jobs ==
       [op : {"none", "daily"}, now : Nat]
  \cup [op : {"run", "preview"}, policy : AllPolicies, targets : SUBSET Orders,
        now : Nat]
  \cup [op : {"apply"}, preview : Requests, expect : Int, torn : BOOLEAN,
        quiet : Nat]
  \cup [op : {"cancel", "delete", "issueCancel"}, order : Orders,
        expect : Int \cup {None}]
  \cup [op : {"move", "place"}, order : Orders, row : Requests \cup {None},
        to : Cells, expect : Int \cup {None}]
Views == [ord : [Orders -> OrderStatus], rows : SUBSET Rows, basis : Nat]
Plans == [frees : BOOLEAN, from : Int, muts : SUBSET Orders,
          sched : SUBSET Orders, failed : SUBSET Orders,
          place : SUBSET [ord : Orders, cell : Cells],
          left : [Cells -> Int], upd : SUBSET Cells, new : SUBSET Cells,
          basis : Nat]
Previews == [plan : Plans, version : Nat, torn : BOOLEAN, quiet : Nat]
Commits == [by : Requests, preview : Requests \cup {None}, fresh : BOOLEAN,
            torn : BOOLEAN, quiet : BOOLEAN]

(* The steps taken with the lock in hand.                                  *)
Locked(q) ==
  \/ pc[q] \in {"check", "commit", "bump", "settle", "forget", "daily",
                "validate", "capacity", "move", "unlock"}
  \/ pc[q] \in {"orders", "plan"} /\ job[q].op = "run"
  \/ pc[q] = "cancel" /\ job[q].op # "issueCancel"

PCs == {"idle", "precheck", "lock", "check", "orders", "plan", "version",
        "commit", "bump", "settle", "forget", "cancel", "daily", "validate",
        "capacity", "move", "unlock", "done", "dead"}

TypeOK ==
  /\ ord \in [Orders -> OrderStatus]
  /\ rows \subseteq Rows
  /\ cap \in [Cells -> Int \cup {None}]
  /\ holder \in [{Type} -> Requests \cup {None}]
  /\ version \in Nat
  /\ preview \in [Requests -> Previews \cup {None}]
  /\ today \in Nat
  /\ pc \in [Requests -> PCs]
  /\ job \in [Requests -> Jobs]
  /\ seen \in [Requests -> Views \cup Rows \cup {None}]
  /\ plan \in [Requests -> Plans \cup {None}]
  /\ edits \in Nat /\ quiet \in Nat
  /\ commits \subseteq Commits

NoJob == [op |-> "none", now |-> 0]

(***************************************************************************)
(* Some orders are pending, the others are scheduled in the future with    *)
(* their capacity taken.  A cell in use has a DailyCapacity row; of the    *)
(* others, some have one.                                                  *)
(***************************************************************************)
Init ==
  /\ \E booked \in SUBSET Orders : \E at \in [booked -> Cells], open \in SUBSET Cells :
       LET taken(c) == {o \in booked : at[o] = c} IN
       /\ \A o \in booked : DayOf(at[o]) <= Deadline[o]
       /\ \A c \in Cells : Cardinality(taken(c)) <= MaxCapacity
       /\ Open \cup {at[o] : o \in booked} \subseteq open
       /\ ord = [o \in Orders |-> IF o \in booked THEN "SCHEDULED" ELSE "PENDING"]
       /\ rows = {[ord |-> o, cell |-> at[o], st |-> "SCHEDULED", by |-> None] :
                    o \in booked}
       /\ cap = [c \in Cells |-> IF c \in open
                                 THEN MaxCapacity - Cardinality(taken(c))
                                 ELSE None]
  /\ holder = Lock!NewLocks
  /\ version = 0
  /\ preview = [q \in Requests |-> None]
  /\ today = 0
  /\ pc = [q \in Requests |-> "idle"]
  /\ job = [q \in Requests |-> NoJob]
  /\ seen = [q \in Requests |-> None]
  /\ plan = [q \in Requests |-> None]
  /\ edits = 0 /\ quiet = 0 /\ commits = {}

Goto(q, l) == pc' = [pc EXCEPT ![q] = l]

(* What a request that has finished, or failed, no longer remembers.       *)
Forgets(q) ==
  /\ job' = [job EXCEPT ![q] = NoJob]
  /\ seen' = [seen EXCEPT ![q] = None]
  /\ plan' = [plan EXCEPT ![q] = None]

-------------------------------------------------------------------------------
(* Requests arrive.                                                        *)

Submit(q, j, l) ==
  /\ pc[q] = "idle"
  /\ j.op \in Operations
  /\ job' = [job EXCEPT ![q] = j]
  /\ Goto(q, l)
  /\ UNCHANGED <<data, holder, version, preview, today, seen, ghosts>>

(* A version the client may have loaded with the page, or none at all.     *)
Expectations == {version, None}

(* The engine's date is read before the lock is asked for.                 *)
StartRun(q, pol) ==
  /\ Submit(q, [op |-> "run", policy |-> pol, targets |-> Orders,
                now |-> today], "lock")
  /\ UNCHANGED plan

(* The preview takes no lock.                                              *)
StartPreview(q, pol, T) ==
  /\ Submit(q, [op |-> "preview", policy |-> pol, targets |-> T,
                now |-> today], "orders")
  /\ UNCHANGED plan

(* The route loads the stored preview before it asks for the lock.         *)
StartApply(q, p) ==
  /\ preview[p] # None
  /\ Submit(q, [op |-> "apply", preview |-> p, expect |-> preview[p].version,
                torn |-> preview[p].torn, quiet |-> preview[p].quiet], "lock")
  /\ plan' = [plan EXCEPT ![q] = preview[p].plan]

(* updateOrderService reads the order and checks the transition, then asks *)
(* for the lock; nothing is checked again inside.                          *)
StartCancel(q, o, v) ==
  /\ ord[o] # "COMPLETED"
  /\ Submit(q, [op |-> "cancel", order |-> o, expect |-> v], "lock")
  /\ UNCHANGED plan

(* Mutant: the transaction is run without the lock.                        *)
StartDeleteUnlocked(q, o) ==
  /\ Submit(q, [op |-> "delete", order |-> o, expect |-> None], "cancel")
  /\ UNCHANGED plan

(* deleteOrdersService looks at the group of the order, not at its status. *)
StartDelete(q, o) ==
  /\ Submit(q, [op |-> "delete", order |-> o, expect |-> None], "lock")
  /\ UNCHANGED plan

(* CANCEL_ORDER on a conflict issue goes to the transaction directly.      *)
StartIssueCancel(q, o) ==
  /\ Submit(q, [op |-> "issueCancel", order |-> o, expect |-> None], "cancel")
  /\ UNCHANGED plan

(* Rows that a daily tick of day now completes, or starts.                 *)
Completing(S, now) ==
  {r \in S : /\ r.st \in {"SCHEDULED", "IN_PRODUCTION"}
             /\ DayOf(r.cell) + ProductionDays <= now}
Starting(S, now) ==
  {r \in S : /\ r.st = "SCHEDULED"
             /\ DayOf(r.cell) <= now
             /\ now < DayOf(r.cell) + ProductionDays}

(* Without affected rows there is no type to lock and nothing happens.     *)
StartDaily(q) ==
  /\ \/ Completing(rows, today) # {}
     \/ Starting(rows, today) # {}
  /\ Submit(q, [op |-> "daily", now |-> today], "lock")
  /\ UNCHANGED plan

(* A row is moved, or a pending order placed, in cell c.                   *)
StartMove(q, r, c, v) ==
  /\ Submit(q, [op |-> "move", order |-> r.ord, row |-> r.by, to |-> c,
                expect |-> v], "precheck")
  /\ UNCHANGED plan

StartPlace(q, o, c, v) ==
  /\ Submit(q, [op |-> "place", order |-> o, row |-> None, to |-> c,
                expect |-> v], "precheck")
  /\ UNCHANGED plan

-------------------------------------------------------------------------------
(* The lock.                                                               *)

AfterLock(op) ==
  CASE op = "run" -> "orders"
    [] op \in {"apply", "cancel"} -> "check"
    [] op = "delete" -> "cancel"
    [] op = "daily" -> "daily"
    [] op \in {"move", "place"} -> "validate"

(* Mutant: SET without NX.                                                 *)
TakeLockAnyway(q) ==
  /\ pc[q] = "lock"
  /\ holder' = [holder EXCEPT ![Type] = q]
  /\ Goto(q, AfterLock(job[q].op))
  /\ UNCHANGED <<data, version, preview, today, job, seen, plan, ghosts>>

TakeLock(q) ==
  /\ pc[q] = "lock"
  /\ Lock!Grant(q, Type)
  /\ Goto(q, AfterLock(job[q].op))
  /\ UNCHANGED <<data, version, preview, today, job, seen, plan, ghosts>>

(* The request fails at once: 409, or a skipped cron tick.                 *)
Refused(q) ==
  /\ pc[q] = "lock"
  /\ holder[Type] # None
  /\ Goto(q, "done")
  /\ Forgets(q)
  /\ UNCHANGED <<data, holder, version, preview, today, ghosts>>

(* The finally block.                                                      *)
Unlock(q) ==
  /\ pc[q] = "unlock"
  /\ Lock!Free(Type)
  /\ Goto(q, "done")
  /\ Forgets(q)
  /\ UNCHANGED <<data, version, preview, today, ghosts>>

-------------------------------------------------------------------------------
(* The engine: prepareSchedulingData and greedyBestFitStrategy.            *)

(* Both queries for the orders with their assignments, then the capacities *)
(* in another step.                                                        *)
ReadOrders(q) ==
  /\ pc[q] = "orders"
  /\ seen' = [seen EXCEPT ![q] = [ord |-> ord, rows |-> rows, basis |-> edits]]
  /\ Goto(q, "plan")
  /\ UNCHANGED <<data, holder, version, preview, today, job, plan, ghosts>>

(* The orders the engine is given: those on the schedule, and the pending  *)
(* ones it was asked to place.                                             *)
Candidates(v, j) ==
  {o \in Orders : \/ v.ord[o] \in {"SCHEDULED", "IN_PRODUCTION"}
                  \/ v.ord[o] = "PENDING" /\ o \in j.targets}
Mutables(v, j) ==
  {o \in Candidates(v, j) : o \notin Fixed /\ v.ord[o] # "IN_PRODUCTION"}
Immutables(v, j) == {r \in v.rows : r.ord \in Candidates(v, j) \ Mutables(v, j)}

(* calculateMinimumStartDate, and the rows the in-memory reset takes away. *)
FirstDay(j) == j.now + 1 + FrozenDays
Frees(j) == j.policy # "GAP_FILLING"
Freed(v, j) ==
  {r \in v.rows : /\ Frees(j)
                  /\ r.ord \in Mutables(v, j)
                  /\ r.st = "SCHEDULED"
                  /\ FirstDay(j) <= DayOf(r.cell)}

(* The mutable orders that have no assignment left, whatever its status.   *)
Needy(v, j) == {o \in Mutables(v, j) : \A r \in v.rows \ Freed(v, j) : r.ord # o}

(* The capacity rows of that day and later are read; for any other cell    *)
(* the strategy makes one up when it meets an immutable assignment there.  *)
Known(c, j) == cap[c] # None /\ j.now <= DayOf(c)
Base(v, j) ==
  [c \in Cells |-> IF Known(c, j) THEN cap[c] + Cardinality(RowsAt(Freed(v, j), c))
                  ELSE MaxCapacity - Cardinality(RowsAt(Immutables(v, j), c))]

(* at: the cells given to the orders that get one.                         *)
Left(v, j, at) ==
  LET base == Base(v, j) IN
  [c \in Cells |-> base[c] - Cardinality({o \in DOMAIN at : at[o] = c})]

Result(v, j, at) ==
  LET left == Left(v, j, at)
      need == Needy(v, j)
      ok == DOMAIN at
  IN  [frees |-> Frees(j), from |-> FirstDay(j), muts |-> Mutables(v, j),
       sched |-> ok \cup {o \in Candidates(v, j) \ need : v.ord[o] = "SCHEDULED"},
       failed |-> need \ ok,
       place |-> {[ord |-> o, cell |-> at[o]] : o \in ok},
       left |-> left,
       upd |-> {c \in Cells : Known(c, j) /\ left[c] # cap[c]},
       new |-> {c \in Cells : /\ ~Known(c, j)
                              /\ \/ \E o \in ok : at[o] = c
                                 \/ RowsAt(Immutables(v, j), c) # {}},
       basis |-> v.basis]

(***************************************************************************)
(* What the engine may return for the orders v it has read, the capacities *)
(* and the job.  The order in which it serves the orders (priority, due    *)
(* date, ...) is left open: any result is one in which every order in need *)
(* gets a cell on the first day of its window that still has room, or      *)
(* fails because none has.                                                 *)
(***************************************************************************)
Window(o, j) == {c \in Cells : FirstDay(j) <= DayOf(c) /\ DayOf(c) <= Deadline[o]}

FirstFit(v, j, at) ==
  LET left == Left(v, j, at) IN
  /\ \A o \in DOMAIN at : at[o] \in Window(o, j) /\ left[at[o]] >= 0
  /\ \A o \in Needy(v, j) : \A c \in Window(o, j) :
       (o \in DOMAIN at => DayOf(c) < DayOf(at[o])) => left[c] <= 0

Engine(v, j) ==
  LET placings == UNION {[ok -> Cells] : ok \in SUBSET Needy(v, j)}
  IN  {Result(v, j, at) : at \in {f \in placings : FirstFit(v, j, f)}}

(* The capacities are read and the strategy, which does not await, runs.   *)
Plan(q) ==
  /\ pc[q] = "plan"
  /\ \E p \in Engine(seen[q], job[q]) : plan' = [plan EXCEPT ![q] = p]
  /\ seen' = [seen EXCEPT ![q] = None]
  /\ Goto(q, IF job[q].op = "run" THEN "commit" ELSE "version")
  /\ UNCHANGED <<data, holder, version, preview, today, job, ghosts>>

(* The preview route reads the version when the result is there, and       *)
(* stores both.  torn: a transaction came in between.                      *)
StorePreview(q) ==
  /\ pc[q] = "version"
  /\ preview' = [preview EXCEPT ![q] =
                   [plan |-> plan[q], version |-> version,
                    torn |-> edits # plan[q].basis, quiet |-> quiet]]
  /\ Goto(q, "done")
  /\ Forgets(q)
  /\ UNCHANGED <<data, holder, version, today, ghosts>>

(* Mutant: a mismatch throws past the finally block.                       *)
CheckVersionLeaks(q) ==
  /\ pc[q] = "check"
  /\ Goto(q, IF job[q].expect \notin Expectations THEN "done"
             ELSE IF job[q].op = "cancel" THEN "cancel" ELSE "commit")
  /\ UNCHANGED <<data, holder, version, preview, today, job, seen, plan, ghosts>>

(* Mutant: a preview is valid as long as its version is not in the future. *)
CheckVersionLoose(q) ==
  /\ pc[q] = "check"
  /\ Goto(q, IF job[q].expect \notin 0 .. version \cup {None} THEN "unlock"
             ELSE IF job[q].op = "cancel" THEN "cancel" ELSE "commit")
  /\ UNCHANGED <<data, holder, version, preview, today, job, seen, plan, ghosts>>

(* OCC: the version of the preview, or the one the client expects.         *)
CheckVersion(q) ==
  /\ pc[q] = "check"
  /\ Goto(q, IF job[q].expect \notin Expectations THEN "unlock"
             ELSE IF job[q].op = "cancel" THEN "cancel" ELSE "commit")
  /\ UNCHANGED <<data, holder, version, preview, today, job, seen, plan, ghosts>>

-------------------------------------------------------------------------------
(* The transactions.                                                       *)

(* upsertDailyCapacityDelta; a cell without a row counts as untouched.     *)
Adjust(f, c, delta) ==
  [f EXCEPT ![c] = (IF @ = None THEN MaxCapacity ELSE @) + delta]

(* A transaction has committed; silent if no version increment follows.    *)
Committed(silent) ==
  /\ edits' = edits + 1
  /\ quiet' = IF silent THEN quiet + 1 ELSE quiet

(* Mutants of the deletion: an off-by-one on the first day, no window, no  *)
(* regard to the status of the row.                                        *)
DeletedAfter(p) ==
  {r \in rows : /\ p.frees /\ r.ord \in p.muts /\ r.st = "SCHEDULED"
                /\ p.from < DayOf(r.cell)}
DeletedAnyDay(p) ==
  {r \in rows : p.frees /\ r.ord \in p.muts /\ r.st = "SCHEDULED"}
DeletedAnyStatus(p) ==
  {r \in rows : p.frees /\ r.ord \in p.muts /\ p.from <= DayOf(r.cell)}

(* deleteScheduledAssignments, for the plan p.                             *)
Deleted(p) ==
  {r \in rows : /\ p.frees
                /\ r.ord \in p.muts
                /\ r.st = "SCHEDULED"
                /\ p.from <= DayOf(r.cell)}

(* Mutant: the orders that failed are marked with the others.              *)
RescheduledAll(p) ==
  [o \in Orders |->
     IF ord[o] \in {"COMPLETED", "CANCELLED"} THEN ord[o]
     ELSE IF o \in p.sched \cup p.failed THEN "SCHEDULED" ELSE ord[o]]

(* applyScheduleOrdersUpdate.                                              *)
Rescheduled(p) ==
  [o \in Orders |->
     IF ord[o] \in {"COMPLETED", "CANCELLED"} THEN ord[o]
     ELSE IF o \in p.failed THEN "FAILED"
     ELSE IF o \in p.sched THEN "SCHEDULED" ELSE ord[o]]

(* Mutant: the changed rows are not updated.                               *)
WrittenInserts(p) ==
  [c \in Cells |-> IF c \in p.new /\ cap[c] = None THEN p.left[c] ELSE cap[c]]

(* createDailyCapacities skips what exists, bulkUpdateDailyCapacities      *)
(* writes the absolute values of the plan.                                 *)
Written(p) ==
  [c \in Cells |-> IF \/ c \in p.new /\ cap[c] = None
                      \/ c \in p.upd /\ cap[c] # None
                   THEN p.left[c] ELSE cap[c]]

(* _applyScheduleTransaction.  The version is incremented afterwards, for  *)
(* the types of the capacity rows that were updated.                       *)
Commit(q) ==
  /\ pc[q] = "commit"
  /\ LET p == plan[q]
         apply == job[q].op = "apply"
         bumps == p.upd # {}
     IN  /\ rows' = (rows \ Deleted(p)) \cup
                    {[ord |-> e.ord, cell |-> e.cell, st |-> "SCHEDULED", by |-> q] :
                       e \in p.place}
         /\ ord' = Rescheduled(p)
         /\ cap' = Written(p)
         /\ Goto(q, IF bumps THEN "bump" ELSE IF apply THEN "settle" ELSE "unlock")
         /\ Committed(~bumps /\ ~apply)
         /\ commits' = commits \cup
              {[by |-> q, preview |-> IF apply THEN job[q].preview ELSE None,
                fresh |-> p.basis = edits,
                torn |-> apply /\ job[q].torn,
                quiet |-> apply /\ quiet # job[q].quiet]}
  /\ UNCHANGED <<holder, version, preview, today, job, seen, plan>>

(* cancelOrdersAndReleaseCapacity.                                         *)
CancelTx(q) ==
  /\ pc[q] = "cancel"
  /\ LET o == job[q].order
         mine == {r \in rows : r.ord = o /\ r.st = "SCHEDULED"}
         issue == job[q].op = "issueCancel"
     IN  /\ rows' = (rows \ mine) \cup {[r EXCEPT !.st = "CANCELLED"] : r \in mine}
         /\ cap' = [c \in Cells |->
                      IF RowsAt(mine, c) = {} THEN cap[c]
                      ELSE Adjust(cap, c, Cardinality(RowsAt(mine, c)))[c]]
         /\ ord' = [ord EXCEPT ![o] = "CANCELLED"]
         /\ Goto(q, IF issue THEN "done" ELSE "bump")
         /\ Committed(issue)
         /\ IF issue THEN Forgets(q) ELSE UNCHANGED <<job, seen, plan>>
  /\ UNCHANGED <<holder, version, preview, today, commits>>

(* executeDailyStateAdvancement, for the date it was started with.         *)
DailyTx(q) ==
  /\ pc[q] = "daily"
  /\ LET now == job[q].now
         ends == Completing(rows, now)
         starts == Starting(rows, now)
         advanced == (rows \ (ends \cup starts))
                     \cup {[r EXCEPT !.st = "COMPLETED"] : r \in ends}
                     \cup {[r EXCEPT !.st = "IN_PRODUCTION"] : r \in starts}
         affected == {r.ord : r \in ends \cup starts}
         of(o) == {r.st : r \in {s \in advanced : s.ord = o}}
     IN  /\ rows' = advanced
         /\ ord' = [o \in Orders |->
              IF o \notin affected THEN ord[o]
              ELSE IF of(o) = {"COMPLETED"} THEN "COMPLETED"
              ELSE IF ord[o] = "SCHEDULED" /\ of(o) \cap {"IN_PRODUCTION", "COMPLETED"} # {}
                   THEN "IN_PRODUCTION" ELSE ord[o]]
         /\ Committed(TRUE)
  /\ Goto(q, "unlock")
  /\ UNCHANGED <<cap, holder, version, preview, today, job, seen, plan, commits>>

-------------------------------------------------------------------------------
(* The manual moves: applyAssignmentMoves with one move.                   *)

Asked(q) == {r \in rows : r.ord = job[q].order /\ r.by = job[q].row}

(* Before the lock: the versions the client expects, then the types.       *)
Precheck(q) ==
  /\ pc[q] = "precheck"
  /\ IF /\ job[q].expect \in Expectations
        /\ job[q].op = "move" => Asked(q) # {}
     THEN Goto(q, "lock") /\ UNCHANGED <<job, seen, plan>>
     ELSE Goto(q, "done") /\ Forgets(q)
  /\ UNCHANGED <<data, holder, version, preview, today, ghosts>>

(* Mutant: an assignment is moved whatever its status.                     *)
MovableAnyStatus(q) ==
  {r \in Asked(q) : job[q].op = "move" /\ r.cell # job[q].to}

Movable(q) ==
  {r \in Asked(q) : /\ job[q].op = "move"
                    /\ r.st = "SCHEDULED"
                    /\ r.cell # job[q].to}

(* Pass 1, on what is read of the assignment or of the order.  A move into *)
(* the slot the assignment has already is nothing to do.                   *)
Validate(q) ==
  /\ pc[q] = "validate"
  /\ LET o == job[q].order
         allowed == o \notin Fixed /\ DayOf(job[q].to) <= Deadline[o]
         pending == job[q].op = "place" /\ ord[o] = "PENDING"
     IN  \/ /\ allowed
            /\ \E r \in Movable(q) : seen' = [seen EXCEPT ![q] = r]
            /\ Goto(q, "capacity")
         \/ /\ allowed /\ pending
            /\ Goto(q, "capacity")
            /\ UNCHANGED seen
         \/ /\ ~allowed \/ (Movable(q) = {} /\ ~pending)
            /\ Goto(q, "unlock")
            /\ UNCHANGED seen
  /\ UNCHANGED <<data, holder, version, preview, today, job, plan, ghosts>>

(* Pass 2: room for one more in the target cell, read outside of the       *)
(* transaction.                                                            *)
CheckRoom(q) ==
  /\ pc[q] = "capacity"
  /\ Goto(q, IF Adjust(cap, job[q].to, -1)[job[q].to] >= 0 THEN "move" ELSE "unlock")
  /\ UNCHANGED <<data, holder, version, preview, today, job, seen, plan, ghosts>>

(* The transaction: capacity by deltas, from the slot that was read to the *)
(* target, and the row by its id.  Updating a row that is gone throws, and *)
(* everything is rolled back.                                              *)
MoveTx(q) ==
  /\ pc[q] = "move"
  /\ job[q].op = "move"
  /\ IF Asked(q) = {}
     THEN /\ Goto(q, "unlock")
          /\ UNCHANGED <<data, ghosts>>
     ELSE /\ cap' = Adjust(Adjust(cap, seen[q].cell, 1), job[q].to, -1)
          /\ rows' = (rows \ Asked(q)) \cup
                     {[r EXCEPT !.cell = job[q].to] : r \in Asked(q)}
          /\ Goto(q, "bump")
          /\ Committed(FALSE)
          /\ UNCHANGED <<ord, commits>>
  /\ UNCHANGED <<holder, version, preview, today, job, seen, plan>>

PlaceTx(q) ==
  /\ pc[q] = "move"
  /\ job[q].op = "place"
  /\ cap' = Adjust(cap, job[q].to, -1)
  /\ rows' = rows \cup {[ord |-> job[q].order, cell |-> job[q].to,
                         st |-> "SCHEDULED", by |-> q]}
  /\ ord' = [ord EXCEPT ![job[q].order] = "SCHEDULED"]
  /\ Goto(q, "bump")
  /\ Committed(FALSE)
  /\ UNCHANGED <<holder, version, preview, today, job, seen, plan, commits>>

-------------------------------------------------------------------------------
(* The version, the preview, the clock, the faults.                        *)

(* incrementScheduleVersion after the transaction.                         *)
Bump(q) ==
  /\ pc[q] = "bump"
  /\ version' = version + 1
  /\ Goto(q, IF job[q].op = "apply" THEN "settle" ELSE "unlock")
  /\ UNCHANGED <<data, holder, preview, today, job, seen, plan, ghosts>>

(* Mutant: an apply leaves the version to its transaction.                 *)
SettleWithoutBump(q) ==
  /\ pc[q] = "settle"
  /\ Goto(q, "forget")
  /\ UNCHANGED <<data, holder, version, preview, today, job, seen, plan, ghosts>>

(* An apply increments the version on its own account, always.             *)
Settle(q) ==
  /\ pc[q] = "settle"
  /\ version' = version + 1
  /\ Goto(q, "forget")
  /\ UNCHANGED <<data, holder, preview, today, job, seen, plan, ghosts>>

(* deletePreview.                                                          *)
ForgetPreview(q) ==
  /\ pc[q] = "forget"
  /\ preview' = [preview EXCEPT ![job[q].preview] = None]
  /\ Goto(q, "unlock")
  /\ UNCHANGED <<data, holder, version, today, job, seen, plan, ghosts>>

NewDay ==
  /\ today < Horizon
  /\ today' = today + 1
  /\ UNCHANGED <<data, holder, version, preview, pc, job, seen, plan, ghosts>>

(* q goes no further: if it had committed, the version increment that was  *)
(* due is not made.                                                        *)
Stops(q) ==
  /\ Failures
  /\ pc[q] \notin {"idle", "done", "dead"}
  /\ quiet' = IF \/ pc[q] = "bump"
                 \/ pc[q] = "settle" /\ plan[q].upd = {}
              THEN quiet + 1 ELSE quiet
  /\ UNCHANGED <<data, holder, version, preview, today, edits, commits>>

(* The process dies between two steps, lock in hand or not.                *)
Crash(q) == Stops(q) /\ Goto(q, "dead") /\ Forgets(q)

(* A call throws: a transaction is rolled back, a Redis command is not     *)
(* applied, and the finally block frees the lock if it was taken.          *)
Fail(q) ==
  /\ Stops(q)
  /\ \/ /\ Locked(q) /\ pc[q] # "unlock"
        /\ Goto(q, "unlock")
        /\ UNCHANGED <<job, seen, plan>>
     \/ ~Locked(q) /\ Goto(q, "done") /\ Forgets(q)

(* Mutant: the lease is shorter than the work.                             *)
ExpireEarly ==
  /\ holder[Type] # None
  /\ Lock!Free(Type)
  /\ UNCHANGED <<data, version, preview, today, pc, job, seen, plan, ghosts>>

(* The lease of one who died with the lock in hand runs out.               *)
Expire ==
  /\ holder[Type] # None
  /\ pc[holder[Type]] = "dead"
  /\ Lock!Free(Type)
  /\ UNCHANGED <<data, version, preview, today, pc, job, seen, plan, ghosts>>

Start(q) ==
  \/ \E pol \in Policies : \/ StartRun(q, pol)
                           \/ \E T \in SUBSET Orders : StartPreview(q, pol, T)
  \/ \E p \in Requests : StartApply(q, p)
  \/ \E o \in Orders : \/ StartDelete(q, o)
                       \/ StartIssueCancel(q, o)
                       \/ \E v \in Expectations : StartCancel(q, o, v)
  \/ StartDaily(q)
  \/ \E c \in Cells, v \in Expectations :
       \/ \E r \in rows : StartMove(q, r, c, v)
       \/ \E o \in Orders : StartPlace(q, o, c, v)

Step(q) ==
  \/ TakeLock(q) \/ Refused(q) \/ Unlock(q)
  \/ ReadOrders(q) \/ Plan(q) \/ StorePreview(q) \/ CheckVersion(q)
  \/ Commit(q) \/ CancelTx(q) \/ DailyTx(q)
  \/ Precheck(q) \/ Validate(q) \/ CheckRoom(q) \/ MoveTx(q) \/ PlaceTx(q)
  \/ Bump(q) \/ Settle(q) \/ ForgetPreview(q)

Next ==
  \/ \E q \in Requests : Start(q) \/ Step(q) \/ Crash(q) \/ Fail(q)
  \/ NewDay
  \/ Expire

Spec == Init /\ [][Next]_vars

-------------------------------------------------------------------------------
(* The ledger: what a cell has left and the assignments in it add up to    *)
(* the capacity of the factory, so that the engine never overbooks a day   *)
(* and never wastes one.                                                   *)
CapacityLedger ==
  \A c \in Cells :
    LET used == Cardinality(RowsAt(Live(rows), c)) IN
    IF cap[c] = None THEN used = 0 ELSE 0 <= cap[c] /\ cap[c] + used = MaxCapacity

(* No order is produced twice.                                             *)
NoDoubleAssignment ==
  \A r, s \in Live(rows) : r.ord = s.ord => r = s

(* An order that was cancelled is not produced, and holds no capacity.     *)
CancelledReleased ==
  \A r \in rows : ord[r.ord] = "CANCELLED" => r.st # "SCHEDULED"

(* An order shown as scheduled has a place.                                *)
ScheduledBacked ==
  \A o \in Orders : ord[o] = "SCHEDULED" =>
    \E r \in Live(rows) : r.ord = o

(* An assignment in production is not taken away or moved, by nobody.      *)
ProductionUntouched ==
  [][\A r \in rows : r.st = "IN_PRODUCTION" =>
       \E s \in rows' : s.ord = r.ord /\ s.by = r.by /\ s.cell = r.cell]_vars

(* The orders the engine must never move stay where they are: those that   *)
(* are fixed, in production or completed.                                  *)
Places(S, o) == {<<r.by, r.cell>> : r \in {s \in S : s.ord = o}}
ImmutableKept ==
  [][\A o \in Orders :
       o \in Fixed \/ ord[o] \in {"IN_PRODUCTION", "COMPLETED"}
         => Places(rows', o) = Places(rows, o)]_vars

(* While one request holds the lock, no other one writes to the tables.    *)
WritesExcluded ==
  [][\A q \in Requests : holder[Type] = q /\ edits' # edits => pc'[q] # pc[q]]_vars

(* What the engine returns to a run is committed on the very state it was  *)
(* computed from.                                                          *)
RunCommitsFresh ==
  \A q \in Requests : pc[q] = "commit" /\ job[q].op = "run" => plan[q].basis = edits

(* The applies among the commits of the engine.                            *)
Applied == {c \in commits : c.preview # None}

(* The preview that is applied was computed from the state it changes,     *)
(* unless something was committed while it was being computed.             *)
UntornApplyFresh == \A c \in Applied : ~c.torn => c.fresh

(* A stale preview gets through the version check in two ways only: it was *)
(* torn, or what came after it did not increment the version.              *)
OccSound == \A c \in Applied : c.fresh \/ c.torn \/ c.quiet

(* A preview is applied once, unless the first time ended between the      *)
(* transaction and the increment that closes it.                           *)
ApplyOnce ==
  \A c, d \in Applied : c.preview = d.preview => c = d \/ c.quiet \/ d.quiet

(* As long as the engine commits on the state it has read, the ledger      *)
(* balances, with previews computed outside of the lock, cancellations     *)
(* that do not take it, and days that go by.                               *)
FreshCommitsKeepLedger == (\A c \in commits : c.fresh) => CapacityLedger

(* Whoever finished has given the lock back.                               *)
LockReturned == holder[Type] # None => pc[holder[Type]] # "done"

(* CANCELLED is an end state: what was cancelled is not turned into a      *)
(* produced order.                                                         *)
CancelledStays ==
  [][\A o \in Orders : ord[o] = "CANCELLED" => ord'[o] = "CANCELLED"]_vars
===============================================================================
