------------------------------ MODULE OrderStore ------------------------------
(***************************************************************************)
(* What the services around an order share: the PostgreSQL tables Order,   *)
(* OrderAssignment, DailyCapacity, ConflictIssue and its comments, and     *)
(* SystemState (prisma/schema.prisma), for one production type; the lock   *)
(* of that type; the real date; and the requests in progress.              *)
(*                                                                         *)
(* IssueDesk.tla, OrderDesk.tla and ProductionLine.tla are the services;   *)
(* OrderLife.tla puts them together.                                       *)
(***************************************************************************)
EXTENDS GreedyStrategy, FiniteSets

CONSTANTS
  Room,          \* Room[f]: maxCapacity of the factory
  FrozenDays,    \* days after tomorrow that a run leaves alone
  MaxRequests,   \* bound: requests in progress at one time
  MaxWork, MaxIssues, MaxProposals,  \* bounds: rows of the tables
  Scenes         \* see Scene

Requests == 1 .. MaxRequests
Works == 1 .. MaxWork
Issues == 1 .. MaxIssues
Proposals == 1 .. MaxProposals

OrderStatus == {"PENDING", "SCHEDULED", "IN_PRODUCTION", "COMPLETED",
                "CANCELLED", "FAILED"}
WorkStatus == {"SCHEDULED", "IN_PRODUCTION", "COMPLETED", "CANCELLED"}
IssueStatus == {"OPEN", "IN_DISCUSSION", "RESOLVED", "CLOSED"}

VARIABLES
  ord,       \* the Order table; rev stands for updatedAt
  work,      \* the OrderAssignment table
  cap,       \* curCapacity of the rows of DailyCapacity
  issue,     \* the ConflictIssue table
  proposal,  \* the comments that carry a proposal: issue, kind, value,
             \* the updatedAt of the order that was expected, status
  today,     \* the real date
  sim,       \* the SystemState row: is simulation on, and its date
  lock,      \* who holds the schedule lock: a request, None, or Dead
  req,       \* what each request is doing
  scene,     \* what this behaviour is made of (never changes)
  hist       \* history: see below

schedule == <<work, cap>>
desk == <<issue, proposal>>
clock == <<today, sim>>
vars == <<ord, schedule, desk, clock, lock, req, scene, hist>>

OrderRow == [status : OrderStatus, qty : Nat, due : Int, fixed : BOOLEAN,
             prio : BOOLEAN, rev : Nat]
WorkRow == [order : Orders, factory : Factories, day : Calendar, qty : Nat \ {0},
            status : WorkStatus]
SnapshotRow == [start : Int, end : Int, due : Int, qty : Nat,
                splittable : BOOLEAN]
IssueRow == [order : Orders, status : IssueStatus,
             snap : SnapshotRow \cup {None}]
ProposalKinds == {"REDUCE_QUANTITY", "DELAY_DUE_DATE", "CANCEL"}
ProposalRow ==
  [issue : Issues, kind : ProposalKinds, value : Nat, expected : Nat,
   status : {"PENDING", "ACCEPTED", "REJECTED", "STALE"}]

ASSUME StoreAssumption ==
  /\ MaxRequests \in Nat \ {0} /\ MaxWork \in Nat \ {0}
  /\ MaxIssues \in Nat \ {0} /\ MaxProposals \in Nat \ {0}
  /\ FrozenDays \in Nat /\ Room \in [Factories -> Int]
  /\ None \notin OrderRow \cup WorkRow \cup IssueRow \cup ProposalRow

(* A scene: the tables it may start from, the operations it has, the       *)
(* values its requests carry, how many requests it has besides the ticks   *)
(* of the cron jobs, how many of them may die, and whether it is fair.     *)
Scene == DOMAIN Scenes
Has(op) == op \in Scenes[scene].ops
Values(field) == Scenes[scene].values[field]

(* hist is for the properties, and counts for the bounds: the requests     *)
(* made and the deaths so far; how often a proposal was written to its     *)
(* order, and the proposals of which two accepts were under way at once;   *)
(* the orders of which two requests were creating an issue at once, or     *)
(* whose ended issue came back; the orders edited by hand while they had   *)
(* work, or under the plan of a run; and whether real time was entered     *)
(* past the revert.                                                        *)

-------------------------------------------------------------------------------
Idle == [op |-> "idle"]
Doing(q, op, at) == req[q].op = op /\ req[q].at = at

(* Requests are interchangeable: a new one takes the first free place.     *)
Begin(q, r) ==
  /\ req[q] = Idle /\ \A p \in 1 .. q - 1 : req[p] # Idle
  /\ Has(r.op) /\ hist.made < Scenes[scene].requests
  /\ req' = [req EXCEPT ![q] = r]
Count(h) == [h EXCEPT !.made = @ + 1]
Goto(q, at) == req' = [req EXCEPT ![q].at = at]
End(q) == req' = [req EXCEPT ![q] = Idle]

Exists(o) == ord[o] # None
WorkOf(o) == {i \in Works : work[i] # None /\ work[i].order = o}
Cell(i) == <<work[i].factory, work[i].day>>
Live(o) == {i \in WorkOf(o) : work[i].status # "CANCELLED"}
WorkSum(I) == MapThenSumSet(LAMBDA i : work[i].qty, I)

(* Every write of a row moves its updatedAt on.                            *)
Rewritten(S, row) ==
  [o \in Orders |-> IF o \in S THEN [row[o] EXCEPT !.rev = @ + 1] ELSE ord[o]]
WithStatus(S, status) ==
  Rewritten(S, [o \in S |-> [ord[o] EXCEPT !.status = status]])

(* getTime: the simulated date in simulation mode, the real one otherwise. *)
Now == IF sim.on /\ sim.date # None THEN sim.date ELSE today

(* The lock of a process that died, until its lease is over.               *)
Dead == 0

(* Runs that have made their plan and not yet written it.                  *)
Planned == {p \in Requests : Doing(p, "run", "commit")
                             \/ Doing(p, "auto", "commit")}

(* What is written to these orders now is not in the plans that are under  *)
(* way.                                                                    *)
Astray(h, S) == [h EXCEPT !.astray = IF Planned # {} THEN @ \cup S ELSE @]

(* cancelOrdersAndReleaseCapacity: one transaction.                        *)
CancelTx(S) ==
  LET released == {i \in Works : /\ work[i] # None /\ work[i].order \in S
                                 /\ work[i].status = "SCHEDULED"}
      back(c) == WorkSum({i \in released : Cell(i) = c})
  IN  /\ cap' = [c \in Cells |->
           IF back(c) = 0 THEN cap[c]
           ELSE (IF cap[c] = None THEN Room[c[1]] ELSE cap[c]) + back(c)]
      /\ work' = [i \in Works |->
           IF i \in released THEN [work[i] EXCEPT !.status = "CANCELLED"]
           ELSE work[i]]
      /\ ord' = WithStatus(S, "CANCELLED")
===============================================================================
