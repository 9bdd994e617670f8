------------------------------- MODULE OrderLife ------------------------------
(***************************************************************************)
(* The life of orders: created, scheduled, discussed when they do not fit, *)
(* produced, simulated ahead and back, cancelled.  The services together,  *)
(* with the real date and with processes that die between two steps.       *)
(***************************************************************************)
EXTENDS OrderDesk, ProductionLine, Suggestions

(* The tables a scene starts from are ones that the schema admits, with    *)
(* its foreign keys.                                                       *)
ASSUME StartsAssumption ==
  \A k \in Scene : \A s \in Scenes[k].starts :
    /\ s.ord \in [Orders -> OrderRow \cup {None}]
    /\ s.work \in [Works -> WorkRow \cup {None}]
    /\ s.cap \in [Cells -> Int \cup {None}]
    /\ s.issue \in [Issues -> IssueRow \cup {None}]
    /\ \A i \in Works : s.work[i] # None => s.ord[s.work[i].order] # None
    /\ \A i \in Issues : s.issue[i] # None => s.ord[s.issue[i].order] # None

(* They have no history either (see hist): no issue was resolved without a *)
(* proposal or opened twice, no work was begun ahead of its day, and the   *)
(* orders that count as planned have been planned.                         *)
ASSUME FreshAssumption ==
  \A k \in Scene : \A s \in Scenes[k].starts :
    /\ \A i \in Issues : s.issue[i] # None => s.issue[i].status # "RESOLVED"
    /\ \A i, j \in Issues :
         /\ s.issue[i] # None /\ s.issue[i].status # "CLOSED"
         /\ s.issue[j] # None /\ s.issue[j].status # "CLOSED"
         /\ s.issue[i].order = s.issue[j].order
         => i = j
    /\ \A i \in Works : s.work[i] # None =>
         /\ s.work[i].status = "IN_PRODUCTION" => s.work[i].day <= 0
         /\ s.work[i].status = "COMPLETED" =>
              s.work[i].day + ProductionDays <= 0
    /\ \A o \in Orders :
         LET live == {i \in Works : /\ s.work[i] # None /\ s.work[i].order = o
                                   /\ s.work[i].status # "CANCELLED"}
         IN s.ord[o] # None /\ s.ord[o].status \in
              {"SCHEDULED", "IN_PRODUCTION", "COMPLETED"} =>
                /\ live # {}
                /\ MapThenSumSet(LAMBDA i : s.work[i].qty, live) = s.ord[o].qty

(* What requests carry is what their routes let through.                   *)
PatchFits(patch) ==
  /\ DOMAIN patch \subseteq {"qty", "due", "fixed", "prio", "status"}
  /\ "qty" \in DOMAIN patch => patch.qty \in Nat
  /\ "due" \in DOMAIN patch => patch.due \in Int
  /\ "fixed" \in DOMAIN patch => patch.fixed \in BOOLEAN
  /\ "prio" \in DOMAIN patch => patch.prio \in BOOLEAN
  /\ "status" \in DOMAIN patch => patch.status \in OrderStatus
Switches == [on : BOOLEAN \cup {None}, date : Int \cup {None}]
Configs == [policy : Policies, splittable : BOOLEAN, start : Int \cup {None},
            end : Int \cup {None}]

ASSUME ValuesAssumption ==
  \A k \in Scene :
    LET values == Scenes[k].values IN
    /\ values["proposals"] \subseteq [kind : ProposalKinds, value : Nat]
    /\ values["new"] \subseteq [qty : Nat, due : Int]
    /\ \A patch \in values["patches"] : PatchFits(patch)
    /\ values["runs"] \subseteq Configs
    /\ values["auto"] \subseteq BOOLEAN
    /\ values["switches"] \subseteq Switches

Init ==
  /\ scene \in Scene
  /\ \E s \in Scenes[scene].starts :
       ord = s.ord /\ work = s.work /\ cap = s.cap /\ issue = s.issue
  /\ proposal = [c \in Proposals |-> None]
  /\ today = 0
  /\ sim = [on |-> FALSE, date |-> None]
  /\ lock = None
  /\ req = [q \in Requests |-> Idle]
  /\ hist = [made |-> 0, deaths |-> 0, applied |-> [c \in Proposals |-> 0],
             overlapped |-> {}, crossed |-> {}, astray |-> {},
             skewed |-> FALSE]

NewDay ==
  /\ Has("time") /\ today < LastDay
  /\ today' = today + 1
  /\ UNCHANGED <<ord, schedule, desk, sim, lock, req, scene, hist>>

(* The process that serves q dies, or a statement throws and leaves the    *)
(* rest of the request undone; a lock that was held stays behind.          *)
Die(q) ==
  /\ Has("death") /\ hist.deaths < Scenes[scene].deaths /\ req[q] # Idle
  /\ hist' = [hist EXCEPT !.deaths = @ + 1]
  /\ lock' = IF lock = q THEN Dead ELSE lock
  /\ End(q)
  /\ UNCHANGED <<ord, schedule, desk, clock, scene>>

(* The lease of a dead holder runs out.                                    *)
Lapse ==
  /\ lock = Dead /\ lock' = None
  /\ UNCHANGED <<ord, schedule, desk, clock, req, scene, hist>>

Step(q) == IssueStep(q) \/ OrderStep(q) \/ ProductionStep(q)

Next ==
  \/ NewDay \/ Lapse
  \/ \E q \in Requests :
       IssueBegin(q) \/ OrderBegin(q) \/ ProductionBegin(q)
       \/ Step(q) \/ Die(q)

(* A request that has begun goes on, the daily job is started again and    *)
(* again, and a lease runs out: stated for the scenes the liveness is      *)
(* checked in.  RunPlan is enabled wherever a request is at it, so what is *)
(* said of it is its weak fairness.                                        *)
Fair == Scenes[scene].fair
AtPlan(q) == req[q].op \in {"run", "auto"} /\ req[q].at = "plan"
Onward(q) == Fair /\ ~AtPlan(q) /\ Step(q)
Fairness ==
  /\ \A q \in Requests : WF_vars(Onward(q)) /\ []<>(~Fair \/ ~AtPlan(q))
  /\ WF_vars(Fair /\ \E q \in Requests : DailyBegin(q))
  /\ WF_vars(Lapse)

-------------------------------------------------------------------------------
(* An order has one open issue at a time: the engine and the cancellation  *)
(* request both look for one before they create one.  Two of them at once, *)
(* an issue that is reopened, or a comment that sets an ended issue back   *)
(* in discussion, can make it two (conflict-issue-service.ts:666, :309).   *)
NoDuplicateOpenIssue ==
  \A o \in Orders \ hist.crossed :
    Cardinality({i \in Issues : /\ issue[i] # None /\ issue[i].order = o
                                /\ ~Ended(i)}) <= 1

(* A proposal changes its order once, even if the process dies between the *)
(* write of the order and that of the proposal and it is accepted again:   *)
(* the order has a new updatedAt by then.  Only two accepts that have both *)
(* read it before either wrote can do it twice                             *)
(* (conflict-issue-service.ts:365, :444).                                  *)
AppliedOnce ==
  \A c \in Proposals \ hist.overlapped : hist.applied[c] <= 1

(* An issue is RESOLVED only when one of its proposals has reached the     *)
(* order, wherever the acceptance was cut off                              *)
(* (conflict-issue-service.ts:444-495).                                    *)
ResolvedMeansApplied ==
  \A i \in Issues :
    issue[i] # None /\ issue[i].status = "RESOLVED" =>
      \E c \in Proposals : /\ proposal[c] # None /\ proposal[c].issue = i
                           /\ hist.applied[c] > 0

(* An order that counts as scheduled, in production or completed has work  *)
(* for exactly its quantity, through replanning, issues, the daily jobs    *)
(* and simulated time: what a run gives back in memory it also deletes.    *)
(* Not so an order edited by hand while it had work or under a plan, one   *)
(* that was planned on cancelled work, and one whose status a daily job or *)
(* a revert made up (core.ts:106, strategy.ts:262,                         *)
(* daily-execution-repository.ts:103, :237).                               *)
QuantityCovered ==
  \A o \in Orders \ hist.astray :
    Exists(o) /\ ord[o].status \in {"SCHEDULED", "IN_PRODUCTION", "COMPLETED"}
      => WorkSum(Live(o)) = ord[o].qty

(* The plans about to be written.                                          *)
Plans == {[in |-> req[q].in, plan |-> req[q].plan] : q \in Planned}
NewOn(p, c) == Amount({w \in p.plan.new : <<w.factory, w.day>> = c})
NewFor(p, o) == Amount({w \in p.plan.new : w.order = o})

(* A plan keeps the books: what is left of a cell is what there was less   *)
(* what the plan puts there, nothing is put where there is no room, and    *)
(* each order gets all that it misses, in its window, or nothing, whatever *)
(* was tried and rolled back on the way (strategy.ts:440).                 *)
PlanSound ==
  \A p \in Plans :
    /\ \A c \in Cells :
         LET before == Prepared(p.in)[c]
             room == IF before = None THEN Room[c[1]] ELSE before
         IN IF p.plan.left[c] = None THEN before = None /\ NewOn(p, c) = 0
            ELSE /\ p.plan.left[c] = room - NewOn(p, c)
                 /\ NewOn(p, c) > 0 => p.plan.left[c] >= 0
    /\ \A o \in DOMAIN p.in.rows :
         /\ NewFor(p, o) \in {0, Missing(p.in, o)}
         /\ NewFor(p, o) > 0 => ~Immutable(p.in.rows[o])
                                /\ p.plan.status[o] = "SCHEDULED"
         /\ p.plan.status[o] = "FAILED" =>
              NewFor(p, o) = 0 /\ Missing(p.in, o) > 0
    /\ \A w \in p.plan.new :
         w.day + ProductionDays + BufferDays <= p.in.rows[w.order].due
         /\ InRange(w.day, p.in)

(* No order fails because of one that counts less: among orders of one     *)
(* priority, and of one standing under PRIORITY_RETAIN, an order that      *)
(* fails would not fit either if all that the plan gives to orders that    *)
(* are due later, and to those of lower priority, were given back          *)
(* (strategy.ts:203).                                                      *)
RankRespected ==
  \A p \in Plans : \A o \in DOMAIN p.in.rows :
    p.plan.status[o] = "FAILED" /\ ~Immutable(p.in.rows[o]) =>
      LET row(a) == p.in.rows[a]
          retained(a) == /\ p.in.policy = "PRIORITY_RETAIN"
                         /\ row(a).status = "SCHEDULED"
          lower == {a \in DOMAIN p.in.rows :
                      \/ row(o).prio /\ ~row(a).prio
                      \/ /\ row(o).prio = row(a).prio
                         /\ \/ retained(o) /\ ~retained(a)
                            \/ /\ retained(o) = retained(a)
                               /\ row(a).due > row(o).due}
          given(c) == Amount({w \in p.plan.new : /\ w.order \in lower
                                                   /\ <<w.factory, w.day>> = c})
          window == Factories \X Window(p.in, o)
          free == [c \in window |->
                     Larger(0, given(c) + Free(p.in, p.plan.left, c))]
      IN IF p.in.splittable
         THEN MapThenSumSet(LAMBDA c : free[c], window) < Missing(p.in, o)
         ELSE \A c \in window : free[c] < Missing(p.in, o)

(* What the issue page suggests for an order that did not fit is true at   *)
(* that time: with the quantity, or by the due date, that it names, a run  *)
(* that fills gaps for this order alone schedules it, and no more and no   *)
(* earlier would do.  It promises too much in two cases, where it counts   *)
(* days that no run uses any more: the window of the failed run has begun  *)
(* since, or an order was overdue already and the scan begins in the past  *)
(* (conflict-issue-service.ts:834, :878).                                  *)
LoneRun(o, row, splittable) ==
  [rows |-> [p \in {o} |-> row], kept |-> [p \in {o} |-> {}],
   left |-> [c \in Cells |-> IF c[2] >= Now THEN cap[c] ELSE None],
   room |-> Room, policy |-> "GAP_FILLING", splittable |-> splittable,
   start |-> Earliest(Now), end |-> None]

SuggestionHolds ==
  \A i \in Issues :
    issue[i] # None /\ ~Ended(i) /\ issue[i].snap # None =>
      LET s == issue[i].snap
          o == issue[i].order
          fits(qty, due) ==
            PlanOf(LoneRun(o, [ord[o] EXCEPT !.status = "PENDING",
                                 !.fixed = FALSE, !.qty = qty, !.due = due],
                           s.splittable)).status[o] = "SCHEDULED"
          max == MaxFit(s)
          earliest == EarliestFit(s)
          current == s.start = Earliest(Now)
          overdue == s.end + 1 < s.start
      IN Exists(o) /\ s.start <= Earliest(Now) =>
           /\ current /\ max > 0 => fits(max, s.due)
           /\ current /\ ~overdue /\ earliest # None => fits(s.qty, earliest)
           /\ max < s.qty => ~fits(max + 1, s.due)
           /\ max < s.qty /\ earliest # None /\ earliest > s.due + 1 =>
                ~fits(s.qty, earliest - 1)

(* In real time nothing has been started or completed ahead of its day,    *)
(* whatever was simulated before: the revert takes all of it back.  A      *)
(* PATCH that switches off with a date goes past the revert, and a job     *)
(* that read a simulated date may come after it                            *)
(* (daily-execution-repository.ts:151, simulation/route.ts:97, cron.ts:96).*)
NothingRunsEarly ==
  ~sim.on /\ ~hist.skewed =>
    \A i \in Works : work[i] # None =>
      /\ work[i].status = "IN_PRODUCTION" => work[i].day <= today
      /\ work[i].status = "COMPLETED" => Completion(i) <= today

(* Work whose time has come is completed, or cancelled, in the end: no     *)
(* held lock, overlapping tick or dying job keeps it from that as long as  *)
(* the cron process goes on and real time is on (daily-execution.ts:22,    *)
(* cron.ts:69).                                                            *)
Due(i) == /\ work[i] # None /\ work[i].status \in {"SCHEDULED", "IN_PRODUCTION"}
          /\ Completion(i) <= today
WorkGetsDone ==
  \A i \in Works : (Fair /\ Due(i)) ~> (~Due(i) \/ sim.on)

(* COMPLETED and CANCELLED are the end of an order                         *)
(* (app/api/orders/README.md:56).                                          *)
EndStatesFinal ==
  [][\A o \in Orders :
       Exists(o) /\ ord[o].status \in {"COMPLETED", "CANCELLED"} =>
         ord'[o].status = ord[o].status]_vars
===============================================================================
