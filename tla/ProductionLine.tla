---------------------------- MODULE ProductionLine ----------------------------
(***************************************************************************)
(* What moves the orders along: the engine (modules/schedule/core.ts and   *)
(* run.ts, with the strategy of GreedyStrategy.tla), the automatic runs    *)
(* and the daily execution of the cron process (scripts/cron.ts,           *)
(* auto-scheduler.ts, daily-execution.ts), and the switches between real   *)
(* and simulated time (app/api/system/simulation/route.ts).                *)
(***************************************************************************)
EXTENDS IssueDesk

Completion(i) == work[i].day + ProductionDays
Earliest(date) == date + 1 + FrozenDays

InRange(day, cfg) == day >= cfg.start /\ (cfg.end # None => day <= cfg.end)

(* prepareSchedulingData.  All the work of an order is read, whatever its  *)
(* status; a run that is not GAP_FILLING gives back the SCHEDULED work of  *)
(* mutable orders in its range, and keeps the rest.                        *)
Prepare(date, asked) ==
  LET cfg == [asked EXCEPT !.start = IF @ = None THEN Earliest(date)
                                     ELSE Larger(@, Earliest(date))]
      fetched == {o \in Orders : Exists(o) /\ ord[o].status \in
                    {"PENDING", "SCHEDULED", "IN_PRODUCTION"}}
      freed == {i \in Works :
                  /\ cfg.policy # "GAP_FILLING"
                  /\ work[i] # None /\ work[i].order \in fetched
                  /\ ~Immutable(ord[work[i].order])
                  /\ work[i].status = "SCHEDULED"
                  /\ InRange(work[i].day, cfg)}
      read == [c \in Cells |-> IF c[2] >= date THEN cap[c] ELSE None]
  IN [rows |-> [o \in fetched |-> ord[o]],
      kept |-> [o \in fetched |->
                  {[id |-> i, factory |-> work[i].factory, day |-> work[i].day,
                    qty |-> work[i].qty] : i \in WorkOf(o) \ freed}],
      left |-> [c \in Cells |-> IF read[c] = None THEN None
                  ELSE read[c] + WorkSum({i \in freed : Cell(i) = c})],
      read |-> read,
      room |-> Room, policy |-> cfg.policy, splittable |-> cfg.splittable,
      start |-> cfg.start, end |-> cfg.end]

(* runSchedule: the date is known before the lock is asked for; under it   *)
(* the tables are read and the strategy executed.                          *)
RunBegin(q, cfg) ==
  /\ Begin(q, [op |-> "run", at |-> "plan", date |-> Now, cfg |-> cfg])
  /\ hist' = Count(hist)
  /\ UNCHANGED <<ord, schedule, desk, clock, lock, scene>>

(* The plan rests on cancelled work for these orders.                      *)
CountsCancelled(in) ==
  {o \in DOMAIN in.rows : \E w \in in.kept[o] : work[w.id].status = "CANCELLED"}

RunPlan(q) ==
  LET r == req[q]
      in == Prepare(r.date, r.cfg)
  IN
  /\ r.op \in {"run", "auto"} /\ r.at = "plan"
  /\ IF lock = None
     THEN /\ lock' = q
          /\ req' = [req EXCEPT ![q] = [op |-> r.op, at |-> "commit",
                                        in |-> in, plan |-> PlanOf(in)]]
          /\ hist' = [hist EXCEPT !.astray = @ \cup CountsCancelled(in)]
     ELSE End(q) /\ UNCHANGED <<lock, hist>>
  /\ UNCHANGED <<ord, schedule, desk, clock, scene>>

(* deleteScheduledAssignments: what the commit deletes.                    *)
(* Mutant: the first day of the range is spared.                           *)
DeletableAfter(in, mutable) ==
  {i \in Works : /\ work[i] # None /\ work[i].order \in mutable
                 /\ work[i].status = "SCHEDULED"
                 /\ work[i].day > in.start /\ InRange(work[i].day, in)}

Deletable(in, mutable) ==
  {i \in Works : /\ work[i] # None /\ work[i].order \in mutable
                 /\ work[i].status = "SCHEDULED" /\ InRange(work[i].day, in)}

(* Rows are created in order: the new ones go to the first free places.    *)
WorkWithout(deleted, new) ==
  LET free == {i \in Works : work[i] = None} \cup deleted
      before(a, b) == \/ a.order < b.order
                      \/ a.order = b.order /\ a.day < b.day
                      \/ a.order = b.order /\ a.day = b.day
                         /\ a.factory < b.factory
      nth(d) == Cardinality({e \in new : before(e, d)})
      at(i) == {d \in new : nth(d) = Cardinality({j \in free : j < i})}
  IN [i \in Works |->
        IF i \in free /\ at(i) # {} THEN LET d == CHOOSE d \in at(i) : TRUE IN
             [order |-> d.order, factory |-> d.factory, day |-> d.day,
              qty |-> d.qty, status |-> "SCHEDULED"]
        ELSE IF i \in deleted THEN None ELSE work[i]]

(* _applyScheduleTransaction.  Rows of capacity that are missing are       *)
(* created, the others get the absolute value of the plan if it has        *)
(* changed; a failed order that has no open issue gets one.  The rows have *)
(* the columns and keys that the schema asks for, in the days of Calendar. *)
RunCommit(q) ==
  LET in == req[q].in
      plan == req[q].plan
      orders(status) == {o \in DOMAIN in.rows : plan.status[o] = status}
      mutable == {o \in DOMAIN in.rows :
                    ~in.rows[o].fixed /\ plan.status[o] \notin
                      {"IN_PRODUCTION", "COMPLETED"}}
      deleted == IF in.policy = "GAP_FILLING" THEN {}
                 ELSE Deletable(in, mutable)
      settled == {o \in orders("SCHEDULED") \cup orders("FAILED") :
                    ord[o].status \notin {"COMPLETED", "CANCELLED"}}
      issueless == {o \in orders("FAILED") : OpenIssues(o) = {}}
  IN
  /\ req[q].op \in {"run", "auto"} /\ req[q].at = "commit"
  /\ Cardinality(plan.new) <=
       Cardinality({i \in Works : work[i] = None} \cup deleted)
  /\ Cardinality(issueless) <= Cardinality(FreeIssues)
  /\ plan.new \subseteq [order : {o \in Orders : Exists(o)},
                         factory : Factories, day : Calendar, qty : Int]
  /\ work' = WorkWithout(deleted, plan.new)
  /\ ord' = Rewritten(settled, [o \in settled |->
                                 [ord[o] EXCEPT !.status = plan.status[o]]])
  /\ cap' = [c \in Cells |->
       IF plan.left[c] = None THEN cap[c]
       ELSE IF in.read[c] = None
       THEN (IF cap[c] = None THEN plan.left[c] ELSE cap[c])
       ELSE IF plan.left[c] # in.read[c] THEN plan.left[c] ELSE cap[c]]
  /\ issue' = IssuesFor(issueless, [o \in issueless |->
                                    Snapshot(in, ord[o])])
  /\ hist' = Crossed(hist, {o \in issueless : Flagging(o)})
  /\ lock' = None
  /\ End(q)
  /\ UNCHANGED <<proposal, clock, scene>>

-------------------------------------------------------------------------------
(* The cron process: a tick does nothing while the job it would start is   *)
(* running, or in simulation mode; the date is read after the mode.        *)
CronBegin(q, job) ==
  /\ Has(job) /\ ~sim.on
  /\ \A p \in Requests : req[p].op # job
  /\ req[q] = Idle /\ \A p \in 1 .. q - 1 : req[p] # Idle
  /\ req' = [req EXCEPT ![q] = [op |-> job, at |-> "date"]]

(* triggerAutoSchedule fills the gaps from the next day on.                *)
AutoBegin(q) ==
  /\ CronBegin(q, "auto")
  /\ hist.made < Scenes[scene].requests
  /\ hist' = Count(hist)
  /\ UNCHANGED <<ord, schedule, desk, clock, lock, scene>>

AutoDate(q) ==
  /\ Doing(q, "auto", "date")
  /\ \E splittable \in Values("auto") :
       IF \E o \in Orders : Exists(o) /\ ord[o].status = "PENDING"
       THEN req' = [req EXCEPT ![q] =
              [op |-> "auto", at |-> "plan", date |-> Now,
               cfg |-> [policy |-> "GAP_FILLING", splittable |-> splittable,
                        start |-> Now + 1, end |-> None]]]
       ELSE End(q)
  /\ UNCHANGED <<ord, schedule, desk, clock, lock, scene, hist>>

DailyBegin(q) ==
  /\ CronBegin(q, "daily")
  /\ UNCHANGED <<ord, schedule, desk, clock, lock, scene, hist>>

DailyDate(q) ==
  /\ Doing(q, "daily", "date")
  /\ req' = [req EXCEPT ![q] = [op |-> "daily", at |-> "advance",
                                date |-> Now, patch |-> None]]
  /\ UNCHANGED <<ord, schedule, desk, clock, lock, scene, hist>>

-------------------------------------------------------------------------------
(* upsertSystemState                                                       *)
Merged(patch) ==
  IF patch = None THEN sim
  ELSE [on |-> IF patch.on = None THEN sim.on ELSE patch.on,
        date |-> IF patch.date = None THEN sim.date ELSE patch.date]

(* PATCH of the simulation: what is to be done is decided on one read of   *)
(* the state.  Switching on without a date starts from the real one; a     *)
(* date, given or filled in, moves the work ahead if it is later than the  *)
(* one stored; switching off without a date takes it back.                 *)
PatchRead(q, asked) ==
  LET on == IF asked.on = None THEN sim.on ELSE asked.on
      date == IF asked.date # None THEN asked.date
              ELSE IF on /\ sim.date = None THEN today ELSE None
      at == IF date # None
            THEN IF sim.date = None \/ date > sim.date THEN "advance"
                 ELSE "plain"
            ELSE IF asked.on = FALSE /\ sim.on THEN "revert" ELSE "plain"
  IN
  /\ Begin(q, [op |-> "patch", at |-> at,
               date |-> IF at = "revert" THEN today ELSE date,
               patch |-> [on |-> asked.on, date |-> date]])
  /\ hist' = Count(hist)
  /\ UNCHANGED <<ord, schedule, desk, clock, lock, scene>>

PatchPlain(q) ==
  /\ Doing(q, "patch", "plain")
  /\ sim' = Merged(req[q].patch)
  /\ hist' = [hist EXCEPT !.skewed = @ \/ (sim.on /\ ~sim'.on)]
  /\ End(q)
  /\ UNCHANGED <<ord, schedule, desk, today, lock, scene>>

(* executeDailyStateAdvancement: first the work, then its orders, by all   *)
(* the work they have.                                                     *)
(* Mutant: only work that was seen in production is completed.             *)
CompletingStarted(date) ==
  {i \in Works : work[i] # None /\ Completion(i) <= date
                 /\ work[i].status = "IN_PRODUCTION"}

Completing(date) ==
  {i \in Works : work[i] # None /\ Completion(i) <= date
                 /\ work[i].status \in {"IN_PRODUCTION", "SCHEDULED"}}

Starting(date) ==
  {i \in Works : work[i] # None /\ work[i].status = "SCHEDULED"
                 /\ work[i].day <= date /\ date < Completion(i)}

Advanced(date) ==
  [i \in Works |->
     CASE i \in Completing(date) -> [work[i] EXCEPT !.status = "COMPLETED"]
       [] i \in Starting(date) -> [work[i] EXCEPT !.status = "IN_PRODUCTION"]
       [] OTHER -> work[i]]

Touched(I) == {work[i].order : i \in I}
AllDone(w, o) == \A i \in WorkOf(o) : w[i].status = "COMPLETED"
AnyStarted(w, o) ==
  \E i \in WorkOf(o) : w[i].status \in {"IN_PRODUCTION", "COMPLETED"}

(* advanceOrderStatuses: with nothing to advance the patch is written      *)
(* without the lock, and a lock that is held refuses all of it.            *)
Advance(q) ==
  LET date == req[q].date
      moved == Completing(date) \cup Starting(date)
      done == {o \in Touched(moved) : /\ AllDone(Advanced(date), o)
                                      /\ ord[o].status # "COMPLETED"}
      begun == {o \in Touched(moved) \ done :
                  /\ AnyStarted(Advanced(date), o)
                  /\ ord[o].status = "SCHEDULED"}
  IN
  /\ req[q].op \in {"daily", "patch"} /\ req[q].at = "advance"
  /\ IF moved # {} /\ lock # None
     THEN UNCHANGED <<ord, work, sim, hist>>
     ELSE /\ sim' = Merged(req[q].patch)
          /\ work' = Advanced(date)
          /\ ord' = Rewritten(done \cup begun, [o \in done \cup begun |->
                      [ord[o] EXCEPT !.status =
                         IF o \in done THEN "COMPLETED" ELSE "IN_PRODUCTION"]])
          /\ hist' = [hist EXCEPT
               !.astray = @ \cup {o \in done : ord[o].status \notin
                                    {"SCHEDULED", "IN_PRODUCTION"}},
               !.skewed = @ \/ (~sim'.on /\ (sim.on \/ date > today))]
  /\ End(q)
  /\ UNCHANGED <<cap, desk, today, lock, scene>>

(* revertSimulationStatuses, with the real date and without the lock.      *)
(* Mutant: work that was completed ahead of time is left completed.        *)
RevertedStarted(date) ==
  [i \in Works |->
     IF work[i] = None THEN None
     ELSE IF work[i].status = "IN_PRODUCTION" /\ work[i].day > date
     THEN [work[i] EXCEPT !.status = "SCHEDULED"]
     ELSE work[i]]

Reverted(date) ==
  [i \in Works |->
     IF work[i] = None \/ work[i].status \notin {"IN_PRODUCTION", "COMPLETED"}
     THEN work[i]
     ELSE IF work[i].day > date
     THEN [work[i] EXCEPT !.status = "SCHEDULED"]
     ELSE IF work[i].status = "COMPLETED" /\ Completion(i) > date
     THEN [work[i] EXCEPT !.status = "IN_PRODUCTION"]
     ELSE work[i]]

PatchRevert(q) ==
  LET date == req[q].date
      back == Reverted(date)
      touched == Touched({i \in Works : back[i] # work[i]})
      target(o) == IF AllDone(back, o) THEN "COMPLETED"
                   ELSE IF AnyStarted(back, o) THEN "IN_PRODUCTION"
                   ELSE "SCHEDULED"
      changed == {o \in touched : ord[o].status # target(o)}
      odd == {o \in touched : ord[o].status \notin
                {"SCHEDULED", "IN_PRODUCTION", "COMPLETED"}}
  IN
  /\ Doing(q, "patch", "revert")
  /\ sim' = Merged(req[q].patch)
  /\ work' = back
  /\ ord' = Rewritten(changed, [o \in changed |->
                                 [ord[o] EXCEPT !.status = target(o)]])
  /\ hist' = Astray([hist EXCEPT !.astray = @ \cup odd], touched)
  /\ End(q)
  /\ UNCHANGED <<cap, desk, today, lock, scene>>

-------------------------------------------------------------------------------
ProductionStep(q) ==
  \/ RunPlan(q) \/ RunCommit(q)
  \/ AutoDate(q) \/ DailyDate(q)
  \/ PatchPlain(q) \/ Advance(q) \/ PatchRevert(q)

ProductionBegin(q) ==
  \/ \E cfg \in Values("runs") : RunBegin(q, cfg)
  \/ AutoBegin(q) \/ DailyBegin(q)
  \/ \E patch \in Values("switches") : PatchRead(q, patch)
===============================================================================
