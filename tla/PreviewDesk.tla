------------------------------ MODULE PreviewDesk -----------------------------
(***************************************************************************)
(* The engine as a planner uses it from the page: a preview is asked for,  *)
(* shown over the calendar and applied, or the engine is run at once       *)
(* (page.tsx, app/api/schedule/{preview,apply,run}/route.ts).  The plan is *)
(* that of GreedyStrategy.tla; the other planners go on meanwhile.         *)
(***************************************************************************)
EXTENDS PlanningBoard

VARIABLES
  ask,     \* what each page has asked of the engine: a preview, and an apply
           \* or a run
  stored   \* the previews that Redis keeps

desk == <<ask, stored>>

Strategy == INSTANCE GreedyStrategy WITH LastDay <- Max(Days),
                                         ProductionDays <- Margin,
                                         BufferDays <- 0

(* The engine holds the lock in a name of its own, beside a save.          *)
Engine(p) == -p

(* What the page waits for: an apply, a run or nothing.                    *)
NoAct == [op |-> "nothing", at |-> "idle"]
Waits(p) == ask[p].act.op

OwnCells(t) == {c \in Cells : FactoryType[c[1]] = t}
Total(A) == MapThenSumSet(LAMBDA a : rows.piece[a].qty, A)
PiecesOf(o) == {a \in Pieces : rows.piece[a] # None /\ rows.piece[a].order = o}

-------------------------------------------------------------------------------
(* prepareSchedulingData for a type: what is scheduled, and what waits if  *)
(* it is wanted.  The work that is given back leaves the capacity of the   *)
(* factories of the type; those of other types are not read.               *)
Prepared(t, policy, wanted) ==
  LET start == Scenes[scene].start
      read == {o \in Orders : /\ OrderType[o] = t
                              /\ \/ rows.status[o] = "SCHEDULED"
                                 \/ rows.status[o] = "PENDING" /\ o \in wanted}
      freed(o) == {a \in PiecesOf(o) :
                     /\ policy # "GAP_FILLING" /\ ~rows.fixed[o]
                     /\ rows.piece[a].cell[2] >= start}
      back(c) == Total({a \in UNION {freed(o) : o \in read} :
                          rows.piece[a].cell = c})
  IN [rows |-> [o \in read |->
                  [status |-> rows.status[o], qty |-> Quantity[o],
                   due |-> Due[o], fixed |-> rows.fixed[o],
                   prio |-> rows.prio[o]]],
      kept |-> [o \in read |->
                  {[id |-> a, factory |-> rows.piece[a].cell[1],
                    day |-> rows.piece[a].cell[2], qty |-> rows.piece[a].qty] :
                      a \in PiecesOf(o) \ freed(o)}],
      left |-> [c \in Cells |-> IF c \in OwnCells(t) THEN room[c] + back(c)
                                ELSE 0],
      room |-> [f \in Factories |-> IF FactoryType[f] = t THEN MaxCapacity[f]
                                    ELSE 0],
      read |-> room, policy |-> policy, splittable |-> TRUE,
      start |-> start, end |-> None]

(* What is kept of a plan, in Redis or by the request.                     *)
Planned(p, t, in) == [by |-> p, type |-> t, in |-> in,
                      plan |-> Strategy!PlanOf(in), marks |-> hist.marks]

-------------------------------------------------------------------------------
(* handlePreviewSchedule, for all that is selected or for nothing that     *)
(* waits.  What the page shows underneath is remembered by the handler.    *)
PreviewAsk(p, policy, selected) ==
  /\ May(p, "preview") /\ ask[p].preview = None /\ ~board[p].edit
  /\ Waits(p) # "run"
  /\ hist.asks[p] < Scenes[scene].asks[p]
  /\ ask' = [ask EXCEPT ![p].preview =
       [at |-> "read", type |-> board[p].tab, policy |-> policy,
        wanted |-> IF selected
                   THEN {o \in Waiting(p) : OrderType[o] = board[p].tab}
                   ELSE {},
        base |-> board[p].data]]
  /\ hist' = [hist EXCEPT !.asks[p] = @ + 1]
  /\ UNCHANGED <<rows, room, version, lock, fetch, board, call, scene, stored>>

(* The tables are read, without a lock, and the plan is made.              *)
PreviewRead(p) ==
  LET r == ask[p].preview IN
  /\ r # None /\ r.at = "read"
  /\ ask' = [ask EXCEPT ![p].preview =
       [at |-> "version", base |-> r.base,
        plan |-> Planned(p, r.type, Prepared(r.type, r.policy, r.wanted))]]
  /\ UNCHANGED <<vars, stored>>

(* The version is read after the tables, and the plan kept under it.  Two  *)
(* previews that are alike count as one.                                   *)
PreviewStore(p) ==
  LET r == ask[p].preview
      kept == [version |-> version[r.plan.type], plan |-> r.plan,
               torn |-> hist.marks[r.plan.type] # r.plan.marks[r.plan.type]]
  IN
  /\ r # None /\ r.at = "version"
  /\ stored' = stored \cup {kept}
  /\ ask' = [ask EXCEPT ![p].preview =
       [at |-> "answer", base |-> r.base, kept |-> kept]]
  /\ UNCHANGED vars

(* convertNewScheduleToPreview: the orders of the plan with the work that  *)
(* is kept and the new; the rows of the page for every other order.        *)
Carried(base, orders) ==
  {a \in Pieces : /\ base.rows.piece[a] # None
                  /\ base.rows.piece[a].order \notin orders}

Chip(id, o, c, n) == [id |-> id, order |-> o, cell |-> c, qty |-> n]

ChipsOf(p, base, plan) ==
  LET orders == DOMAIN plan.in.rows IN
  UNION {{Chip(w.id, o, <<w.factory, w.day>>, w.qty) : w \in plan.in.kept[o]} :
           o \in orders}
  \cup {Chip(None, w.order, <<w.factory, w.day>>, w.qty) : w \in plan.plan.new}
  \cup {Chip(a, base.rows.piece[a].order, base.rows.piece[a].cell,
             base.rows.piece[a].qty) :
          a \in Carried(base, orders) \cap Shown(p, base.rows)}

InCell(chips, c) ==
  MapThenSumSet(LAMBDA w : w.qty, {w \in chips : w.cell = c})

(* The orders that would be moved: their first day, before and after.      *)
FirstDays(cells) == IF cells = {} THEN None ELSE Min({c[2] : c \in cells})

MovedOrders(p, base, chips, orders) ==
  {o \in orders :
     FirstDays({base.rows.piece[a].cell :
                  a \in {b \in Shown(p, base.rows) :
                           base.rows.piece[b].order = o}})
       # FirstDays({w.cell : w \in {x \in chips : x.order = o}})}

Preview(p, base, kept) ==
  LET plan == kept.plan
      chips == ChipsOf(p, base, plan)
      orders == DOMAIN plan.in.rows
  IN [kept |-> kept, chips |-> chips,
      moved |-> MovedOrders(p, base, chips, orders),
      failed |-> {o \in orders : plan.plan.status[o] = "FAILED"},
      aged |-> base.marks[plan.type] # plan.marks[plan.type]]

(* The answer is shown, whatever the page shows by then.                   *)
PreviewAnswer(p) ==
  LET r == ask[p].preview IN
  /\ r # None /\ r.at = "answer"
  /\ board' = [board EXCEPT ![p].shown = Preview(p, r.base, r.kept)]
  /\ ask' = [ask EXCEPT ![p].preview = None]
  /\ UNCHANGED <<rows, room, version, lock, fetch, call, scene, hist, stored>>

(* handleDiscardPreview, and handleScheduleTypeChange of a SUPERADMIN.     *)
DiscardPreview(p) ==
  /\ board[p].shown # None
  /\ Waits(p) # "apply"
  /\ board' = [board EXCEPT ![p].shown = None]
  /\ UNCHANGED <<rows, room, version, lock, fetch, call, scene, hist, desk>>

(* Mutant: the preview stays when another type is selected.                *)
AfterSwitchKept(b, t) == [b EXCEPT !.tab = t]

AfterSwitch(b, t) == [b EXCEPT !.tab = t, !.shown = None]

SwitchTab(p, t) ==
  /\ Group(p) = None /\ t # board[p].tab /\ May(p, "switch")
  /\ board' = [board EXCEPT ![p] = AfterSwitch(@, t)]
  /\ UNCHANGED <<rows, room, version, lock, fetch, call, scene, hist, desk>>

-------------------------------------------------------------------------------
(* handleApplyPreview and handleRunSchedule.  Bound: a page waits for one  *)
(* of them at a time.                                                      *)
ApplyAsk(p) ==
  /\ May(p, "apply") /\ board[p].shown # None
  /\ Waits(p) = "nothing" /\ ~board[p].edit
  /\ ask' = [ask EXCEPT ![p].act = [op |-> "apply", at |-> "read",
                                    shown |-> board[p].shown]]
  /\ UNCHANGED <<vars, stored>>

RunAsk(p, policy) ==
  /\ May(p, "run") /\ ask[p].preview = None /\ Waits(p) = "nothing"
  /\ ~board[p].edit /\ hist.asks[p] < Scenes[scene].asks[p]
  /\ ask' = [ask EXCEPT ![p].act = [op |-> "run", at |-> "lock",
                                    type |-> board[p].tab, policy |-> policy]]
  /\ hist' = [hist EXCEPT !.asks[p] = @ + 1]
  /\ UNCHANGED <<rows, room, version, lock, fetch, board, call, scene, stored>>

(* 404 and 409 of an apply clear the preview; 409 of a run is only shown.  *)
TurnedDown(p) ==
  /\ ask' = [ask EXCEPT ![p].act = NoAct]
  /\ board' = [board EXCEPT ![p].shown = IF ask[p].act.op = "apply" THEN None
                                         ELSE @]

ApplyRead(p) ==
  LET r == ask[p].act IN
  /\ r.op = "apply" /\ r.at = "read"
  /\ IF r.shown.kept \in stored
     THEN ask' = [ask EXCEPT ![p].act.at = "lock"] /\ UNCHANGED board
     ELSE TurnedDown(p)
  /\ UNCHANGED <<rows, room, version, lock, fetch, call, scene, hist, stored>>

TypeAsked(r) == IF r.op = "apply" THEN r.shown.kept.plan.type ELSE r.type

(* withScheduleLock: who does not get the lock is refused.  An apply       *)
(* compares the version under it.                                          *)
(* Mutant: the version is not compared.                                    *)
CurrentAlways(kept) == TRUE

Current(kept) == kept.version = version[kept.plan.type]

EngineLock(p) ==
  LET r == ask[p].act
      t == TypeAsked(r)
  IN
  /\ r.at = "lock"
  /\ IF lock[t] # None \/ (r.op = "apply" /\ ~Current(r.shown.kept))
     THEN TurnedDown(p) /\ UNCHANGED lock
     ELSE /\ lock' = [lock EXCEPT ![t] = Engine(p)]
          /\ ask' = [ask EXCEPT ![p].act = [r EXCEPT !.at = "commit"]]
          /\ UNCHANGED board
  /\ UNCHANGED <<rows, room, version, fetch, call, scene, hist, stored>>

(* _applyScheduleTransaction with a plan: what may be rescheduled is       *)
(* deleted as the tables are now, the capacities that the plan has changed *)
(* get its values.                                                         *)
Deleted(plan) ==
  {a \in Pieces :
     /\ rows.piece[a] # None /\ plan.in.policy # "GAP_FILLING"
     /\ rows.piece[a].order \in DOMAIN plan.in.rows
     /\ ~plan.in.rows[rows.piece[a].order].fixed
     /\ rows.piece[a].cell[2] >= plan.in.start}

Changes(plan) == {c \in OwnCells(plan.type) :
                    plan.plan.left[c] # plan.in.read[c]}

Written(plan) ==
  LET slots == {a \in Pieces : rows.piece[a] = None} \cup Deleted(plan)
      before(v, w) == \/ v.order < w.order
                      \/ v.order = w.order /\ v.day < w.day
                      \/ v.order = w.order /\ v.day = w.day
                         /\ v.factory < w.factory
      nth(d) == Cardinality({e \in plan.plan.new : before(e, d)})
      at(a) == {d \in plan.plan.new :
                  a \in slots /\ nth(d) = Cardinality({b \in slots : b < a})}
      orders == DOMAIN plan.in.rows
  IN [rows EXCEPT
        !.piece = [a \in Pieces |->
           IF at(a) # {} THEN LET d == CHOOSE d \in at(a) : TRUE IN
             [order |-> d.order, cell |-> <<d.factory, d.day>>, qty |-> d.qty]
           ELSE IF a \in Deleted(plan) THEN None ELSE @[a]],
        !.status = [o \in Orders |-> IF o \in orders THEN plan.plan.status[o]
                                     ELSE @[o]]]

(* The work of the type that stands in factories of another type is        *)
(* deleted too, without their lock and without their capacity.             *)
Elsewhere(plan) ==
  {c \in Cells : \E a \in Deleted(plan) : rows.piece[a].cell = c}
    \ OwnCells(plan.type)

(* The cells of the type that a commit writes: it sets their capacity,     *)
(* deletes work in them or puts work there.                                *)
WrittenCells(plan) ==
  {c \in OwnCells(plan.type) :
     \/ c \in Changes(plan)
     \/ \E a \in Deleted(plan) : rows.piece[a].cell = c
     \/ \E d \in plan.plan.new : <<d.factory, d.day>> = c}

EngineCommit(p) ==
  LET r == ask[p].act
      t == TypeAsked(r)
      plan == IF r.op = "apply" THEN r.shown.kept.plan
              ELSE Planned(p, t, Prepared(t, r.policy, Orders))
      stale == plan.marks[t] # hist.marks[t]
      counted == r.op = "apply" \/ Changes(plan) # {}
  IN
  /\ r.at = "commit"
  /\ Cardinality(plan.plan.new) <=
       Cardinality({a \in Pieces : rows.piece[a] = None} \cup Deleted(plan))
  /\ rows' = Written(plan)
  /\ room' = [c \in Cells |-> IF c \in Changes(plan) THEN plan.plan.left[c]
                              ELSE room[c]]
  /\ ask' = [ask EXCEPT ![p].act =
       [op |-> r.op, at |-> "bump", type |-> t, counted |-> counted,
        changed |-> Changes(plan) # {},
        kept |-> IF r.op = "apply" THEN {r.shown.kept} ELSE {}]]
  /\ hist' = [Marked(hist, {t}, 1) EXCEPT
       !.astray = @ \cup Elsewhere(plan)
                    \cup (IF stale THEN WrittenCells(plan) ELSE {}),
       !.silent = IF counted THEN @ ELSE @ \cup {t}]
  /\ UNCHANGED <<version, lock, fetch, board, call, scene, stored>>

(* The version of the type goes up if capacities were changed, and once    *)
(* more after an apply; the preview is forgotten, the lock freed.  The     *)
(* answer clears what the page shows, unless it gets lost.                 *)
EngineBump(p, lost) ==
  LET r == ask[p].act
      n == (IF r.changed THEN 1 ELSE 0) + (IF r.op = "apply" THEN 1 ELSE 0)
  IN
  /\ r.at = "bump"
  /\ version' = [version EXCEPT ![r.type] = @ + n]
  /\ stored' = stored \ r.kept
  /\ lock' = [lock EXCEPT ![r.type] = None]
  /\ ask' = [ask EXCEPT ![p].act = NoAct]
  /\ board' = [board EXCEPT ![p].shown = IF lost THEN @ ELSE None]
  /\ hist' = IF n > 0 THEN Marked(hist, {r.type}, 1) ELSE hist
  /\ UNCHANGED <<rows, room, fetch, call, scene>>

(* A preview is kept for half an hour.                                     *)
PreviewExpire ==
  \E kept \in stored :
    /\ May(kept.plan.by, "expire")
    /\ stored' = stored \ {kept}
    /\ UNCHANGED <<vars, ask>>

DeskStep(p) ==
  \/ \E policy \in Scenes[scene].policies :
       RunAsk(p, policy) \/ \E selected \in BOOLEAN : PreviewAsk(p, policy, selected)
  \/ PreviewRead(p) \/ PreviewStore(p) \/ PreviewAnswer(p) \/ DiscardPreview(p)
  \/ \E t \in Types : SwitchTab(p, t)
  \/ ApplyAsk(p) \/ ApplyRead(p) \/ EngineLock(p) \/ EngineCommit(p)
  \/ \E lost \in BOOLEAN : EngineBump(p, lost)
===============================================================================
