---------------------------- MODULE GreedyStrategy ----------------------------
(***************************************************************************)
(* greedyBestFitStrategy of modules/schedule/strategy.ts: what one run     *)
(* makes of the orders, the work and the capacities it has read.           *)
(*                                                                         *)
(* A cell is a factory and a day.  left[c] is curCapacity of the cell, or  *)
(* None when the cell has no row; then the factory has all of its room.    *)
(***************************************************************************)
EXTENDS Integers, FiniteSetsExt, SequencesExt

CONSTANTS
  Orders,          \* numbered in the order of createdAt
  Factories,       \* numbered in the order of their ids
  LastDay,         \* bound: the last day of the calendar
  ProductionDays,  \* from the start of a piece of work to its completion
  BufferDays,      \* kept free before the due date
  None             \* null

Calendar == 0 .. LastDay
Cells == Factories \X Calendar
Policies == {"GAP_FILLING", "GLOBAL_OPTIMIZE", "PRIORITY_RETAIN"}

ASSUME StrategyAssumption ==
  /\ Orders \subseteq Nat /\ IsFiniteSet(Orders)
  /\ Factories \subseteq Nat /\ IsFiniteSet(Factories)
  /\ LastDay \in Nat /\ ProductionDays \in Nat /\ BufferDays \in Nat
  /\ None \notin Int

Larger(a, b) == IF a >= b THEN a ELSE b
Smaller(a, b) == IF a <= b THEN a ELSE b
Amount(W) == MapThenSumSet(LAMBDA w : w.qty, W)

(* What a run reads: the rows of the orders, the work of each that is kept *)
(* in memory, the capacities, the room of the factories, its settings.     *)
(* in == [rows, kept, left, room, policy, splittable, start, end]          *)
Immutable(row) == row.fixed \/ row.status \in {"IN_PRODUCTION", "COMPLETED"}

(* The order in which the mutable orders are placed.                       *)
(* Mutant: the quantity is compared before the due date.                   *)
RanksQuantityFirst(in, a, b) ==
  LET key(o) == LET r == in.rows[o] IN
        << IF r.prio THEN 0 ELSE 1,
           IF in.policy = "PRIORITY_RETAIN" /\ r.status = "SCHEDULED"
           THEN 0 ELSE 1,
           -r.qty, r.due, o >>
  IN \E i \in 1 .. 5 : /\ \A j \in 1 .. i - 1 : key(a)[j] = key(b)[j]
                       /\ key(a)[i] < key(b)[i]

Ranks(in, a, b) ==
  LET key(o) == LET r == in.rows[o] IN
        << IF r.prio THEN 0 ELSE 1,
           IF in.policy = "PRIORITY_RETAIN" /\ r.status = "SCHEDULED"
           THEN 0 ELSE 1,
           r.due, -r.qty, o >>
  IN \E i \in 1 .. 5 : /\ \A j \in 1 .. i - 1 : key(a)[j] = key(b)[j]
                       /\ key(a)[i] < key(b)[i]

(* calculateOrderDeadline, and the end of the window a run may ask for.    *)
(* Bound: no day after the last one of the calendar.                       *)
Window(in, o) ==
  LET deadline == in.rows[o].due - BufferDays - ProductionDays
      last == IF in.end # None THEN Smaller(deadline, in.end) ELSE deadline
  IN  (in.start .. last) \cap Calendar

(* All the work that is kept counts, whatever its status.                  *)
Missing(in, o) == in.rows[o].qty - Amount(in.kept[o])

-------------------------------------------------------------------------------
(* The capacity map at the start: the work of an immutable order is in the *)
(* rows already, and is taken off the cells without a row only.            *)
Prepared(in) ==
  LET at(w) == <<w.factory, w.day>>
      fixedWork == UNION {in.kept[o] :
                     o \in {p \in DOMAIN in.rows : Immutable(in.rows[p])}}
      on(c) == {w \in fixedWork : at(w) = c}
  IN [c \in Cells |-> IF in.left[c] = None /\ on(c) # {}
                      THEN in.room[c[1]] - Amount(on(c))
                      ELSE in.left[c]]

Free(in, left, c) == IF left[c] = None THEN in.room[c[1]] ELSE left[c]

(* A draft is the attempt at one order: what is left of the cells, what    *)
(* the order still misses, and the ledger of what was done to the map.     *)
Created(in, draft, c) ==
  IF draft.left[c] # None THEN draft
  ELSE [draft EXCEPT
          !.left[c] = in.room[c[1]],
          !.ledger = Append(@, [cell |-> c, deducted |-> 0, created |-> TRUE])]

Deduct(draft, c, n) ==
  [left |-> [draft.left EXCEPT ![c] = @ - n],
   missing |-> draft.missing - n,
   ledger |-> Append(draft.ledger,
                     [cell |-> c, deducted |-> n, created |-> FALSE])]

(* On a day all factories get their row; the emptiest one is filled first. *)
(* The folds take off what comes last, so that the steps are in order.     *)
OpenDay(in, draft, day) ==
  FoldSet(LAMBDA f, d : Created(in, d, <<f, day>>), draft, Factories)

Fill(d, c, room) ==
  IF d.missing <= 0 \/ room <= 0 THEN d
  ELSE Deduct(d, c, Smaller(d.missing, room))

TakeDay(in, draft, day) ==
  LET opened == OpenDay(in, draft, day)
      room(f) == opened.left[<<f, day>>]
      emptier(f, g) == room(f) > room(g) \/ (room(f) = room(g) /\ f < g)
  IN IF draft.missing <= 0 THEN draft
     ELSE MapThenFoldSet(LAMBDA f, d : Fill(d, <<f, day>>, room(f)),
                         opened, LAMBDA f : f,
                         LAMBDA F : CHOOSE f \in F :
                                      \A g \in F \ {f} : emptier(g, f),
                         Factories)

TakeSplit(in, draft, window) ==
  MapThenFoldSet(LAMBDA day, d : TakeDay(in, d, day), draft, LAMBDA day : day,
                 LAMBDA D : CHOOSE day \in D : \A e \in D : e <= day, window)

(* The first cell, by day and factory, that has room for all of it.        *)
TakeWhole(in, draft, window) ==
  LET fits == {c \in Factories \X window :
                 Free(in, draft.left, c) >= draft.missing}
      first == CHOOSE c \in fits : \A d \in fits :
                 c[2] < d[2] \/ (c[2] = d[2] /\ c[1] <= d[1])
  IN IF fits = {} THEN draft
     ELSE Deduct(Created(in, draft, first), first, draft.missing)

(* The rollback takes the ledger back from its end: what was deducted is   *)
(* added again, and a row that was created is deleted.                     *)
(* Mutant: the loop stops before the first entry of the ledger.            *)
RolledBackShort(draft) ==
  FoldRight(LAMBDA e, left :
              [left EXCEPT ![e.cell] = IF e.created \/ @ = None THEN None
                                       ELSE @ + e.deducted],
            SubSeq(draft.ledger, 2, Len(draft.ledger)), draft.left)

RolledBack(draft) ==
  FoldRight(LAMBDA e, left :
              [left EXCEPT ![e.cell] = IF e.created \/ @ = None THEN None
                                       ELSE @ + e.deducted],
            draft.ledger, draft.left)

(* One order: all that is missing is placed, or nothing is.                *)
PlaceOrder(in, plan, o) ==
  LET missing == Missing(in, o)
      begun == [left |-> plan.left, missing |-> missing, ledger |-> <<>>]
      draft == IF in.splittable THEN TakeSplit(in, begun, Window(in, o))
               ELSE TakeWhole(in, begun, Window(in, o))
      placed == {[order |-> o, factory |-> e.cell[1], day |-> e.cell[2],
                  qty |-> e.deducted] :
                   e \in {x \in ToSet(draft.ledger) : ~x.created}}
  IN IF missing <= 0 THEN plan
     ELSE IF draft.missing <= 0
     THEN [plan EXCEPT !.left = draft.left, !.new = @ \cup placed,
                       !.status[o] = "SCHEDULED"]
     ELSE [plan EXCEPT !.left = RolledBack(draft), !.status[o] = "FAILED"]

(* execute: the plan has the capacities that are left, the new work and    *)
(* the status that each order gets.                                        *)
PlanOf(in) ==
  MapThenFoldSet(LAMBDA o, plan : PlaceOrder(in, plan, o),
                 [left |-> Prepared(in), new |-> {},
                  status |-> [o \in DOMAIN in.rows |-> in.rows[o].status]],
                 LAMBDA o : o,
                 LAMBDA M : CHOOSE o \in M : \A a \in M \ {o} : Ranks(in, a, o),
                 {o \in DOMAIN in.rows : ~Immutable(in.rows[o])})
===============================================================================
