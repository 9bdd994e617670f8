------------------------------ MODULE ManualEdit ------------------------------
(***************************************************************************)
(* The calls a save makes, one after the other: applyAssignmentMoves of    *)
(* modules/schedule/manual-edit-service.ts for all moves at once, and      *)
(* updateOrderService for each flag; with what the page does at once when  *)
(* the answer comes.  Each await of the moves is a step; a flag is written *)
(* under the lock in one step.                                             *)
(***************************************************************************)
EXTENDS PlanStore

Doing(p, kind, at) == /\ call[p].at = at /\ call[p].queue # <<>>
                      /\ Head(call[p].queue).kind = kind

FlagRequest == [kind : {"flag"}, field : {"fixed", "prio"}, order : Orders,
                value : BOOLEAN]

(* 409 is shown as a conflict, any other refusal as an error; either way   *)
(* the rest of the save is given up and the pending edits stay.            *)
Refused(p, status) ==
  /\ board' = [board EXCEPT ![p].status = status]
  /\ call' = [call EXCEPT ![p] = NoCall]
  /\ hist' = [hist EXCEPT !.lopsided = IF call[p].sent THEN @ \cup {p} ELSE @]

(* The page counts on its own writes: base is the part of the history that *)
(* it has seen or made.                                                    *)
Seen(b, T, n) ==
  [b EXCEPT !.base = [t \in Types |-> @[t] + (IF t \in T THEN n ELSE 0)]]

Lopsided(h, p, yes) ==
  [h EXCEPT !.lopsided = IF yes THEN @ \cup {p} ELSE @]

(* The version the page sends for an order, and counts up after the call,  *)
(* is that of the factory of its first row; none if it has no row.         *)
(* Mutant: the version is not counted up after the call.                   *)
CountedFlagNot(c, o) == c.live

CountedFlag(c, o) ==
  [t \in DOMAIN c.live |-> c.live[t] + (IF c.shown[o] = t THEN 1 ELSE 0)]

FlagCall(p) ==
  LET c == call[p]
      f == Head(c.queue)
      t == OrderType[f.order]
      s == c.shown[f.order]
  IN
  /\ Doing(p, "flag", "next") /\ f \in FlagRequest
  /\ IF Group(p) # t
     THEN Refused(p, "error") /\ UNCHANGED <<rows, version>>
     ELSE IF lock[t] # None \/ (s \in DOMAIN c.live /\ c.live[s] # version[t])
     THEN Refused(p, "conflict") /\ UNCHANGED <<rows, version>>
     ELSE /\ rows' = [rows EXCEPT ![f.field][f.order] = f.value]
          /\ version' = [version EXCEPT ![t] = @ + 1]
          /\ board' = [board EXCEPT ![p] = Seen(@, {t}, 2)]
          /\ call' = [call EXCEPT ![p] =
               [c EXCEPT !.queue = Tail(@), !.sent = TRUE,
                         !.live = CountedFlag(c, f.order)]]
          /\ hist' = Lopsided(Marked(hist, {t}, 2), p, s # t)
  /\ UNCHANGED <<room, lock, fetch, scene>>

-------------------------------------------------------------------------------
(* All the versions the page sends are compared, before the lock is taken. *)
BulkCheck(p) ==
  /\ Doing(p, "bulk", "next")
  /\ IF \A t \in DOMAIN call[p].live : call[p].live[t] = version[t]
     THEN call' = [call EXCEPT ![p].at = "lock"] /\ UNCHANGED <<board, hist>>
     ELSE Refused(p, "conflict")
  /\ UNCHANGED <<rows, room, version, lock, fetch, scene>>

Moves(p) == Head(call[p].queue).moves
OrderOf(m) == IF m.piece # None THEN rows.piece[m.piece].order ELSE m.order

(* A piece may have been deleted by a run of the engine.                   *)
Found(m) == /\ m.piece # None => m.piece \in Pieces /\ rows.piece[m.piece] # None
            /\ OrderOf(m) \in Orders

(* getAffectedOrderTypes: the types of the orders, not of the factories,   *)
(* of what is found.                                                       *)
TypesOf(M) == {OrderType[OrderOf(m)] : m \in {x \in M : Found(x)}}

Unlocked(p) == [t \in Types |-> IF lock[t] = p THEN None ELSE lock[t]]

(* Pass 1: what may not be moved, and what is where it should be.          *)
Invalid(m) ==
  \/ rows.fixed[OrderOf(m)]
  \/ m.piece = None /\ rows.status[m.order] # "PENDING"
InPlace(m) == m.piece # None /\ rows.piece[m.piece].cell = m.cell
TooLate(m) == m.cell[2] > Due[OrderOf(m)] - Margin

QuantityOf(m) == IF m.piece # None THEN rows.piece[m.piece].qty ELSE m.qty
Placed(M) == {m \in M : m.piece = None}
PlacedFor(M, o) == {m \in Placed(M) : m.order = o}

(* The parts of an order make up its quantity and go to different cells.   *)
SplitWrong(M, o) ==
  \/ MapThenSumSet(QuantityOf, PlacedFor(M, o)) # Quantity[o]
  \/ \E m, n \in PlacedFor(M, o) : m # n /\ m.cell = n.cell

(* Pass 2: the net change of a cell must fit in what it has.               *)
NetChange(M, c) ==
  MapThenSumSet(QuantityOf,
                {m \in M : m.piece # None /\ rows.piece[m.piece].cell = c})
  - MapThenSumSet(QuantityOf, {m \in M : m.cell = c})

(* Mutant: what the cell has been given already is not looked at.          *)
ShortOfMax(M, c) == NetChange(M, c) < 0
                    /\ MaxCapacity[c[1]] + NetChange(M, c) < 0

Short(M, c) == NetChange(M, c) < 0 /\ room[c] + NetChange(M, c) < 0

(* When the answer comes the page counts one version up for each move, by  *)
(* the type of the factory it goes to.                                     *)
CountedMoves(c, M) ==
  [t \in DOMAIN c.live |->
     c.live[t] + Cardinality({m \in M : FactoryType[m.cell[1]] = t})]

(* The versions of the types T went up by one: the page may be off.        *)
Uneven(M, T) ==
  \E t \in Types : Cardinality({m \in M : FactoryType[m.cell[1]] = t})
                     # (IF t \in T THEN 1 ELSE 0)

Answered(p, T) ==
  LET c == call[p] IN
  call' = [call EXCEPT ![p] =
    [c EXCEPT !.queue = Tail(c.queue), !.at = "next", !.sent = c.sent \/ T # {},
              !.live = CountedMoves(c, Moves(p))]]

(* Nothing to do if nothing is found.  What is gone is refused with the    *)
(* lock in hand.                                                           *)
BulkLock(p) ==
  LET M == Moves(p)
      T == TypesOf(M)
  IN
  /\ Doing(p, "bulk", "lock")
  /\ IF T = {}
     THEN Answered(p, {}) /\ hist' = Lopsided(hist, p, TRUE) /\ UNCHANGED <<board, lock>>
     ELSE IF \A t \in T : lock[t] = None
     THEN /\ lock' = [t \in Types |-> IF t \in T THEN p ELSE lock[t]]
          /\ call' = [call EXCEPT ![p].at = IF \A m \in M : Found(m) THEN "read"
                                           ELSE "gone"]
          /\ UNCHANGED <<board, hist>>
     ELSE Refused(p, "conflict") /\ UNCHANGED lock
  /\ UNCHANGED <<rows, room, version, fetch, scene>>

BulkRead(p) ==
  LET M == Moves(p)
      acting == {m \in M : ~Invalid(m) /\ ~InPlace(m)}
      wrong == \/ call[p].at = "gone"
               \/ \E m \in M : Invalid(m) \/ (~InPlace(m) /\ TooLate(m))
               \/ \E m \in Placed(M) : SplitWrong(acting, m.order)
               \/ \E c \in Cells : Short(acting, c)
  IN
  /\ Doing(p, "bulk", "read") \/ Doing(p, "bulk", "gone")
  /\ IF wrong
     THEN Refused(p, "error") /\ lock' = Unlocked(p)
     ELSE IF acting = {}
     THEN /\ Answered(p, {})
          /\ lock' = Unlocked(p)
          /\ hist' = Lopsided(hist, p, TRUE)
          /\ UNCHANGED board
     ELSE /\ call' = [call EXCEPT ![p].at = "write"]
          /\ UNCHANGED <<board, lock, hist>>
  /\ UNCHANGED <<rows, room, version, fetch, scene>>

(* One transaction: the pieces that are moved, the pieces and the status   *)
(* of the orders that are placed, and the capacities on both sides.        *)
BulkWrite(p) ==
  LET M == {m \in Moves(p) : ~InPlace(m)}
      moved(a) == {m \in M : m.piece = a}
      new == SetToSeq(Placed(M))
      free == {a \in Pieces : rows.piece[a] = None}
      at(a) == {k \in DOMAIN new :
                  a \in free /\ k = Cardinality({b \in free : b <= a})}
      T == TypesOf(M)
      touched == {c \in Cells : \/ \E m \in M : m.cell = c
                                \/ \E m \in M \ Placed(M) :
                                     rows.piece[m.piece].cell = c}
  IN
  /\ Doing(p, "bulk", "write")
  /\ Len(new) <= Cardinality(free)
  /\ room' = [c \in Cells |-> room[c] + NetChange(M, c)]
  /\ rows' = [rows EXCEPT
       !.piece = [a \in Pieces |->
          IF moved(a) # {}
          THEN [@[a] EXCEPT !.cell = (CHOOSE m \in moved(a) : TRUE).cell]
          ELSE IF at(a) # {}
          THEN LET m == new[CHOOSE k \in at(a) : TRUE] IN
               [order |-> m.order, cell |-> m.cell, qty |-> m.qty]
          ELSE @[a]],
       !.status = [o \in Orders |-> IF PlacedFor(M, o) # {} THEN "SCHEDULED"
                                    ELSE @[o]]]
  /\ board' = [board EXCEPT ![p] = Seen(@, T, 1)]
  /\ call' = [call EXCEPT ![p].at = "bump"]
  /\ hist' = [Marked(hist, T, 1) EXCEPT
       !.astray = @ \cup {c \in touched : FactoryType[c[1]] \notin T}]
  /\ UNCHANGED <<version, lock, fetch, scene>>

(* The version of each type that is locked goes up, and the lock is freed. *)
BulkBump(p) ==
  LET T == {t \in Types : lock[t] = p} IN
  /\ Doing(p, "bulk", "bump")
  /\ version' = [t \in Types |-> version[t] + (IF t \in T THEN 1 ELSE 0)]
  /\ lock' = Unlocked(p)
  /\ board' = [board EXCEPT ![p] = Seen(@, T, 1)]
  /\ Answered(p, T)
  /\ hist' = Lopsided(Marked(hist, T, 1), p, Uneven(Moves(p), T))
  /\ UNCHANGED <<rows, room, fetch, scene>>

CallStep(p) ==
  \/ FlagCall(p)
  \/ BulkCheck(p) \/ BulkLock(p) \/ BulkRead(p) \/ BulkWrite(p) \/ BulkBump(p)
===============================================================================
