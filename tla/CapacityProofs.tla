----------------------------- MODULE CapacityProofs -----------------------------
(***************************************************************************)
(* The ledger of the capacities, however the saves of the planners and the *)
(* runs of the engine meet: what a cell has left and the work in it make   *)
(* up its capacity.                                                        *)
(***************************************************************************)
EXTENDS PlannersProofs, FiniteSetTheorems

(* What is proved of the strategy, for the calendar of the pages.          *)
P == INSTANCE StrategyProofs WITH LastDay <- Max(Days),
                                  ProductionDays <- Margin, BufferDays <- 0

-------------------------------------------------------------------------------
(* The work in a cell, and the rows that make it up.                       *)
In(c) == {a \in Pieces : rows.piece[a] # None /\ rows.piece[a].cell = c}
Balanced(c) == room[c] >= 0 /\ room[c] + Total(In(c)) = MaxCapacity[c[1]]

RowsOK ==
  /\ rows.piece \in [Pieces -> Work \cup {None}]
  /\ room \in [Cells -> Int]

(* What a page may have been told to move, to place or to split.           *)
EditsOK(e) ==
  /\ e = [moves |-> e.moves, place |-> e.place, split |-> e.split,
          part |-> e.part, fixed |-> e.fixed, prio |-> e.prio]
  /\ e.moves \in [Pieces -> Cells \cup {None, Staging}]
  /\ e.place \in [Orders -> Cells \cup {None}]
  /\ DOMAIN e.split = Orders
  /\ \A o \in Orders : \A i \in DOMAIN e.split[o] : e.split[o][i] \in Nat \ {0}
  /\ e.part \in [Parts -> [cell : Cells, qty : Nat \ {0}] \cup {None}]

(* What is sent in one call: no row of the tables is moved twice.          *)
MovesOK(M) ==
  /\ IsFiniteSet(M)
  /\ \A m \in M : m.cell \in Cells /\ (m.piece = None => m.qty \in Nat \ {0})
  /\ \A m, n \in M : m.piece # None /\ m.piece = n.piece => m = n
QueueOK(queue) ==
  \E X : queue \in Seq(X) /\ \A c \in X : c.kind = "bulk" => MovesOK(c.moves)

(* What a save has found to fit still fits when it is written.             *)
Acting(p) == {m \in Moves(p) : ~InPlace(m)}
FitsStill(p) ==
  Doing(p, "bulk", "write") =>
    \A c \in Cells \ hist.astray :
      lock[FactoryType[c[1]]] = p => ~Short(Acting(p), c)

(* A plan takes what it places off what it was given.                      *)
PlanOK(plan) ==
  LET new == plan.plan.new
      own == OwnCells(plan.type)
  IN
  /\ PlanFits(plan) /\ plan.marks \in [Types -> Nat]
  /\ new \subseteq P!Given /\ IsFiniteSet(new) /\ P!Apart(new)
  /\ \A d \in new : d.order \in DOMAIN plan.in.rows /\ <<d.factory, d.day>> \in own
  /\ \A c \in own :
       /\ plan.in.left[c] \in Int
       /\ plan.plan.left[c] = plan.in.left[c] - P!Amount(P!On(new, c))
       /\ P!On(new, c) # {} => plan.plan.left[c] >= 0

(* A plan of a type that nobody has written to since is up to date: what   *)
(* it was given is what there is, and what its commit will give back.      *)
Freed(plan, c) == {a \in Deleted(plan) : rows.piece[a].cell = c}
UpToDate(plan) ==
  LET t == plan.type IN
  /\ plan.marks[t] <= hist.marks[t]
  /\ plan.marks[t] = hist.marks[t] =>
       \A c \in OwnCells(t) \ hist.astray :
         /\ plan.in.read[c] = room[c]
         /\ plan.in.left[c] = room[c] + Total(Freed(plan, c))
Good(plan) == PlanOK(plan) /\ UpToDate(plan)

(* The plans that a page has in hand, or waits for.                        *)
PlansInHand(p) ==
  {s.kept.plan : s \in {x \in {board[p].shown} : x # None}}
  \cup {r.plan : r \in {x \in {ask[p].preview} : x # None /\ x.at = "version"}}
  \cup {r.kept.plan : r \in {x \in {ask[p].preview} : x # None /\ x.at = "answer"}}
  \cup {r.shown.kept.plan :
          r \in {x \in {ask[p].act} : x.op = "apply" /\ x.at # "bump"}}

Ledger ==
  /\ RowsOK
  /\ CapacityKept
  /\ \A p \in Planners :
       /\ EditsOK(board[p].edits)
       /\ Saves(p) => QueueOK(call[p].queue)
       /\ FitsStill(p)
       /\ \A plan \in PlansInHand(p) : Good(plan)
-------------------------------------------------------------------------------
(* The strategy of the desk is the one that the lemmas of StrategyProofs   *)
(* are about, and its sets are finite as ours are.                         *)
LEMMA FiniteAlike == \A S : P!IsFiniteSet(S) <=> IsFiniteSet(S)
  BY DEF P!IsFiniteSet, IsFiniteSet

LEMMA SizesAlike == \A S : P!Cardinality(S) = Cardinality(S)
  BY DEF P!Cardinality, Cardinality

LEMMA CalendarAlike ==
  /\ P!StrategyAssumption /\ P!Cells = Cells /\ P!Calendar = Days
  /\ IsFiniteSet(Orders) /\ IsFiniteSet(Factories) /\ IsFiniteSet(Pieces)
  /\ Orders \subseteq Nat /\ Factories \subseteq Nat /\ Pieces \subseteq Nat
  /\ None \notin Pieces
<1>1. /\ IsFiniteSet(Orders) /\ IsFiniteSet(Factories) /\ IsFiniteSet(Pieces)
      /\ Orders \subseteq Nat /\ Factories \subseteq Nat /\ Pieces \subseteq Nat
      /\ Max(Days) \in Nat /\ Days = 0 .. Max(Days)
  BY SceneAssumption
<1>2. None \notin Int /\ Margin \in Nat
  BY PlanAssumption
<1>3. P!IsFiniteSet(Orders) /\ P!IsFiniteSet(Factories)
  BY <1>1, FiniteAlike
<1>4. P!StrategyAssumption
  BY <1>1, <1>2, <1>3 DEF P!StrategyAssumption
<1>5. P!Calendar = Days
  BY <1>1 DEF P!Calendar
<1>6. P!Cells = Cells
  BY <1>5 DEF P!Cells, Cells
<1>7. None \notin Pieces
  <2>1. \A a \in Pieces : a \in Int
    BY <1>1
  <2> QED
    BY <1>2, <2>1
<1> QED
  BY <1>1, <1>4, <1>5, <1>6, <1>7

LEMMA PlanAlike ==
  ASSUME NEW in
  PROVE  P!PlanOf(in) = Strategy!PlanOf(in)
<1>1. \A d : P!RolledBack(d) = Strategy!RolledBack(d)
  BY DEF P!RolledBack, Strategy!RolledBack, P!FoldRight, Strategy!FoldRight,
         P!Min, Strategy!Min, P!MapThenFoldSet, Strategy!MapThenFoldSet
<1>2. \A d, w : P!TakeSplit(in, d, w) = Strategy!TakeSplit(in, d, w)
  BY DEF P!TakeSplit, Strategy!TakeSplit, P!TakeDay, Strategy!TakeDay,
         P!OpenDay, Strategy!OpenDay, P!Fill, Strategy!Fill, P!Deduct,
         Strategy!Deduct, P!Created, Strategy!Created, P!MapThenFoldSet,
         Strategy!MapThenFoldSet, P!FoldSet, Strategy!FoldSet, P!Smaller,
         Strategy!Smaller
<1>3. \A d, w : P!TakeWhole(in, d, w) = Strategy!TakeWhole(in, d, w)
  BY DEF P!TakeWhole, Strategy!TakeWhole, P!Deduct, Strategy!Deduct,
         P!Created, Strategy!Created, P!Free, Strategy!Free
<1>4. \A o : P!Window(in, o) = Strategy!Window(in, o)
  BY DEF P!Window, Strategy!Window, P!Smaller, Strategy!Smaller, P!Calendar,
         Strategy!Calendar
<1>5. \A o : P!Missing(in, o) = Strategy!Missing(in, o)
  <2>1. \A W : P!Amount(W) = Strategy!Amount(W)
    BY DEF P!Amount, Strategy!Amount, P!MapThenSumSet, Strategy!MapThenSumSet,
           P!MapThenFoldSet, Strategy!MapThenFoldSet
  <2> QED
    BY <2>1 DEF P!Missing, Strategy!Missing
<1>6. ASSUME NEW o, NEW p
      PROVE  P!PlaceOrder(in, p, o) = Strategy!PlaceOrder(in, p, o)
  <2> DEFINE m == P!Missing(in, o)
             W == P!Window(in, o)
             begun == [left |-> p.left, missing |-> m, ledger |-> <<>>]
             draft == IF in.splittable THEN P!TakeSplit(in, begun, W)
                      ELSE P!TakeWhole(in, begun, W)
             n == Strategy!Missing(in, o)
             other == [left |-> p.left, missing |-> n, ledger |-> <<>>]
             attempt == IF in.splittable
                        THEN Strategy!TakeSplit(in, other, Strategy!Window(in, o))
                        ELSE Strategy!TakeWhole(in, other, Strategy!Window(in, o))
             placed(d) ==
               {[order |-> o, factory |-> e.cell[1], day |-> e.cell[2],
                 qty |-> e.deducted] : e \in {x \in P!ToSet(d.ledger) : ~x.created}}
             outcome(k, d, left) ==
               IF k <= 0 THEN p
               ELSE IF d.missing <= 0
               THEN [p EXCEPT !.left = d.left, !.new = @ \cup placed(d),
                              !.status[o] = "SCHEDULED"]
               ELSE [p EXCEPT !.left = left, !.status[o] = "FAILED"]
  <2>1. W = Strategy!Window(in, o) /\ m = n
    BY <1>4, <1>5
  <2>2. draft = attempt
    BY <1>2, <1>3, <2>1
  <2>3. P!PlaceOrder(in, p, o) = outcome(m, draft, P!RolledBack(draft))
    BY DEF P!PlaceOrder
  <2>4. Strategy!PlaceOrder(in, p, o)
          = outcome(n, attempt, Strategy!RolledBack(attempt))
    BY DEF Strategy!PlaceOrder, P!ToSet, Strategy!ToSet
  <2> HIDE DEF m, n, draft, attempt, outcome
  <2> QED
    BY <1>1, <2>1, <2>2, <2>3, <2>4
<1>7. P!Prepared(in) = Strategy!Prepared(in)
  BY DEF P!Prepared, Strategy!Prepared, P!Amount, Strategy!Amount,
         P!MapThenSumSet, Strategy!MapThenSumSet, P!MapThenFoldSet,
         Strategy!MapThenFoldSet, P!Immutable, Strategy!Immutable, P!Cells,
         Strategy!Cells, P!Calendar, Strategy!Calendar
<1>8. \A a, b : P!Ranks(in, a, b) <=> Strategy!Ranks(in, a, b)
  BY DEF P!Ranks, Strategy!Ranks
<1> DEFINE M == {o \in DOMAIN in.rows : ~P!Immutable(in.rows[o])}
           base == [left |-> P!Prepared(in), new |-> {},
                    status |-> [o \in DOMAIN in.rows |-> in.rows[o].status]]
           c(T) == CHOOSE o \in T : \A a \in T \ {o} : P!Ranks(in, a, o)
           d(T) == CHOOSE o \in T : \A a \in T \ {o} : Strategy!Ranks(in, a, o)
           A(g) == g = [s \in SUBSET M |->
                          IF s = {} THEN base
                          ELSE P!PlaceOrder(in, g[s \ {c(s)}], c(s))]
           B(g) == g = [s \in SUBSET M |->
                          IF s = {} THEN base
                          ELSE Strategy!PlaceOrder(in, g[s \ {d(s)}], d(s))]
<1>9. ASSUME NEW T PROVE c(T) = d(T)
  BY <1>8
<1>10. P!PlanOf(in) = (CHOOSE g : A(g))[M]
  BY DEF P!PlanOf, P!MapThenFoldSet
<1>11. Strategy!PlanOf(in) = (CHOOSE g : B(g))[M]
  BY <1>7 DEF Strategy!PlanOf, Strategy!MapThenFoldSet, P!Immutable,
              Strategy!Immutable
<1>12. ASSUME NEW g PROVE A(g) <=> B(g)
  <2> HIDE DEF M, base, c, d
  <2> QED
    BY <1>6, <1>9
<1> HIDE DEF A, B
<1>13. (CHOOSE g : A(g)) = (CHOOSE g : B(g))
  BY <1>12
<1> QED
  BY <1>10, <1>11, <1>13

-------------------------------------------------------------------------------
(* Sums over the rows of the tables, as they are and as a step leaves them *)
(* (a primed sum is a sum of its own to the provers).                      *)
LEMMA TotalIs ==
  ASSUME NEW I
  PROVE  Total(I) = P!SumOf([a \in I |-> rows.piece[a].qty], I)
<1> DEFINE q == [a \in I |-> rows.piece[a].qty]
           A(g) == g = [s \in SUBSET I |->
                          IF s = {} THEN 0
                          ELSE q[CHOOSE x \in s : TRUE]
                               + g[s \ {CHOOSE x \in s : TRUE}]]
           B(g) == g = [s \in SUBSET I |->
                          IF s = {} THEN 0
                          ELSE rows.piece[CHOOSE x \in s : TRUE].qty
                               + g[s \ {CHOOSE x \in s : TRUE}]]
<1>1. ASSUME NEW g PROVE A(g) <=> B(g)
  <2>1. ASSUME NEW s \in SUBSET I, s # {}
        PROVE  q[CHOOSE x \in s : TRUE] = rows.piece[CHOOSE x \in s : TRUE].qty
    <3>1. (CHOOSE x \in s : TRUE) \in I
      BY <2>1
    <3> QED
      BY <3>1
  <2> HIDE DEF q
  <2> QED
    BY <2>1
<1>2. Total(I) = (CHOOSE g : B(g))[I]
  BY DEF Total, MapThenSumSet, MapThenFoldSet
<1>3. P!SumOf(q, I) = (CHOOSE g : A(g))[I]
  BY DEF P!SumOf, P!MapThenSumSet, P!MapThenFoldSet
<1> HIDE DEF A, B
<1>4. (CHOOSE g : A(g)) = (CHOOSE g : B(g))
  BY <1>1
<1> QED
  BY <1>2, <1>3, <1>4 DEF q

LEMMA TotalNext ==
  ASSUME NEW I
  PROVE  Total(I)' = P!SumOf([a \in I |-> rows'.piece[a].qty], I)
<1> DEFINE q == [a \in I |-> rows'.piece[a].qty]
           A(g) == g = [s \in SUBSET I |->
                          IF s = {} THEN 0
                          ELSE q[CHOOSE x \in s : TRUE]
                               + g[s \ {CHOOSE x \in s : TRUE}]]
           B(g) == g = [s \in SUBSET I |->
                          IF s = {} THEN 0
                          ELSE rows'.piece[CHOOSE x \in s : TRUE].qty
                               + g[s \ {CHOOSE x \in s : TRUE}]]
<1>1. ASSUME NEW g PROVE A(g) <=> B(g)
  <2>1. ASSUME NEW s \in SUBSET I, s # {}
        PROVE  q[CHOOSE x \in s : TRUE] = rows'.piece[CHOOSE x \in s : TRUE].qty
    <3>1. (CHOOSE x \in s : TRUE) \in I
      BY <2>1
    <3> QED
      BY <3>1
  <2> HIDE DEF q
  <2> QED
    BY <2>1
<1>2. Total(I)' = (CHOOSE g : B(g))[I]
  BY DEF Total, MapThenSumSet, MapThenFoldSet
<1>3. P!SumOf(q, I) = (CHOOSE g : A(g))[I]
  BY DEF P!SumOf, P!MapThenSumSet, P!MapThenFoldSet
<1> HIDE DEF A, B
<1>4. (CHOOSE g : A(g)) = (CHOOSE g : B(g))
  BY <1>1
<1> QED
  BY <1>2, <1>3, <1>4 DEF q

LEMMA QuantitiesAre ==
  ASSUME NEW M
  PROVE  MapThenSumSet(QuantityOf, M)
           = P!SumOf([m \in M |-> QuantityOf(m)], M)
<1> DEFINE q == [m \in M |-> QuantityOf(m)]
           A(g) == g = [s \in SUBSET M |->
                          IF s = {} THEN 0
                          ELSE q[CHOOSE x \in s : TRUE]
                               + g[s \ {CHOOSE x \in s : TRUE}]]
           B(g) == g = [s \in SUBSET M |->
                          IF s = {} THEN 0
                          ELSE QuantityOf(CHOOSE x \in s : TRUE)
                               + g[s \ {CHOOSE x \in s : TRUE}]]
<1>1. ASSUME NEW g PROVE A(g) <=> B(g)
  <2>1. ASSUME NEW s \in SUBSET M, s # {}
        PROVE  q[CHOOSE x \in s : TRUE] = QuantityOf(CHOOSE x \in s : TRUE)
    <3>1. (CHOOSE x \in s : TRUE) \in M
      BY <2>1
    <3> QED
      BY <3>1
  <2> HIDE DEF q
  <2> QED
    BY <2>1
<1>2. MapThenSumSet(QuantityOf, M) = (CHOOSE g : B(g))[M]
  BY DEF MapThenSumSet, MapThenFoldSet
<1>3. P!SumOf(q, M) = (CHOOSE g : A(g))[M]
  BY DEF P!SumOf, P!MapThenSumSet, P!MapThenFoldSet
<1> HIDE DEF A, B
<1>4. (CHOOSE g : A(g)) = (CHOOSE g : B(g))
  BY <1>1
<1> QED
  BY <1>2, <1>3, <1>4 DEF q

(* A sum over a part is a sum over the whole with the rest counting 0.     *)
LEMMA SumWhere ==
  ASSUME NEW S, IsFiniteSet(S), NEW T, T \subseteq S, NEW q, NEW r,
         \A x \in T : q[x] \in Int, 
         \A x \in S : r[x] = IF x \in T THEN q[x] ELSE 0
  PROVE  P!SumOf(q, T) \in Int /\ P!SumOf(r, S) = P!SumOf(q, T)
<1>1. IsFiniteSet(T) /\ IsFiniteSet(S \ T)
  BY FS_Subset
<1>2. P!IsFiniteSet(T) /\ P!IsFiniteSet(S \ T)
  BY <1>1, FiniteAlike
<1>3. /\ \A x \in T : q[x] \in Int /\ r[x] = q[x]
      /\ \A x \in S \ T : r[x] = 0
      /\ \A x \in T \cup (S \ T) : r[x] \in Int
  OBVIOUS
<1>4. P!SumOf(q, T) = P!SumOf(r, T) /\ P!SumOf(q, T) \in Int
  BY <1>2, <1>3, CalendarAlike, P!SumSame, P!SumInt
<1>5. P!SumOf(r, S \ T) = 0
  BY <1>2, <1>3, CalendarAlike, P!SumNothing
<1>6. PICK U : U = S \ T
  OBVIOUS
<1>7. T \cap U = {} /\ T \cup U = S
  BY <1>6
<1>8. P!SumOf(r, T \cup U) = P!SumOf(r, T) + P!SumOf(r, U)
  BY <1>2, <1>3, <1>6, <1>7, CalendarAlike, P!SumUnion
<1>9. P!SumOf(r, S) = P!SumOf(r, T \cup U) /\ P!SumOf(r, U) = 0
  BY <1>5, <1>6, <1>7, Zenon
<1> QED
  BY <1>4, <1>8, <1>9

(* What each row of the tables counts for in a cell.                       *)
Weight(piece, c) ==
  [a \in Pieces |-> IF piece[a] # None /\ piece[a].cell = c
                    THEN piece[a].qty ELSE 0]

LEMMA WeightNat ==
  ASSUME NEW piece \in [Pieces -> Work \cup {None}], NEW c
  PROVE  /\ \A a \in Pieces : Weight(piece, c)[a] \in Nat
         /\ P!SumOf(Weight(piece, c), Pieces) \in Nat
<1>1. \A a \in Pieces : Weight(piece, c)[a] \in Nat
  <2> SUFFICES ASSUME NEW a \in Pieces
               PROVE  Weight(piece, c)[a] \in Nat
    OBVIOUS
  <2>1. piece[a] # None => piece[a].qty \in Nat
    BY DEF Work
  <2> QED
    BY <2>1 DEF Weight
<1> QED
  BY <1>1, CalendarAlike, FiniteAlike, P!SumNat

LEMMA InIs ==
  ASSUME rows.piece \in [Pieces -> Work \cup {None}], NEW c
  PROVE  Total(In(c)) = P!SumOf(Weight(rows.piece, c), Pieces)
<1> DEFINE I == In(c)
           q == [a \in I |-> rows.piece[a].qty]
           r == Weight(rows.piece, c)
<1>1. I \subseteq Pieces /\ IsFiniteSet(Pieces)
  BY CalendarAlike DEF In
<1>2. \A a \in I : q[a] \in Int
  BY DEF In, Work
<1>3. \A a \in Pieces : r[a] = IF a \in I THEN q[a] ELSE 0
  BY DEF In, Weight
<1>4. Total(I) = P!SumOf(q, I)
  BY TotalIs
<1> HIDE DEF I, q, r
<1>5. P!SumOf(r, Pieces) = P!SumOf(q, I)
  BY <1>1, <1>2, <1>3, SumWhere
<1> QED
  BY <1>4, <1>5 DEF I, r

LEMMA InNext ==
  ASSUME rows'.piece \in [Pieces -> Work \cup {None}], NEW c
  PROVE  Total(In(c))' = P!SumOf(Weight(rows'.piece, c), Pieces)
<1>0. PICK I : I = In(c)'
  OBVIOUS
<1> DEFINE q == [a \in I |-> rows'.piece[a].qty]
           r == Weight(rows'.piece, c)
<1>1. I \subseteq Pieces /\ IsFiniteSet(Pieces)
  BY <1>0, CalendarAlike DEF In
<1>2. \A a \in I : q[a] \in Int
  BY <1>0 DEF In, Work
<1>3. \A a \in Pieces : r[a] = IF a \in I THEN q[a] ELSE 0
  BY <1>0 DEF In, Weight
<1>4. Total(I)' = P!SumOf(q, I)
  BY TotalNext
<1> HIDE DEF q, r
<1>5. P!SumOf(r, Pieces) = P!SumOf(q, I)
  BY <1>1, <1>2, <1>3, SumWhere
<1>6. Total(In(c))' = Total(I)'
  BY <1>0
<1> QED
  BY <1>4, <1>5, <1>6 DEF r

(* A sum in which some entries change, each by as much as what stands for  *)
(* it, changes by the sum of that.                                         *)
LEMMA SumShift ==
  ASSUME NEW A, IsFiniteSet(A), NEW u, NEW v,
         \A a \in A : u[a] \in Int /\ v[a] \in Int,
         NEW S, IsFiniteSet(S), NEW d, NEW f, P!Renames(f, S, A),
         \A x \in S : d[x] \in Int /\ v[f[x]] = u[f[x]] + d[x],
         \A a \in A : (\A x \in S : f[x] # a) => v[a] = u[a]
  PROVE  P!SumOf(v, A) = P!SumOf(u, A) + P!SumOf(d, S)
<1> DEFINE e == [a \in A |-> v[a] - u[a]]
           T == {f[x] : x \in S}
<1>1. \A a \in A : u[a] \in Int /\ e[a] \in Int /\ v[a] = u[a] + e[a]
  OBVIOUS
<1>2. T \subseteq A /\ \A x \in S : f[x] \in A
  BY DEF P!Renames
<1>3. \A a \in A : e[a] = IF a \in T THEN e[a] ELSE 0
  OBVIOUS
<1>4. \A x \in S : d[x] \in Int /\ e[f[x]] = d[x]
  BY <1>2
<1> HIDE DEF e, T
<1>5. P!SumOf(v, A) = P!SumOf(u, A) + P!SumOf(e, A)
  BY <1>1, CalendarAlike, FiniteAlike, P!SumPlus
<1>6. P!SumOf(e, A) = P!SumOf(e, T)
  BY <1>1, <1>2, <1>3, SumWhere
<1>7. P!SumOf(e, T) = P!SumOf(d, S)
  BY <1>4, CalendarAlike, FiniteAlike, P!SumRenamed DEF T
<1> QED
  BY <1>5, <1>6, <1>7

-------------------------------------------------------------------------------
(* A scene starts with the ledger in order and nothing in hand.            *)
LEMMA NoEditsOK == EditsOK(NoEdits)
  BY DEF EditsOK, NoEdits

LEMMA StartsKept == Init => Ledger
<1> SUFFICES ASSUME Init
             PROVE  Ledger
  OBVIOUS
<1>1. scene \in DOMAIN Scenes /\ rows \in Scenes[scene].starts
  BY DEF Init, Scene
<1>2. rows.piece \in [Pieces -> Work \cup {None}]
  BY <1>1, SceneAssumption
<1> DEFINE sum(c) == MapThenSumSet(LAMBDA a : rows.piece[a].qty,
                       {a \in Pieces : rows.piece[a] # None
                                       /\ rows.piece[a].cell = c})
<1>3. \A c \in Cells : sum(c) = Total(In(c))
  BY Zenon DEF Total, In
<1>4. \A c \in Cells : room[c] = MaxCapacity[c[1]] - sum(c)
  BY DEF Init
<1>5. \A c \in Cells : sum(c) <= MaxCapacity[c[1]]
  BY <1>1, SceneAssumption
<1>6. \A c \in Cells : sum(c) \in Nat
  BY <1>2, <1>3, InIs, WeightNat
<1>7. \A c \in Cells : MaxCapacity[c[1]] \in Nat
  BY PlanAssumption DEF Cells
<1>8. room = [c \in Cells |-> room[c]]
  BY DEF Init
<1>9. RowsOK
  <2> HIDE DEF sum
  <2>1. \A c \in Cells : room[c] \in Int
    BY <1>4, <1>6, <1>7
  <2> QED
    BY <1>2, <1>8, <2>1 DEF RowsOK
<1>10. CapacityKept
  <2>1. \A c \in Cells : room[c] >= 0 /\ room[c] + sum(c) = MaxCapacity[c[1]]
    <3> HIDE DEF sum
    <3> QED
      BY <1>4, <1>5, <1>6, <1>7
  <2> QED
    BY <2>1 DEF CapacityKept
<1>11. ASSUME NEW p \in Planners
       PROVE  /\ EditsOK(board[p].edits) /\ ~Saves(p) /\ FitsStill(p)
              /\ PlansInHand(p) = {}
  <2>1. board[p].edits = NoEdits /\ board[p].shown = None
    BY DEF Init
  <2>2. call[p].at = "idle" /\ ask[p] = [preview |-> None, act |-> NoAct]
    BY DEF Init, NoCall
  <2>3. PlansInHand(p) = {}
    BY <2>1, <2>2 DEF PlansInHand, NoAct
  <2> QED
    BY <2>1, <2>2, <2>3, NoEditsOK DEF Saves, FitsStill, Doing
<1> QED
  BY <1>9, <1>10, <1>11 DEF Ledger

(* The ledger of a cell, and the invariant by its cells.                   *)
LEMMA KeptByCell ==
  /\ CapacityKept <=> \A c \in Cells \ hist.astray : Balanced(c)
  /\ CapacityKept' <=> \A c \in Cells \ hist'.astray : Balanced(c)'
<1>1. CapacityKept <=> \A c \in Cells \ hist.astray : Balanced(c)
  BY Zenon DEF CapacityKept, Balanced, Total, In
<1>2. CapacityKept' <=> \A c \in Cells \ hist'.astray : Balanced(c)'
  BY Zenon DEF CapacityKept, Balanced, Total, In
<1> QED
  BY <1>1, <1>2

-------------------------------------------------------------------------------
(* A set as a sequence: each element at one place.                         *)
LEMMA SetToSeqIs ==
  ASSUME NEW S, IsFiniteSet(S)
  PROVE  /\ Cardinality(S) \in Nat
         /\ SetToSeq(S) \in [1 .. Cardinality(S) -> S]
         /\ Len(SetToSeq(S)) = Cardinality(S)
         /\ \A x \in S : \E k \in 1 .. Cardinality(S) : SetToSeq(S)[k] = x
         /\ \A i, j \in 1 .. Cardinality(S) :
              SetToSeq(S)[i] = SetToSeq(S)[j] => i = j
<1> DEFINE n == Cardinality(S)
<1>1. n \in Nat /\ ExistsBijection(1 .. n, S)
  BY FS_CardinalityType
<1>2. PICK g : g \in Bijection(1 .. n, S)
  BY <1>1 DEF ExistsBijection
<1>3. g \in [1 .. n -> S] /\ IsInjective(g)
  BY <1>2 DEF Bijection, Injection
<1>4. SetToSeq(S) \in [1 .. n -> S] /\ IsInjective(SetToSeq(S))
  BY <1>3 DEF SetToSeq
<1>5. PICK h : h = SetToSeq(S)
  OBVIOUS
<1> HIDE DEF n
<1>6. h \in [1 .. n -> S] /\ IsInjective(h)
  BY <1>4, <1>5
<1>7. h \in Injection(1 .. n, S)
  BY <1>6 DEF Injection
<1>8. IsFiniteSet(1 .. n) /\ Cardinality(1 .. n) = n
  BY <1>1, FS_Interval
<1>9. h \in Surjection(1 .. n, S)
  BY <1>7, <1>8, FS_Injection DEF n
<1>10. \A x \in S : \E k \in 1 .. n : h[k] = x
  BY <1>9 DEF Surjection
<1>11. \A i, j \in 1 .. n : h[i] = h[j] => i = j
  BY <1>6 DEF IsInjective
<1>12. Len(h) = n
  BY <1>1, <1>6
<1> QED
  BY <1>1, <1>5, <1>6, <1>10, <1>11, <1>12 DEF n

(* The free rows in their order: each has a number, from 1 on, and each    *)
(* number has a row.                                                       *)
Numbered(F, a) == Cardinality({b \in F : b <= a})

LEMMA RowsNumbered ==
  ASSUME NEW F, F \subseteq Pieces
  PROVE  /\ Cardinality(F) \in Nat
         /\ \A a \in F : Numbered(F, a) \in 1 .. Cardinality(F)
         /\ \A a, b \in F : Numbered(F, a) = Numbered(F, b) => a = b
         /\ \A k \in 1 .. Cardinality(F) : \E a \in F : Numbered(F, a) = k
<1>1. IsFiniteSet(F) /\ \A a \in F : a \in Int
  <2>1. IsFiniteSet(F)
    BY CalendarAlike, FS_Subset
  <2> QED
    BY <2>1, CalendarAlike
<1> DEFINE R == {p \in F \X F : p[1] < p[2]}
<1>2. P!Strict(R, F)
  <2>1. F \subseteq Int
    BY <1>1
  <2> QED
    BY <2>1, CalendarAlike, P!IntsStrict
<1>3. P!IsFiniteSet(F) /\ P!Cardinality(F) = Cardinality(F)
  BY <1>1, FiniteAlike, SizesAlike
<1>4. ASSUME NEW a \in F
      PROVE  Numbered(F, a) = P!RankIn(R, F, a) + 1
  <2> DEFINE B == P!Preceding(R, F, a)
  <2>1. B = {b \in F : b < a}
    BY DEF P!Preceding
  <2>2. {b \in F : b <= a} = B \cup {a} /\ a \notin B
    BY <1>1, <2>1
  <2>3. IsFiniteSet(B)
    BY <1>1, <2>1, FS_Subset
  <2> HIDE DEF B
  <2>4. Cardinality(B \cup {a}) = Cardinality(B) + 1
    BY <2>2, <2>3, FS_AddElement
  <2>5. P!RankIn(R, F, a) = Cardinality(B)
    BY SizesAlike DEF P!RankIn, B
  <2> QED
    BY <2>2, <2>4, <2>5, Zenon DEF Numbered
<1> HIDE DEF R
<1>5. \A a \in F : P!RankIn(R, F, a) \in Nat /\ P!RankIn(R, F, a) < Cardinality(F)
  BY <1>2, <1>3, CalendarAlike, P!RankBelow
<1>6. \A a, b \in F : P!RankIn(R, F, a) = P!RankIn(R, F, b) => a = b
  BY <1>2, <1>3, CalendarAlike, P!RanksDiffer
<1>7. Cardinality(F) \in Nat
  BY <1>1, FS_CardinalityType
<1>8. \A k \in 1 .. Cardinality(F) : \E a \in F : Numbered(F, a) = k
  <2> DEFINE n == Cardinality(F)
             g == [a \in F |-> Numbered(F, a)]
  <2>1. \A a \in F : Numbered(F, a) \in 1 .. n
    BY <1>4, <1>5, <1>7
  <2>2. \A a, b \in F : Numbered(F, a) = Numbered(F, b) => a = b
    <3> TAKE a, b \in F
    <3>1. /\ P!RankIn(R, F, a) \in Nat /\ Numbered(F, a) = P!RankIn(R, F, a) + 1
          /\ P!RankIn(R, F, b) \in Nat /\ Numbered(F, b) = P!RankIn(R, F, b) + 1
      BY <1>4, <1>5
    <3> QED
      BY <1>6, <3>1
  <2>3. g \in Injection(F, 1 .. n)
    BY <2>1, <2>2 DEF Injection, IsInjective
  <2>4. IsFiniteSet(1 .. n) /\ Cardinality(1 .. n) = n
    BY <1>7, FS_Interval
  <2> HIDE DEF g
  <2>5. g \in Surjection(F, 1 .. n)
    BY <1>1, <2>3, <2>4, FS_Injection
  <2> QED
    BY <2>5 DEF Surjection, g
<1> QED
  BY <1>4, <1>5, <1>6, <1>7, <1>8

-------------------------------------------------------------------------------
(* The net change of a cell, from what each move takes out and brings in.  *)
Leaving(M, c) ==
  [m \in M |-> IF m.piece # None /\ rows.piece[m.piece].cell = c
               THEN QuantityOf(m) ELSE 0]
Entering(M, c) == [m \in M |-> IF m.cell = c THEN QuantityOf(m) ELSE 0]

LEMMA QuantitiesNext ==
  ASSUME NEW M
  PROVE  MapThenSumSet(QuantityOf, M)'
           = P!SumOf([m \in M |-> QuantityOf(m)'], M)
<1> DEFINE q == [m \in M |-> QuantityOf(m)']
           A(g) == g = [s \in SUBSET M |->
                          IF s = {} THEN 0
                          ELSE q[CHOOSE x \in s : TRUE]
                               + g[s \ {CHOOSE x \in s : TRUE}]]
           B(g) == g = [s \in SUBSET M |->
                          IF s = {} THEN 0
                          ELSE QuantityOf(CHOOSE x \in s : TRUE)'
                               + g[s \ {CHOOSE x \in s : TRUE}]]
<1>1. ASSUME NEW g PROVE A(g) <=> B(g)
  <2>1. ASSUME NEW s \in SUBSET M, s # {}
        PROVE  q[CHOOSE x \in s : TRUE] = QuantityOf(CHOOSE x \in s : TRUE)'
    <3>1. (CHOOSE x \in s : TRUE) \in M
      BY <2>1
    <3> QED
      BY <3>1
  <2> HIDE DEF q
  <2> QED
    BY <2>1
<1>2. MapThenSumSet(QuantityOf, M)' = (CHOOSE g : B(g))[M]
  BY DEF MapThenSumSet, MapThenFoldSet
<1>3. P!SumOf(q, M) = (CHOOSE g : A(g))[M]
  BY DEF P!SumOf, P!MapThenSumSet, P!MapThenFoldSet
<1> HIDE DEF A, B
<1>4. (CHOOSE g : A(g)) = (CHOOSE g : B(g))
  BY <1>1
<1> QED
  BY <1>2, <1>3, <1>4 DEF q

LEMMA NetIs ==
  ASSUME NEW M, IsFiniteSet(M), \A m \in M : QuantityOf(m) \in Int, NEW c
  PROVE  /\ P!SumOf(Leaving(M, c), M) \in Int /\ P!SumOf(Entering(M, c), M) \in Int
         /\ NetChange(M, c)
              = P!SumOf(Leaving(M, c), M) - P!SumOf(Entering(M, c), M)
<1> DEFINE A == {m \in M : m.piece # None /\ rows.piece[m.piece].cell = c}
           B == {m \in M : m.cell = c}
           q == [m \in A |-> QuantityOf(m)]
           r == [m \in B |-> QuantityOf(m)]
<1>1. A \subseteq M /\ B \subseteq M
  OBVIOUS
<1>2. /\ \A m \in A : q[m] \in Int
      /\ \A m \in B : r[m] \in Int
  OBVIOUS
<1>3. /\ \A m \in M : Leaving(M, c)[m] = IF m \in A THEN q[m] ELSE 0
      /\ \A m \in M : Entering(M, c)[m] = IF m \in B THEN r[m] ELSE 0
  BY DEF Leaving, Entering
<1>4. NetChange(M, c) = P!SumOf(q, A) - P!SumOf(r, B)
  <2> HIDE DEF A, B
  <2>1. /\ MapThenSumSet(QuantityOf, A) = P!SumOf(q, A)
        /\ MapThenSumSet(QuantityOf, B) = P!SumOf(r, B)
    BY QuantitiesAre
  <2>2. NetChange(M, c) = MapThenSumSet(QuantityOf, A) - MapThenSumSet(QuantityOf, B)
    BY DEF NetChange, A, B
  <2> QED
    BY <2>1, <2>2
<1> HIDE DEF A, B, q, r
<1>5. /\ P!SumOf(q, A) \in Int /\ P!SumOf(Leaving(M, c), M) = P!SumOf(q, A)
      /\ P!SumOf(r, B) \in Int /\ P!SumOf(Entering(M, c), M) = P!SumOf(r, B)
  BY <1>1, <1>2, <1>3, SumWhere
<1> QED
  BY <1>4, <1>5

LEMMA NetNext ==
  ASSUME NEW M, IsFiniteSet(M), \A m \in M : QuantityOf(m)' \in Int, NEW c
  PROVE  NetChange(M, c)'
           = P!SumOf(Leaving(M, c)', M) - P!SumOf(Entering(M, c)', M)
<1>0. PICK A : A = {m \in M : m.piece # None /\ rows'.piece[m.piece].cell = c}
  OBVIOUS
<1> DEFINE B == {m \in M : m.cell = c}
           q == [m \in A |-> QuantityOf(m)']
           r == [m \in B |-> QuantityOf(m)']
<1>1. A \subseteq M /\ B \subseteq M
  BY <1>0
<1>2. /\ \A m \in A : q[m] \in Int
      /\ \A m \in B : r[m] \in Int
  BY <1>0
<1>3. PICK u, v : u = Leaving(M, c)' /\ v = Entering(M, c)'
  OBVIOUS
<1>4. /\ \A m \in M : u[m] = IF m \in A THEN q[m] ELSE 0
      /\ \A m \in M : v[m] = IF m \in B THEN r[m] ELSE 0
  BY <1>0, <1>3 DEF Leaving, Entering
<1>5. NetChange(M, c)' = P!SumOf(q, A) - P!SumOf(r, B)
  <2> HIDE DEF B
  <2>1. /\ MapThenSumSet(QuantityOf, A)' = P!SumOf(q, A)
        /\ MapThenSumSet(QuantityOf, B)' = P!SumOf(r, B)
    BY QuantitiesNext
  <2>2. NetChange(M, c)' = MapThenSumSet(QuantityOf, A)' - MapThenSumSet(QuantityOf, B)'
    BY <1>0 DEF NetChange, B
  <2> QED
    BY <2>1, <2>2
<1> HIDE DEF B, q, r
<1>6. /\ P!SumOf(q, A) \in Int /\ P!SumOf(u, M) = P!SumOf(q, A)
      /\ P!SumOf(r, B) \in Int /\ P!SumOf(v, M) = P!SumOf(r, B)
  BY <1>1, <1>2, <1>4, SumWhere
<1> QED
  BY <1>3, <1>5, <1>6, Zenon

-------------------------------------------------------------------------------
(* A step that writes work of the orders of the types T and to the cells   *)
(* of their factories; where it writes elsewhere, the cells are astray.    *)
WritesTo(T) ==
  /\ hist.astray \subseteq hist'.astray
  /\ \A t \in Types : /\ hist.marks[t] <= hist'.marks[t]
                      /\ t \in T => hist.marks[t] < hist'.marks[t]
  /\ \A c \in Cells \ hist'.astray : FactoryType[c[1]] \notin T => room'[c] = room[c]
  /\ \A a \in Pieces : rows'.piece[a] # rows.piece[a] =>
       /\ rows.piece[a] # None => OrderType[rows.piece[a].order] \in T
       /\ rows'.piece[a] # None => OrderType[rows'.piece[a].order] \in T

(* A plan stays good: it is overtaken, or what it was given is still there.*)
LEMMA PlanKept ==
  ASSUME TablesOK, TablesOK', NEW T, WritesTo(T), NEW plan, Good(plan)
  PROVE  Good(plan)'
<1> DEFINE t == plan.type
<1>1. PlanOK(plan)'
  BY DEF Good, PlanOK
<1>2. /\ t \in Types /\ plan.marks[t] \in Nat /\ plan.marks[t] <= hist.marks[t]
      /\ hist.marks[t] \in Nat /\ hist'.marks[t] \in Nat
  BY DEF Good, PlanOK, PlanFits, UpToDate, TablesOK, Histories
<1>3. hist.marks[t] <= hist'.marks[t] /\ (t \in T => hist.marks[t] < hist'.marks[t])
  BY <1>2 DEF WritesTo
<1>4. plan.marks[t] <= hist'.marks[t]
  BY <1>2, <1>3
<1>5. ASSUME plan.marks[t] = hist'.marks[t], NEW c \in OwnCells(t) \ hist'.astray
      PROVE  /\ plan.in.read[c] = room'[c]
             /\ plan.in.left[c] = room'[c] + Total(Freed(plan, c))'
  <2>1. plan.marks[t] = hist.marks[t] /\ t \notin T
    BY <1>2, <1>3, <1>5
  <2>2. c \in OwnCells(t) \ hist.astray /\ FactoryType[c[1]] = t /\ c \in Cells
    BY DEF WritesTo, OwnCells
  <2>3. /\ plan.in.read[c] = room[c]
        /\ plan.in.left[c] = room[c] + Total(Freed(plan, c))
    BY <2>1, <2>2 DEF Good, UpToDate
  <2>4. room'[c] = room[c]
    BY <2>1, <2>2 DEF WritesTo
  <2>5. PICK I, J : I = Freed(plan, c) /\ J = Freed(plan, c)'
    OBVIOUS
  <2>6. \A a \in Pieces : a \in I \/ a \in J => rows'.piece[a] = rows.piece[a]
    <3> TAKE a \in Pieces
    <3>1. a \in I => rows.piece[a] # None /\ OrderType[rows.piece[a].order] = t
      BY <2>5 DEF Freed, Deleted, Good, PlanOK, PlanFits
    <3>2. a \in J => rows'.piece[a] # None /\ OrderType[rows'.piece[a].order] = t
      BY <2>5 DEF Freed, Deleted, Good, PlanOK, PlanFits
    <3> QED
      BY <2>1, <3>1, <3>2 DEF WritesTo
  <2>7. I \subseteq Pieces /\ J \subseteq Pieces
    BY <2>5 DEF Freed, Deleted
  <2>8. \A a \in Pieces : a \in I <=> a \in J
    BY <2>5, <2>6 DEF Freed, Deleted
  <2>9. I = J
    BY <2>7, <2>8
  <2>10. [a \in I |-> rows'.piece[a].qty] = [a \in I |-> rows.piece[a].qty]
    BY <2>6, <2>7
  <2>11. Total(I)' = Total(I)
    <3>1. PICK q : q = [a \in I |-> rows.piece[a].qty]
      OBVIOUS
    <3>2. Total(I) = P!SumOf(q, I)
      BY <3>1, TotalIs
    <3>3. Total(I)' = P!SumOf(q, I)
      BY <2>10, <3>1, TotalNext
    <3> QED
      BY <3>2, <3>3
  <2>12. Total(Freed(plan, c)) = Total(I) /\ Total(Freed(plan, c))' = Total(J)'
    BY <2>5
  <2>13. Total(I)' = Total(J)'
    BY <2>9
  <2> QED
    BY <2>3, <2>4, <2>11, <2>12, <2>13
<1>6. UpToDate(plan)'
  BY <1>4, <1>5 DEF UpToDate, OwnCells
<1> QED
  BY <1>1, <1>6 DEF Good

(* Who saves, saves moves that are in order, of work that is there.        *)
LEMMA SavingFacts ==
  ASSUME IInv, Ledger, NEW p \in Planners, Doing(p, "bulk", call[p].at),
         call[p].at # "idle"
  PROVE  /\ MovesOK(Moves(p)) /\ IsFiniteSet(Acting(p))
         /\ Acting(p) \subseteq Moves(p)
<1>1. call[p].queue # <<>> /\ Head(call[p].queue).kind = "bulk"
  BY DEF Doing
<1>2. Saves(p) /\ QueueOK(call[p].queue)
  BY DEF Ledger, Saves
<1>3. PICK X : /\ call[p].queue \in Seq(X)
               /\ \A c \in X : c.kind = "bulk" => MovesOK(c.moves)
  BY <1>2 DEF QueueOK
<1>4. Head(call[p].queue) \in X
  BY <1>1, <1>3
<1>5. MovesOK(Moves(p))
  BY <1>1, <1>3, <1>4 DEF Moves
<1>6. Acting(p) \subseteq Moves(p)
  BY DEF Acting
<1> QED
  BY <1>5, <1>6, FS_Subset DEF MovesOK

LEMMA MovedWork ==
  ASSUME IInv, Ledger, NEW p \in Planners, Doing(p, "bulk", call[p].at),
         call[p].at \in {"read", "write"}, NEW m \in Moves(p)
  PROVE  /\ m.cell \in Cells /\ OrderOf(m) \in Orders
         /\ QuantityOf(m) \in Nat \ {0}
         /\ lock[OrderType[OrderOf(m)]] = p
         /\ m.piece # None =>
              /\ m.piece \in Pieces /\ rows.piece[m.piece] \in Work
              /\ rows.piece[m.piece] # None
         /\ m.piece = None => m.order \in Orders /\ ~InPlace(m)
<1>1. MovesOK(Moves(p))
  BY SavingFacts
<1>2. Found(m) /\ lock[OrderType[OrderOf(m)]] = p
  BY DEF IInv, PageOK, MovesHeld
<1>3. OrderOf(m) \in Orders /\ m.cell \in Cells
  BY <1>1, <1>2 DEF Found, MovesOK
<1>4. ASSUME m.piece # None
      PROVE  m.piece \in Pieces /\ rows.piece[m.piece] \in Work
             /\ rows.piece[m.piece] # None
  BY <1>2, <1>4 DEF Found, Ledger, RowsOK
<1>5. m.piece = None => m.order \in Orders /\ ~InPlace(m)
  BY <1>3 DEF OrderOf, InPlace
<1>6. QuantityOf(m) \in Nat \ {0}
  BY <1>1, <1>4 DEF QuantityOf, MovesOK, Work
<1> QED
  BY <1>2, <1>3, <1>4, <1>5, <1>6

(* What a save has found to fit still fits after what others write.        *)
LEMMA FitKept ==
  ASSUME IInv, Ledger, NEW T, WritesTo(T), NEW q \in Planners,
         call'[q] = call[q],
         \A t \in Types : (t \in T => lock[t] # q) /\ (lock'[t] = q => lock[t] = q)
  PROVE  FitsStill(q)'
<1> SUFFICES ASSUME Doing(q, "bulk", "write")', NEW c \in Cells \ hist'.astray,
                    lock'[FactoryType[c[1]]] = q
             PROVE  ~Short(Acting(q), c)'
  BY Zenon DEF FitsStill
<1>0. Doing(q, "bulk", "write") /\ call[q].at = "write"
  BY DEF Doing
<1>1. FactoryType[c[1]] \in Types
  BY PlanAssumption DEF Cells
<1>2. lock[FactoryType[c[1]]] = q /\ FactoryType[c[1]] \notin T
  BY <1>1
<1>3. c \notin hist.astray /\ room'[c] = room[c]
  BY <1>2 DEF WritesTo
<1>4. ~Short(Acting(q), c)
  BY <1>0, <1>2, <1>3 DEF Ledger, FitsStill
<1>5. Moves(q)' = Moves(q)
  BY DEF Moves
<1>6. Doing(q, "bulk", call[q].at) /\ call[q].at # "idle"
  BY <1>0
<1>7. ASSUME NEW m \in Moves(q)
      PROVE  /\ m.piece # None => rows'.piece[m.piece] = rows.piece[m.piece]
             /\ QuantityOf(m) \in Nat
  <2>1. /\ OrderOf(m) \in Orders /\ lock[OrderType[OrderOf(m)]] = q
        /\ QuantityOf(m) \in Nat
        /\ m.piece # None => m.piece \in Pieces /\ rows.piece[m.piece] # None
    BY <1>0, <1>6, MovedWork
  <2>2. OrderType[OrderOf(m)] \in Types
    BY <2>1, PlanAssumption
  <2>3. OrderType[OrderOf(m)] \notin T
    BY <2>1, <2>2
  <2> QED
    BY <2>1, <2>3 DEF WritesTo, OrderOf
<1>8. PICK M : M = Acting(q)
  OBVIOUS
<1>9. \A m \in Moves(q) : InPlace(m)' <=> InPlace(m)
  BY <1>7 DEF InPlace
<1>10. Acting(q)' = M
  BY <1>5, <1>8, <1>9 DEF Acting
<1>11. M \subseteq Moves(q) /\ IsFiniteSet(M)
  BY <1>6, <1>8, SavingFacts
<1>12. \A m \in M : QuantityOf(m) \in Int /\ QuantityOf(m)' = QuantityOf(m)
  BY <1>7, <1>11 DEF QuantityOf
<1>13. Leaving(M, c)' = Leaving(M, c) /\ Entering(M, c)' = Entering(M, c)
  BY <1>7, <1>11, <1>12 DEF Leaving, Entering
<1>14. NetChange(M, c)' = NetChange(M, c)
  <2>1. NetChange(M, c)
          = P!SumOf(Leaving(M, c), M) - P!SumOf(Entering(M, c), M)
    BY <1>11, <1>12, NetIs
  <2>2. NetChange(M, c)'
          = P!SumOf(Leaving(M, c)', M) - P!SumOf(Entering(M, c)', M)
    BY <1>11, <1>12, NetNext
  <2> QED
    BY <1>13, <2>1, <2>2
<1>15. Short(Acting(q), c)' <=> Short(M, c)'
  BY <1>10
<1>16. Short(M, c)' <=> Short(M, c)
  BY <1>3, <1>14 DEF Short
<1> QED
  BY <1>4, <1>8, <1>15, <1>16

-------------------------------------------------------------------------------
(* The ledger after a step of planner p that writes to the types T: of the *)
(* other planners nothing has to be shown.                                 *)
LEMMA LedgerKept ==
  ASSUME IInv, IInv', Ledger, NEW p \in Planners, NEW T, WritesTo(T),
         RowsOK', CapacityKept',
         \A q \in Planners \ {p} :
           /\ board'[q] = board[q] /\ call'[q] = call[q] /\ ask'[q] = ask[q]
           /\ \A t \in Types : /\ t \in T => lock[t] # q
                               /\ lock'[t] = q => lock[t] = q,
         EditsOK(board[p].edits)', Saves(p)' => QueueOK(call[p].queue)',
         FitsStill(p)',
         \A plan \in PlansInHand(p)' : plan \in PlansInHand(p) \/ Good(plan)'
  PROVE  Ledger'
<1>1. TablesOK /\ TablesOK'
  BY DEF IInv
<1>2. ASSUME NEW q \in Planners
      PROVE  /\ EditsOK(board[q].edits)' /\ (Saves(q)' => QueueOK(call[q].queue)')
             /\ FitsStill(q)'
             /\ \A plan \in PlansInHand(q)' : plan \in PlansInHand(q) \/ Good(plan)'
  <2>1. CASE q = p
    BY <2>1
  <2>2. CASE q # p
    <3>1. /\ board'[q] = board[q] /\ call'[q] = call[q] /\ ask'[q] = ask[q]
          /\ \A t \in Types : (t \in T => lock[t] # q) /\ (lock'[t] = q => lock[t] = q)
      BY <2>2
    <3>2. FitsStill(q)'
      BY <3>1, FitKept
    <3>3. EditsOK(board[q].edits) /\ (Saves(q) => QueueOK(call[q].queue))
      BY DEF Ledger
    <3>4. EditsOK(board[q].edits)' /\ (Saves(q)' => QueueOK(call[q].queue)')
      BY <3>1, <3>3 DEF EditsOK, QueueOK, Saves
    <3>5. PlansInHand(q)' = PlansInHand(q)
      BY <3>1 DEF PlansInHand
    <3> QED
      BY <3>2, <3>4, <3>5
  <2> QED
    BY <2>1, <2>2
<1>3. ASSUME NEW q \in Planners, NEW plan \in PlansInHand(q)'
      PROVE  Good(plan)'
  <2>1. plan \in PlansInHand(q) => Good(plan)
    BY DEF Ledger
  <2>2. plan \in PlansInHand(q) => Good(plan)'
    BY <1>1, <2>1, PlanKept
  <2> QED
    BY <1>2, <2>2
<1> QED
  BY <1>2, <1>3 DEF Ledger

(* A step that leaves the work and the capacities as they are.             *)
Still(p) ==
  /\ rows'.piece = rows.piece /\ room' = room /\ hist'.astray = hist.astray
  /\ \A t \in Types : hist.marks[t] <= hist'.marks[t]
  /\ \A q \in Planners \ {p} :
       /\ board'[q] = board[q] /\ call'[q] = call[q] /\ ask'[q] = ask[q]
       /\ \A t \in Types : lock'[t] = q => lock[t] = q

LEMMA StillKept ==
  ASSUME IInv, IInv', Ledger, NEW p \in Planners, Still(p),
         EditsOK(board[p].edits)', Saves(p)' => QueueOK(call[p].queue)',
         FitsStill(p)',
         \A plan \in PlansInHand(p)' : plan \in PlansInHand(p) \/ Good(plan)'
  PROVE  Ledger'
<1>1. RowsOK /\ CapacityKept
  BY DEF Ledger
<1>2. RowsOK'
  BY <1>1 DEF RowsOK, Still
<1>3. CapacityKept'
  <2>1. ASSUME NEW c \in Cells \ hist'.astray
        PROVE  Balanced(c)'
    <3>1. Balanced(c)
      BY <1>1, KeptByCell DEF Still
    <3>2. Total(In(c)) = P!SumOf(Weight(rows.piece, c), Pieces)
      BY <1>1, InIs DEF RowsOK
    <3>3. Total(In(c))' = P!SumOf(Weight(rows'.piece, c), Pieces)
      BY <1>2, InNext DEF RowsOK
    <3>4. Total(In(c))' = Total(In(c))
      BY <3>2, <3>3 DEF Still
    <3> QED
      BY <3>1, <3>4 DEF Balanced, Still
  <2> QED
    BY <2>1, KeptByCell
<1>4. WritesTo({})
  BY DEF Still, WritesTo
<1>5. \A q \in Planners \ {p} :
           /\ board'[q] = board[q] /\ call'[q] = call[q] /\ ask'[q] = ask[q]
           /\ \A t \in Types : /\ t \in {} => lock[t] # q
                               /\ lock'[t] = q => lock[t] = q
  BY DEF Still
<1> QED
  BY <1>2, <1>3, <1>4, <1>5, LedgerKept

(* A step of a page whose save does not go on.                             *)
LEMMA PageKept ==
  ASSUME IInv, IInv', Ledger, NEW p \in Planners, Still(p), call'[p] = call[p],
         \A t \in Types : lock'[t] = p => lock[t] = p,
         board'[p].edits # board[p].edits => EditsOK(board[p].edits)',
         \A plan \in PlansInHand(p)' : plan \in PlansInHand(p) \/ Good(plan)'
  PROVE  Ledger'
<1>1. WritesTo({})
  BY DEF Still, WritesTo
<1>2. FitsStill(p)'
  BY <1>1, FitKept
<1>3. EditsOK(board[p].edits) /\ (Saves(p) => QueueOK(call[p].queue))
  BY DEF Ledger
<1>4. EditsOK(board[p].edits)'
  BY <1>3 DEF EditsOK
<1>5. Saves(p)' => QueueOK(call[p].queue)'
  BY <1>3 DEF Saves, QueueOK
<1> QED
  BY <1>2, <1>4, <1>5, StillKept

(* Where the marks do not move, they have not gone back.                   *)
LEMMA MarksStand ==
  ASSUME IInv, hist'.marks = hist.marks
  PROVE  \A t \in Types : hist.marks[t] <= hist'.marks[t]
<1>1. \A t \in Types : hist.marks[t] \in Nat
  BY DEF IInv, TablesOK, Histories
<1> QED
  BY <1>1

-------------------------------------------------------------------------------
(* What is edited on a page can be sent: pieces and parts go to cells.     *)
LEMMA SceneFits ==
  ASSUME IInv
  PROVE  /\ Scenes[scene].targets \subseteq Cells /\ Scenes[scene].start \in Int
         /\ \A f \in Scenes[scene].parts : \A i \in DOMAIN f : f[i] \in Nat \ {0}
  BY SceneAssumption DEF IInv, TablesOK, Scene

LEMMA MoveEdited ==
  ASSUME NEW e, EditsOK(e), NEW a \in Pieces, NEW c \in Cells \cup {None, Staging}
  PROVE  EditsOK([e EXCEPT !.moves[a] = c])
  BY DEF EditsOK

LEMMA PlaceEdited ==
  ASSUME NEW e, EditsOK(e), NEW o \in Orders, NEW c \in Cells
  PROVE  EditsOK([e EXCEPT !.place[o] = c])
  BY DEF EditsOK

LEMMA SplitEdited ==
  ASSUME NEW e, EditsOK(e), NEW o \in Orders, NEW f,
         \A i \in DOMAIN f : f[i] \in Nat \ {0}
  PROVE  EditsOK([e EXCEPT !.split[o] = f])
  BY DEF EditsOK

LEMMA PartEdited ==
  ASSUME NEW e, EditsOK(e),
         NEW f \in [Parts -> [cell : Cells, qty : Nat \ {0}] \cup {None}]
  PROVE  EditsOK([e EXCEPT !.part = f])
  BY DEF EditsOK

LEMMA FlagEdited ==
  ASSUME NEW e, EditsOK(e), NEW field \in {"fixed", "prio"}, NEW o, NEW v
  PROVE  EditsOK([e EXCEPT ![field][o] = v])
<1>1. PICK w : w = [e[field] EXCEPT ![o] = v]
  OBVIOUS
<1>2. PICK r : r = [e EXCEPT ![field] = w]
  OBVIOUS
<1>3. [e EXCEPT ![field][o] = v] = r
  BY <1>1, <1>2
<1>4. /\ DOMAIN r = {"moves", "place", "split", "part", "fixed", "prio"}
      /\ r = [x \in DOMAIN e |-> r[x]]
      /\ r.moves = e.moves /\ r.place = e.place /\ r.split = e.split /\ r.part = e.part
  BY <1>2 DEF EditsOK
<1>5. r = [moves |-> r.moves, place |-> r.place, split |-> r.split,
           part |-> r.part, fixed |-> r.fixed, prio |-> r.prio]
  BY <1>4
<1>6. EditsOK(r)
  BY <1>4, <1>5 DEF EditsOK
<1> QED
  BY <1>3, <1>6

LEMMA EditsStayOK ==
  ASSUME IInv, Ledger, NEW p \in Planners,
         \/ \E a \in Pieces : Stage(p, a) \/ \E c \in Scenes[scene].targets : Drag(p, a, c)
         \/ \E o \in Orders :
              \/ UndoSplit(p, o)
              \/ \E c \in Scenes[scene].targets : Place(p, o, c)
              \/ \E parts \in Scenes[scene].parts : ConfirmSplit(p, o, parts)
              \/ \E i \in 1 .. MaxParts, c \in Scenes[scene].targets :
                   PlacePart(p, o, i, c)
              \/ \E field \in {"fixed", "prio"} : Toggle(p, field, o)
  PROVE  \E op, edits : EditsOK(edits) /\ Edited(p, op, edits)
<1> DEFINE e == board[p].edits
<1>1. EditsOK(e)
  BY DEF Ledger
<1>2. CASE \E a \in Pieces : Stage(p, a)
  <2>1. PICK a \in Pieces : Stage(p, a)
    BY <1>2
  <2>2. EditsOK([e EXCEPT !.moves[a] = Staging])
    BY <1>1, MoveEdited
  <2> QED
    BY <2>1, <2>2 DEF Stage
<1>3. CASE \E a \in Pieces : \E c \in Scenes[scene].targets : Drag(p, a, c)
  <2>1. PICK a \in Pieces, c \in Scenes[scene].targets : Drag(p, a, c)
    BY <1>3
  <2> DEFINE x == IF c = Item(p, a).cell THEN None ELSE c
  <2>2. x \in Cells \cup {None, Staging}
    BY SceneFits
  <2>3. EditsOK([e EXCEPT !.moves[a] = x])
    BY <1>1, <2>2, MoveEdited
  <2> QED
    BY <2>1, <2>3 DEF Drag
<1>4. CASE \E o \in Orders : UndoSplit(p, o)
  <2>1. PICK o \in Orders : UndoSplit(p, o)
    BY <1>4
  <2> DEFINE f == [s \in Parts |-> IF s[1] = o THEN None ELSE e.part[s]]
             x == [e EXCEPT !.split[o] = <<>>]
             y == [x EXCEPT !.part = f]
             z == [e EXCEPT !.split[o] = <<>>, !.part = f]
  <2>2. f \in [Parts -> [cell : Cells, qty : Nat \ {0}] \cup {None}]
    BY <1>1 DEF EditsOK
  <2>3. EditsOK(x)
    BY <1>1, SplitEdited
  <2>4. Edited(p, "split", z)
    BY <2>1 DEF UndoSplit
  <2> HIDE DEF f
  <2>5. y = z
    OBVIOUS
  <2> HIDE DEF x, z
  <2>6. EditsOK(y)
    BY <2>2, <2>3, PartEdited
  <2> QED
    BY <2>4, <2>5, <2>6
<1>5. CASE \E o \in Orders : \E c \in Scenes[scene].targets : Place(p, o, c)
  <2>1. PICK o \in Orders, c \in Scenes[scene].targets : Place(p, o, c)
    BY <1>5
  <2>2. EditsOK([e EXCEPT !.place[o] = c])
    BY <1>1, SceneFits, PlaceEdited
  <2> QED
    BY <2>1, <2>2 DEF Place
<1>6. CASE \E o \in Orders : \E parts \in Scenes[scene].parts : ConfirmSplit(p, o, parts)
  <2>1. PICK o \in Orders, parts \in Scenes[scene].parts : ConfirmSplit(p, o, parts)
    BY <1>6
  <2>2. EditsOK([e EXCEPT !.split[o] = parts])
    BY <1>1, SceneFits, SplitEdited
  <2> QED
    BY <2>1, <2>2 DEF ConfirmSplit
<1>7. CASE \E o \in Orders : \E i \in 1 .. MaxParts, c \in Scenes[scene].targets :
             PlacePart(p, o, i, c)
  <2>1. PICK o \in Orders, i \in 1 .. MaxParts, c \in Scenes[scene].targets :
               PlacePart(p, o, i, c)
    BY <1>7
  <2> DEFINE x == [cell |-> c, qty |-> e.split[o][i]]
             f == [e.part EXCEPT ![<<o, i>>] = x]
  <2>2. x \in [cell : Cells, qty : Nat \ {0}]
    BY <1>1, <2>1, SceneFits DEF PlacePart, EditsOK
  <2>3. f \in [Parts -> [cell : Cells, qty : Nat \ {0}] \cup {None}]
    <3> HIDE DEF x
    <3> QED
      BY <1>1, <2>2 DEF EditsOK
  <2>4. EditsOK([e EXCEPT !.part = f])
    BY <1>1, <2>3, PartEdited
  <2>5. [e EXCEPT !.part = f] = [e EXCEPT !.part[<<o, i>>] = x]
    OBVIOUS
  <2> QED
    BY <2>1, <2>4, <2>5 DEF PlacePart
<1>8. CASE \E o \in Orders : \E field \in {"fixed", "prio"} : Toggle(p, field, o)
  <2>1. PICK o \in Orders, field \in {"fixed", "prio"} : Toggle(p, field, o)
    BY <1>8
  <2> DEFINE v == IF (~Flagged(p, field, o)) = Baseline(p, field, o) THEN None
                  ELSE ~Flagged(p, field, o)
  <2>2. EditsOK([e EXCEPT ![field][o] = v])
    BY <1>1, FlagEdited
  <2>3. Edited(p, field, [e EXCEPT ![field][o] = v])
    BY <2>1, Zenon DEF Toggle
  <2> QED
    BY <2>2, <2>3
<1> QED
  BY <1>2, <1>3, <1>4, <1>5, <1>6, <1>7, <1>8

(* The steps of a page alone: a refresh, the edit mode, the edits, and     *)
(* what is shown no more.                                                  *)
LEMMA PageAlone ==
  ASSUME IInv, IInv', Ledger, NEW p \in Planners,
         UNCHANGED <<rows, room, lock, call, ask>>,
         hist'.marks = hist.marks, hist'.astray = hist.astray,
         \A q \in Planners \ {p} : board'[q] = board[q],
         board'[p].shown \in {board[p].shown, None},
         board'[p].edits = board[p].edits \/ EditsOK(board'[p].edits)
  PROVE  Ledger'
<1>1. Still(p)
  BY MarksStand DEF Still
<1>2. board'[p].edits # board[p].edits => EditsOK(board[p].edits)'
  BY DEF EditsOK
<1>3. \A plan \in PlansInHand(p)' : plan \in PlansInHand(p)
  BY DEF PlansInHand
<1> QED
  BY <1>1, <1>2, <1>3, PageKept

LEMMA HistoryFields ==
  ASSUME IInv
  PROVE  /\ hist \in Histories
         /\ \A q, x :
              /\ [hist EXCEPT !.edits[q] = x].marks = hist.marks
              /\ [hist EXCEPT !.edits[q] = x].astray = hist.astray
              /\ [hist EXCEPT !.saves[q] = x].marks = hist.marks
              /\ [hist EXCEPT !.saves[q] = x].astray = hist.astray
              /\ [hist EXCEPT !.fetches[q] = x].marks = hist.marks
              /\ [hist EXCEPT !.fetches[q] = x].astray = hist.astray
              /\ [hist EXCEPT !.asks[q] = x].marks = hist.marks
              /\ [hist EXCEPT !.asks[q] = x].astray = hist.astray
         /\ \A x : /\ [hist EXCEPT !.lopsided = x].marks = hist.marks
                   /\ [hist EXCEPT !.lopsided = x].astray = hist.astray
<1>1. hist \in Histories
  BY DEF IInv, TablesOK
<1> QED
  BY <1>1 DEF Histories

LEMMA RefreshLedger ==
  ASSUME IInv, IInv', Ledger, NEW p \in Planners, FetchRows(p) \/ FetchVersions(p),
         UNCHANGED desk
  PROVE  Ledger'
<1>1. ask' = ask
  BY DEF desk
<1>2. DOMAIN board = Planners /\ BoardShape(board[p])
  BY PageFacts
<1>3. CASE FetchRows(p)
  <2>1. hist'.marks = hist.marks /\ hist'.astray = hist.astray
    BY <1>3, HistoryFields DEF FetchRows
  <2> QED
    BY <1>1, <1>3, <2>1, PageAlone DEF FetchRows
<1>4. CASE FetchVersions(p)
  <2>1. PICK x : board' = [board EXCEPT ![p].data = x]
    BY <1>4 DEF FetchVersions
  <2>2. /\ board'[p].shown = board[p].shown /\ board'[p].edits = board[p].edits
        /\ \A q \in Planners \ {p} : board'[q] = board[q]
    BY <1>2, <2>1 DEF BoardShape
  <2> QED
    BY <1>1, <1>4, <2>2, PageAlone DEF FetchVersions
<1> QED
  BY <1>3, <1>4

-------------------------------------------------------------------------------
(* What a save sends: flags, and all moves at once.                        *)
LEMMA ImageFinite ==
  ASSUME NEW S, IsFiniteSet(S), NEW f
  PROVE  IsFiniteSet({f[x] : x \in S})
<1> DEFINE T == {f[x] : x \in S}
           g == [x \in S |-> f[x]]
<1>1. g \in Surjection(S, T)
  BY DEF Surjection
<1> HIDE DEF T, g
<1>2. IsFiniteSet(T)
  BY <1>1, FS_Surjection DEF ExistsSurjection
<1> QED
  BY <1>2 DEF T

LEMMA MovesOfOK ==
  ASSUME NEW e, EditsOK(e), \A a \in Pieces : e.moves[a] # Staging
  PROVE  MovesOK(MovesOf(e))
<1> DEFINE S1 == {x \in Pieces : e.moves[x] # None}
           S2 == {x \in Orders : e.place[x] # None}
           S3 == {x \in Parts : e.part[x] # None}
           f1 == [a \in S1 |-> [piece |-> a, cell |-> e.moves[a]]]
           f2 == [o \in S2 |-> [piece |-> None, order |-> o, part |-> 0,
                                cell |-> e.place[o], qty |-> Quantity[o]]]
           f3 == [s \in S3 |-> [piece |-> None, order |-> s[1], part |-> s[2],
                                cell |-> e.part[s].cell, qty |-> e.part[s].qty]]
           A1 == {f1[a] : a \in S1}
           A2 == {f2[o] : o \in S2}
           A3 == {f3[s] : s \in S3}
<1>1. MovesOf(e) = (A1 \cup A2) \cup A3
  BY DEF MovesOf
<1>2. IsFiniteSet(S1) /\ IsFiniteSet(S2) /\ IsFiniteSet(S3)
  <2>1. IsFiniteSet(1 .. MaxParts)
    BY PlanAssumption, FS_Interval
  <2>2. IsFiniteSet(Parts)
    BY <2>1, CalendarAlike, FS_Product DEF Parts
  <2> QED
    BY <2>2, CalendarAlike, FS_Subset
<1>3. \A m \in A1 : m.piece \in Pieces /\ m.cell \in Cells /\ m.cell = e.moves[m.piece]
                    /\ m = [piece |-> m.piece, cell |-> m.cell]
  <2> SUFFICES ASSUME NEW a \in S1
               PROVE  LET m == f1[a] IN
                      m.piece \in Pieces /\ m.cell \in Cells /\ m.cell = e.moves[m.piece]
                      /\ m = [piece |-> m.piece, cell |-> m.cell]
    OBVIOUS
  <2>1. e.moves[a] \in Cells
    BY DEF EditsOK
  <2> QED
    BY <2>1
<1>4. \A m \in A2 : m.piece = None /\ m.cell \in Cells /\ m.qty \in Nat \ {0}
  <2> SUFFICES ASSUME NEW o \in S2
               PROVE  LET m == f2[o] IN
                      m.piece = None /\ m.cell \in Cells /\ m.qty \in Nat \ {0}
    OBVIOUS
  <2>1. e.place[o] \in Cells /\ Quantity[o] \in Nat \ {0}
    BY PlanAssumption DEF EditsOK
  <2> QED
    BY <2>1
<1>5. \A m \in A3 : m.piece = None /\ m.cell \in Cells /\ m.qty \in Nat \ {0}
  <2> SUFFICES ASSUME NEW s \in S3
               PROVE  LET m == f3[s] IN
                      m.piece = None /\ m.cell \in Cells /\ m.qty \in Nat \ {0}
    OBVIOUS
  <2>1. e.part[s] \in [cell : Cells, qty : Nat \ {0}]
    BY DEF EditsOK
  <2> QED
    BY <2>1
<1> HIDE DEF S1, S2, S3, f1, f2, f3
<1>6. IsFiniteSet(A1) /\ IsFiniteSet(A2) /\ IsFiniteSet(A3)
  BY <1>2, ImageFinite
<1> HIDE DEF A1, A2, A3
<1>7. IsFiniteSet((A1 \cup A2) \cup A3)
  BY <1>6, FS_Union
<1>8. ASSUME NEW m \in MovesOf(e)
      PROVE  m.cell \in Cells /\ (m.piece = None => m.qty \in Nat \ {0})
  BY <1>1, <1>3, <1>4, <1>5, CalendarAlike
<1>9. ASSUME NEW m \in MovesOf(e), NEW n \in MovesOf(e), m.piece # None,
             m.piece = n.piece
      PROVE  m = n
  <2>1. m \in A1 /\ n \in A1
    BY <1>1, <1>4, <1>5, <1>9
  <2> QED
    BY <1>3, <1>9, <2>1
<1> QED
  BY <1>1, <1>7, <1>8, <1>9 DEF MovesOK

LEMMA FlagCallsSeq ==
  ASSUME NEW p, NEW field, NEW value
  PROVE  \E X : FlagCalls(p, field, value) \in Seq(X) /\ \A c \in X : c.kind = "flag"
<1> DEFINE C == Changed(p, field, value)
           q == FlagCalls(p, field, value)
           X == {q[k] : k \in DOMAIN q}
<1>1. C \subseteq Orders
  BY DEF Changed
<1>2. IsFiniteSet(C)
  BY <1>1, CalendarAlike, FS_Subset
<1>3. Cardinality(C) \in Nat
  BY <1>2, FS_CardinalityType
<1>5. q = [k \in 1 .. Cardinality(C) |->
            [kind |-> "flag", field |-> field,
             order |-> CHOOSE o \in C : Cardinality({x \in C : x <= o}) = k,
             value |-> value]]
  BY Zenon DEF FlagCalls
<1>6. DOMAIN q = 1 .. Cardinality(C) /\ \A k \in DOMAIN q : q[k].kind = "flag"
  <2> HIDE DEF C, q
  <2> QED
    BY <1>3, <1>5
<1>7. q \in Seq(X)
  <2>1. q = [k \in DOMAIN q |-> q[k]]
    BY <1>5
  <2> HIDE DEF q
  <2>2. q \in [1 .. Cardinality(C) -> X]
    BY <1>6, <2>1
  <2> HIDE DEF C, X
  <2> QED
    BY <1>3, <2>2
<1>8. \A c \in X : c.kind = "flag"
  BY <1>6
<1> QED
  BY <1>7, <1>8

LEMMA CallsOK ==
  ASSUME IInv, Ledger, NEW p \in Planners,
         \A a \in Pieces : board[p].edits.moves[a] # Staging
  PROVE  QueueOK(Calls(p))
<1> DEFINE M == MovesOf(board[p].edits)
           B == [kind |-> "bulk", moves |-> M]
<1>1. MovesOK(M)
  BY MovesOfOK DEF Ledger
<1>2. PICK X1 : /\ FlagCalls(p, "fixed", FALSE) \in Seq(X1)
                /\ \A c \in X1 : c.kind = "flag"
  BY FlagCallsSeq
<1>3. PICK X2 : /\ FlagCalls(p, "fixed", TRUE) \in Seq(X2)
                /\ \A c \in X2 : c.kind = "flag"
  BY FlagCallsSeq
<1>4. PICK X3 : /\ FlagCalls(p, "prio", TRUE) \in Seq(X3)
                /\ \A c \in X3 : c.kind = "flag"
  BY FlagCallsSeq
<1>5. PICK X4 : /\ FlagCalls(p, "prio", FALSE) \in Seq(X4)
                /\ \A c \in X4 : c.kind = "flag"
  BY FlagCallsSeq
<1> DEFINE X == {B} \cup X1 \cup X2 \cup X3 \cup X4
           Y == IF M # {} THEN <<B>> ELSE <<>>
<1>6. \A c \in X : c.kind = "bulk" => MovesOK(c.moves)
  BY <1>1, <1>2, <1>3, <1>4, <1>5
<1>7. Y \in Seq(X)
  OBVIOUS
<1>8. Calls(p) = FlagCalls(p, "fixed", FALSE) \o Y \o FlagCalls(p, "fixed", TRUE)
                   \o FlagCalls(p, "prio", TRUE) \o FlagCalls(p, "prio", FALSE)
  BY Zenon DEF Calls
<1>9. X1 \subseteq X /\ X2 \subseteq X /\ X3 \subseteq X /\ X4 \subseteq X
  OBVIOUS
<1> HIDE DEF X, Y
<1>10. \A S, T : S \subseteq T => Seq(S) \subseteq Seq(T)
  OBVIOUS
<1>11. Calls(p) \in Seq(X)
  <2>1. PICK q1, q2, q3, q4 :
          /\ q1 = FlagCalls(p, "fixed", FALSE) /\ q2 = FlagCalls(p, "fixed", TRUE)
          /\ q3 = FlagCalls(p, "prio", TRUE) /\ q4 = FlagCalls(p, "prio", FALSE)
    OBVIOUS
  <2>2. q1 \in Seq(X) /\ q2 \in Seq(X) /\ q3 \in Seq(X) /\ q4 \in Seq(X)
    BY <1>2, <1>3, <1>4, <1>5, <1>9, <1>10, <2>1
  <2>3. q1 \o Y \o q2 \o q3 \o q4 \in Seq(X)
    BY <1>7, <2>2
  <2> QED
    BY <1>8, <2>1, <2>3
<1> QED
  BY <1>6, <1>11 DEF QueueOK

(* The steps of the page in edit mode.                                     *)
LEMMA BoardLedger ==
  ASSUME IInv, IInv', Ledger, NEW p \in Planners, BoardStep(p), UNCHANGED desk
  PROVE  Ledger'
<1>1. ask' = ask /\ hist \in Histories /\ DOMAIN call = Planners
  BY SaveFacts DEF desk
<1>2. DOMAIN board = Planners /\ BoardShape(board[p])
  BY PageFacts
<1>3. CASE EnterEdit(p)
  <2> DEFINE d == board[p].data
             b == [board[p] EXCEPT !.edit = TRUE, !.ref = d.versions, !.status = "idle",
                       !.base = d.marks, !.torn = d.torn, !.edits = NoEdits]
  <2>1. board' = [board EXCEPT ![p] = b]
    BY <1>3 DEF EnterEdit
  <2>2. b.shown = board[p].shown /\ b.edits = NoEdits
    BY <1>2 DEF BoardShape
  <2>3. hist'.marks = hist.marks /\ hist'.astray = hist.astray
    BY <1>3, HistoryFields DEF EnterEdit
  <2> HIDE DEF b
  <2>4. /\ board'[p].shown = board[p].shown /\ EditsOK(board'[p].edits)
        /\ \A q \in Planners \ {p} : board'[q] = board[q]
    BY <1>2, <2>1, <2>2, NoEditsOK
  <2> QED
    BY <1>1, <1>3, <2>3, <2>4, PageAlone DEF EnterEdit
<1>4. ASSUME NEW b, board' = [board EXCEPT ![p] = b], b.shown = board[p].shown,
             b.edits = board[p].edits \/ EditsOK(b.edits),
             UNCHANGED <<rows, room, lock, call>>,
             hist'.marks = hist.marks, hist'.astray = hist.astray
      PROVE  Ledger'
  <2>1. /\ board'[p].shown = board[p].shown
        /\ board'[p].edits = board[p].edits \/ EditsOK(board'[p].edits)
        /\ \A q \in Planners \ {p} : board'[q] = board[q]
    BY <1>2, <1>4
  <2> QED
    BY <1>1, <1>4, <2>1, PageAlone
<1>5. CASE DiscardEdits(p)
  <2> DEFINE b == Left(board[p], "idle")
  <2>1. board' = [board EXCEPT ![p] = b]
    BY <1>5 DEF DiscardEdits
  <2>2. b.shown = board[p].shown /\ EditsOK(b.edits)
    BY <1>2, NoEditsOK DEF BoardShape, Left
  <2> HIDE DEF b
  <2> QED
    BY <1>4, <1>5, <2>1, <2>2 DEF DiscardEdits
<1>6. CASE \E op, edits : EditsOK(edits) /\ Edited(p, op, edits)
  <2>1. PICK op, edits : EditsOK(edits) /\ Edited(p, op, edits)
    BY <1>6
  <2> DEFINE b == [board[p] EXCEPT !.edits = edits]
  <2>2. board' = [board EXCEPT ![p] = b]
    BY <2>1 DEF Edited
  <2>3. b.shown = board[p].shown /\ EditsOK(b.edits)
    BY <1>2, <2>1 DEF BoardShape
  <2>4. hist'.marks = hist.marks /\ hist'.astray = hist.astray
    BY <2>1, HistoryFields DEF Edited
  <2> HIDE DEF b
  <2> QED
    BY <1>4, <2>1, <2>2, <2>3, <2>4 DEF Edited
<1>7. ASSUME \A q \in Planners \ {p} : board'[q] = board[q] /\ call'[q] = call[q],
             board'[p].shown = board[p].shown, EditsOK(board'[p].edits),
             call'[p].at # "idle" => call'[p].at = "next" /\ QueueOK(call'[p].queue),
             UNCHANGED <<rows, room, lock>>,
             hist'.marks = hist.marks, hist'.astray = hist.astray
      PROVE  Ledger'
  <2>2. Still(p)
    BY <1>1, <1>7, MarksStand DEF Still
  <2>3. EditsOK(board[p].edits)'
    BY <1>7 DEF EditsOK
  <2>4. Saves(p)' => QueueOK(call[p].queue)'
    BY <1>7 DEF Saves, QueueOK
  <2>5. FitsStill(p)'
    BY <1>7 DEF FitsStill, Doing
  <2>6. \A plan \in PlansInHand(p)' : plan \in PlansInHand(p)
    BY <1>1, <1>7 DEF PlansInHand
  <2> QED
    BY <2>2, <2>3, <2>4, <2>5, <2>6, StillKept
<1>8. CASE SaveBegin(p)
  <2> DEFINE b == [board[p] EXCEPT !.status = "saving"]
             c == [queue |-> Calls(p), at |-> "next", live |-> Expected(p),
                   sent |-> FALSE, shown |-> [o \in Orders |-> ShownType(p, o)]]
  <2>1. board' = [board EXCEPT ![p] = b] /\ call' = [call EXCEPT ![p] = c]
    BY <1>8 DEF SaveBegin
  <2>2. b.shown = board[p].shown /\ b.edits = board[p].edits
    BY <1>2 DEF BoardShape
  <2>3. EditsOK(b.edits)
    BY <2>2 DEF Ledger
  <2>4. c.at = "next" /\ QueueOK(c.queue)
    BY <1>8, CallsOK DEF SaveBegin
  <2>5. hist'.marks = hist.marks /\ hist'.astray = hist.astray
    BY <1>8, HistoryFields DEF SaveBegin
  <2>6. UNCHANGED <<rows, room, lock>>
    BY <1>8 DEF SaveBegin
  <2> HIDE DEF b, c
  <2>7. /\ board'[p] = b /\ call'[p] = c
        /\ \A q \in Planners \ {p} : board'[q] = board[q] /\ call'[q] = call[q]
    BY <1>1, <1>2, <2>1
  <2> QED
    BY <1>7, <2>2, <2>3, <2>4, <2>5, <2>6, <2>7
<1>9. CASE SaveEnd(p)
  <2> DEFINE b == Left(board[p], "success")
  <2>0. PICK c : c = NoCall
    OBVIOUS
  <2>1. /\ board' = [board EXCEPT ![p] = b] /\ call' = [call EXCEPT ![p] = c]
        /\ UNCHANGED <<rows, room, lock>>
        /\ hist'.marks = hist.marks /\ hist'.astray = hist.astray
    BY <1>9, <2>0 DEF SaveEnd
  <2>2. b.shown = board[p].shown /\ EditsOK(b.edits)
    BY <1>2, NoEditsOK DEF BoardShape, Left
  <2>3. c.at = "idle"
    BY <2>0 DEF NoCall
  <2> HIDE DEF b
  <2>4. /\ board'[p] = b /\ call'[p] = c
        /\ \A q \in Planners \ {p} : board'[q] = board[q] /\ call'[q] = call[q]
    BY <1>1, <1>2, <2>1
  <2> QED
    BY <1>7, <2>1, <2>2, <2>3, <2>4
<1> QED
  BY <1>3, <1>5, <1>6, <1>8, <1>9, EditsStayOK DEF BoardStep

-------------------------------------------------------------------------------
(* The calls of a save that write no work.                                 *)
LEMMA QueueGoesOn ==
  ASSUME NEW queue, QueueOK(queue), queue # <<>>
  PROVE  QueueOK(Tail(queue))
  BY DEF QueueOK

(* What a step of a save does that writes no work.                         *)
LEMMA CallingKept ==
  ASSUME IInv, IInv', Ledger, NEW p \in Planners, ask' = ask, Saves(p),
         rows'.piece = rows.piece, room' = room, hist'.astray = hist.astray,
         \A t \in Types : hist.marks[t] <= hist'.marks[t],
         \A t \in Types, q \in Planners \ {p} : lock'[t] = q => lock[t] = q,
         \A q \in Planners \ {p} : board'[q] = board[q] /\ call'[q] = call[q],
         board'[p].shown = board[p].shown, board'[p].edits = board[p].edits,
         Saves(p)' => call'[p].queue \in {call[p].queue, Tail(call[p].queue)}
                      /\ call[p].queue # <<>>,
         FitsStill(p)'
  PROVE  Ledger'
<1>3. Still(p)
  BY DEF Still
<1>4. EditsOK(board[p].edits) /\ QueueOK(call[p].queue)
  BY DEF Ledger
<1>5. EditsOK(board[p].edits)'
  BY <1>4 DEF EditsOK
<1>6. Saves(p)' => QueueOK(call'[p].queue)
  BY <1>4, QueueGoesOn
<1>7. Saves(p)' => QueueOK(call[p].queue)'
  BY <1>6 DEF QueueOK
<1>8. \A plan \in PlansInHand(p)' : plan \in PlansInHand(p)
  BY DEF PlansInHand
<1> QED
  BY <1>3, <1>5, <1>7, <1>8, StillKept

LEMMA RefusedLedger ==
  ASSUME IInv, IInv', Ledger, NEW p \in Planners, ask' = ask, Saves(p),
         rows' = rows, room' = room, NEW status, Refused(p, status),
         \A t \in Types, q \in Planners \ {p} : lock'[t] = q => lock[t] = q
  PROVE  Ledger'
<1> DEFINE b == [board[p] EXCEPT !.status = status]
<1>0. PICK c : c = NoCall
  OBVIOUS
<1>1. board' = [board EXCEPT ![p] = b] /\ call' = [call EXCEPT ![p] = c]
  BY <1>0 DEF Refused
<1>2. b.shown = board[p].shown /\ b.edits = board[p].edits
  BY SaveFacts DEF BoardShape
<1>3. c.at = "idle"
  BY <1>0 DEF NoCall
<1>4. hist'.marks = hist.marks /\ hist'.astray = hist.astray
  BY HistoryFields DEF Refused
<1> HIDE DEF b
<1>5. /\ board'[p] = b /\ call'[p] = c
      /\ \A q \in Planners \ {p} : board'[q] = board[q] /\ call'[q] = call[q]
  BY <1>1, SaveFacts
<1>6. FitsStill(p)'
  BY <1>3, <1>5 DEF FitsStill, Doing
<1>7. \A t \in Types : hist.marks[t] <= hist'.marks[t]
  BY <1>4, MarksStand
<1>8. rows'.piece = rows.piece /\ ~Saves(p)'
  BY <1>3, <1>5 DEF Saves
<1> QED
  BY <1>2, <1>4, <1>5, <1>6, <1>7, <1>8, CallingKept

LEMMA FlagLedger ==
  ASSUME IInv, IInv', Ledger, NEW p \in Planners, FlagCall(p), UNCHANGED desk
  PROVE  Ledger'
<1> DEFINE c == call[p]
           f == Head(c.queue)
           t == OrderType[f.order]
<1>1. /\ ask' = ask /\ c.at = "next" /\ c.queue # <<>> /\ Saves(p)
      /\ UNCHANGED <<room, lock, fetch, scene>> /\ f \in FlagRequest
  BY DEF FlagCall, Doing, desk, Saves
<1>2. CASE \E status : Refused(p, status) /\ rows' = rows
  BY <1>1, <1>2, RefusedLedger
<1>3. CASE /\ rows' = [rows EXCEPT ![f.field][f.order] = f.value]
           /\ board' = [board EXCEPT ![p] = Seen(@, {t}, 2)]
           /\ call' = [call EXCEPT ![p] =
                [c EXCEPT !.queue = Tail(@), !.sent = TRUE,
                          !.live = CountedFlag(c, f.order)]]
           /\ \E yes : hist' = Lopsided(Marked(hist, {t}, 2), p, yes)
  <2> DEFINE b == Seen(board[p], {t}, 2)
             d == [c EXCEPT !.queue = Tail(@), !.sent = TRUE,
                            !.live = CountedFlag(c, f.order)]
  <2>1. board' = [board EXCEPT ![p] = b] /\ call' = [call EXCEPT ![p] = d]
    BY <1>3
  <2>2. b.shown = board[p].shown /\ b.edits = board[p].edits
    BY SaveFacts DEF BoardShape, Seen
  <2>3. c = [queue |-> c.queue, at |-> c.at, live |-> c.live, sent |-> c.sent,
             shown |-> c.shown]
    BY <1>1, SaveFacts DEF CallOK
  <2>4. d.at = "next" /\ d.queue = Tail(c.queue)
    <3> HIDE DEF c
    <3> QED
      BY <1>1, <2>3
  <2> HIDE DEF b, d
  <2>5. /\ board'[p] = b /\ call'[p] = d
        /\ \A q \in Planners \ {p} : board'[q] = board[q] /\ call'[q] = call[q]
    BY <2>1, SaveFacts
  <2>6. FitsStill(p)'
    BY <2>4, <2>5 DEF FitsStill, Doing
  <2>7. rows'.piece = rows.piece
    BY <1>1, <1>3 DEF FlagRequest
  <2>8. hist'.astray = hist.astray /\ \A x \in Types : hist.marks[x] <= hist'.marks[x]
    <3>2. PICK h, yes : h = Marked(hist, {t}, 2) /\ hist' = Lopsided(h, p, yes)
      BY <1>3
    <3>3. /\ h = [marks |-> [x \in Types |-> hist.marks[x] + (IF x \in {t} THEN 2 ELSE 0)],
                  astray |-> hist.astray, lopsided |-> hist.lopsided,
                  silent |-> hist.silent, asks |-> hist.asks, edits |-> hist.edits,
                  saves |-> hist.saves, fetches |-> hist.fetches]
          /\ hist.marks \in [Types -> Nat]
      <4>1. hist \in Histories /\ hist.marks \in [Types -> Nat] /\ 2 \in Nat
        BY SaveFacts
      <4> HIDE DEF t
      <4> QED
        BY <3>2, <4>1, MarkedHistory
    <3>4. hist'.marks = h.marks /\ hist'.astray = h.astray
      BY <3>2, <3>3 DEF Lopsided
    <3> HIDE DEF t
    <3> QED
      BY <3>3, <3>4
  <2>9. Saves(p)' => call'[p].queue \in {call[p].queue, Tail(call[p].queue)}
                     /\ call[p].queue # <<>>
    BY <1>1, <2>4, <2>5
  <2>10. board'[p].shown = board[p].shown /\ board'[p].edits = board[p].edits
    BY <2>2, <2>5
  <2> QED
    BY <1>1, <2>5, <2>6, <2>7, <2>8, <2>9, <2>10, CallingKept
<1> QED
  BY <1>1, <1>2, <1>3, Zenon DEF FlagCall

(* The locks of a save go to nobody else.                                  *)
LEMMA UnlockedOthers ==
  ASSUME NEW p \in Planners, lock' = Unlocked(p)
  PROVE  \A t \in Types : \A q \in Planners : lock'[t] = q => lock[t] = q
  BY Names DEF Unlocked

LEMMA AnswerFacts ==
  ASSUME IInv, NEW p \in Planners, Saves(p), NEW T, Answered(p, T)
  PROVE  /\ call'[p].at = "next" /\ call'[p].queue = Tail(call[p].queue)
         /\ \A q \in Planners \ {p} : call'[q] = call[q]
<1> DEFINE c == call[p]
           d == [c EXCEPT !.queue = Tail(c.queue), !.at = "next",
                          !.sent = c.sent \/ T # {},
                          !.live = CountedMoves(c, Moves(p))]
<1>1. call' = [call EXCEPT ![p] = d]
  BY DEF Answered
<1>2. c = [queue |-> c.queue, at |-> c.at, live |-> c.live, sent |-> c.sent,
           shown |-> c.shown]
  BY SaveFacts DEF CallOK
<1>3. d.at = "next" /\ d.queue = Tail(c.queue)
  <2> HIDE DEF c
  <2> QED
    BY <1>2
<1> HIDE DEF d
<1> QED
  BY <1>1, <1>3, SaveFacts

(* The checks, the locks, and the refusals of the moves.                   *)
LEMMA CheckLedger ==
  ASSUME IInv, IInv', Ledger, NEW p \in Planners, BulkCheck(p) \/ BulkLock(p),
         UNCHANGED desk
  PROVE  Ledger'
<1>1. /\ ask' = ask /\ call[p].queue # <<>> /\ Saves(p) /\ call[p].at \in {"next", "lock"}
      /\ UNCHANGED <<rows, room>>
  BY DEF BulkCheck, BulkLock, Doing, desk, Saves
<1>2. DOMAIN call = Planners /\ DOMAIN board = Planners /\ p # None
  BY SaveFacts
<1>3. \A t \in Types, q \in Planners \ {p} : lock'[t] = q => lock[t] = q
  BY Names DEF BulkCheck, BulkLock
<1>4. CASE \E status : Refused(p, status)
  BY <1>1, <1>3, <1>4, RefusedLedger
<1>5. ASSUME board' = board, hist'.marks = hist.marks, hist'.astray = hist.astray,
             call'[p].queue \in {call[p].queue, Tail(call[p].queue)},
             call'[p].at # "write",
             \A q \in Planners \ {p} : call'[q] = call[q]
      PROVE  Ledger'
  <2>1. FitsStill(p)'
    BY <1>5 DEF FitsStill, Doing
  <2>2. \A t \in Types : hist.marks[t] <= hist'.marks[t]
    BY <1>5, MarksStand
  <2> QED
    BY <1>1, <1>3, <1>5, <2>1, <2>2, CallingKept
<1>6. CASE \E at \in {"lock", "read", "gone"} :
             /\ call' = [call EXCEPT ![p].at = at] /\ UNCHANGED <<board, hist>>
  <2>1. PICK at \in {"lock", "read", "gone"} : call' = [call EXCEPT ![p].at = at]
    BY <1>6
  <2>2. call'[p].queue = call[p].queue /\ call'[p].at = at
    BY <1>1, <1>2, <2>1, SaveFacts DEF CallOK
  <2>3. \A q \in Planners \ {p} : call'[q] = call[q]
    BY <1>2, <2>1
  <2> QED
    BY <1>5, <1>6, <2>2, <2>3
<1>7. CASE Answered(p, {}) /\ hist' = Lopsided(hist, p, TRUE) /\ board' = board
  <2>1. hist'.marks = hist.marks /\ hist'.astray = hist.astray
    BY <1>7, HistoryFields DEF Lopsided
  <2>2. /\ call'[p].at = "next" /\ call'[p].queue = Tail(call[p].queue)
        /\ \A q \in Planners \ {p} : call'[q] = call[q]
    BY <1>1, <1>7, AnswerFacts
  <2> QED
    BY <1>5, <1>7, <2>1, <2>2
<1>8. CASE BulkCheck(p)
  <2>1. \/ \E status : Refused(p, status)
        \/ call' = [call EXCEPT ![p].at = "lock"] /\ UNCHANGED <<board, hist>>
    BY <1>8 DEF BulkCheck
  <2> QED
    BY <1>4, <1>6, <2>1
<1>9. CASE BulkLock(p)
  <2>1. \/ \E status : Refused(p, status)
        \/ Answered(p, {}) /\ hist' = Lopsided(hist, p, TRUE) /\ board' = board
        \/ \E at \in {"read", "gone"} :
             call' = [call EXCEPT ![p].at = at] /\ UNCHANGED <<board, hist>>
    BY <1>9 DEF BulkLock
  <2> QED
    BY <1>4, <1>6, <1>7, <2>1
<1> QED
  BY <1>8, <1>9

(* What is read fits, or nothing is written.                               *)
LEMMA ReadLedger ==
  ASSUME IInv, IInv', Ledger, NEW p \in Planners, BulkRead(p), UNCHANGED desk
  PROVE  Ledger'
<1> DEFINE M == Moves(p)
           acting == {m \in M : ~Invalid(m) /\ ~InPlace(m)}
           wrong == \/ call[p].at = "gone"
                    \/ \E m \in M : Invalid(m) \/ (~InPlace(m) /\ TooLate(m))
                    \/ \E m \in Placed(M) : SplitWrong(acting, m.order)
                    \/ \E c \in Cells : Short(acting, c)
<1>1. /\ ask' = ask /\ call[p].queue # <<>> /\ Saves(p)
      /\ call[p].at \in {"read", "gone"} /\ UNCHANGED <<rows, room>>
  BY DEF BulkRead, Doing, desk, Saves
<1>2. DOMAIN call = Planners /\ DOMAIN board = Planners
  BY SaveFacts
<1>3. CASE Refused(p, "error") /\ lock' = Unlocked(p)
  BY <1>1, <1>3, RefusedLedger, UnlockedOthers
<1>4. CASE /\ Answered(p, {}) /\ lock' = Unlocked(p) /\ board' = board
           /\ hist' = Lopsided(hist, p, TRUE)
  <2>1. hist'.marks = hist.marks /\ hist'.astray = hist.astray
    BY <1>4, HistoryFields DEF Lopsided
  <2>2. /\ call'[p].at = "next" /\ call'[p].queue = Tail(call[p].queue)
        /\ \A q \in Planners \ {p} : call'[q] = call[q]
    BY <1>1, <1>4, AnswerFacts
  <2>3. FitsStill(p)'
    BY <2>2 DEF FitsStill, Doing
  <2>4. \A t \in Types : hist.marks[t] <= hist'.marks[t]
    BY <2>1, MarksStand
  <2> QED
    BY <1>1, <1>4, <2>1, <2>2, <2>3, <2>4, UnlockedOthers, CallingKept
<1>5. CASE /\ ~wrong /\ call' = [call EXCEPT ![p].at = "write"]
           /\ UNCHANGED <<board, lock, hist>>
  <2>1. /\ call'[p].queue = call[p].queue
        /\ \A q \in Planners \ {p} : call'[q] = call[q]
    BY <1>1, <1>2, <1>5, SaveFacts DEF CallOK
  <2>2. Moves(p)' = M
    BY <2>1 DEF Moves
  <2>3. \A m \in M : ~Invalid(m)
    BY <1>5
  <2>4. acting = Acting(p)
    BY <2>3 DEF Acting
  <2>5. \A c \in Cells : ~Short(Acting(p), c)
    <3>1. \A c \in Cells : ~Short(acting, c)
      BY <1>5
    <3> QED
      BY <2>4, <3>1
  <2>6. PICK A : A = Acting(p)
    OBVIOUS
  <2>7. Acting(p)' = A
    BY <1>1, <2>2, <2>6 DEF Acting, InPlace
  <2>8. \A c \in Cells : Short(A, c)' <=> Short(A, c)
    <3> SUFFICES ASSUME NEW c \in Cells
                 PROVE  NetChange(A, c)' = NetChange(A, c)
      BY <1>1 DEF Short
    <3>1. \A I : MapThenSumSet(QuantityOf, I)' = MapThenSumSet(QuantityOf, I)
      <4> TAKE I
      <4>1. [m \in I |-> QuantityOf(m)'] = [m \in I |-> QuantityOf(m)]
        BY <1>1 DEF QuantityOf
      <4>2. PICK x, y : x = MapThenSumSet(QuantityOf, I)
                        /\ y = MapThenSumSet(QuantityOf, I)'
        OBVIOUS
      <4>3. x = P!SumOf([m \in I |-> QuantityOf(m)], I)
        BY <4>2, QuantitiesAre
      <4>4. y = P!SumOf([m \in I |-> QuantityOf(m)'], I)
        BY <4>2, QuantitiesNext
      <4> QED
        BY <4>1, <4>2, <4>3, <4>4
    <3>2. PICK I, J : /\ I = {m \in A : m.piece # None /\ rows.piece[m.piece].cell = c}
                      /\ J = {m \in A : m.cell = c}
      OBVIOUS
    <3>3. NetChange(A, c) = MapThenSumSet(QuantityOf, I) - MapThenSumSet(QuantityOf, J)
      BY <3>2 DEF NetChange
    <3>4. NetChange(A, c)' = MapThenSumSet(QuantityOf, I)' - MapThenSumSet(QuantityOf, J)'
      BY <1>1, <3>2 DEF NetChange
    <3> QED
      BY <3>1, <3>3, <3>4
  <2>9. FitsStill(p)'
    BY <2>5, <2>6, <2>7, <2>8 DEF FitsStill
  <2>10. \A t \in Types : hist.marks[t] <= hist'.marks[t]
    BY <1>5, MarksStand
  <2> QED
    BY <1>1, <1>5, <2>1, <2>9, <2>10, CallingKept
<1> QED
  BY <1>3, <1>4, <1>5, Zenon DEF BulkRead

LEMMA BumpLedger ==
  ASSUME IInv, IInv', Ledger, NEW p \in Planners, BulkBump(p), UNCHANGED desk
  PROVE  Ledger'
<1> DEFINE T == {t \in Types : lock[t] = p}
           b == Seen(board[p], T, 1)
<1>1. /\ ask' = ask /\ call[p].queue # <<>> /\ Saves(p) /\ call[p].at = "bump"
      /\ UNCHANGED <<rows, room>> /\ lock' = Unlocked(p) /\ Answered(p, T)
      /\ board' = [board EXCEPT ![p] = b]
      /\ hist' = Lopsided(Marked(hist, T, 1), p, Uneven(Moves(p), T))
  BY DEF BulkBump, Doing, desk, Saves
<1>2. DOMAIN call = Planners /\ DOMAIN board = Planners
      /\ hist \in Histories /\ hist.marks \in [Types -> Nat] /\ 1 \in Nat
  BY SaveFacts
<1>3. b.shown = board[p].shown /\ b.edits = board[p].edits
  BY SaveFacts DEF BoardShape, Seen
<1> HIDE DEF T, b
<1>4. /\ call'[p].at = "next" /\ call'[p].queue = Tail(call[p].queue)
      /\ \A q \in Planners \ {p} : call'[q] = call[q]
  BY <1>1, AnswerFacts
<1>5. /\ board'[p] = b
      /\ \A q \in Planners \ {p} : board'[q] = board[q]
  BY <1>1, <1>2
<1>6. FitsStill(p)'
  BY <1>4 DEF FitsStill, Doing
<1>7. hist'.astray = hist.astray /\ \A x \in Types : hist.marks[x] <= hist'.marks[x]
  <2>1. PICK h, yes : h = Marked(hist, T, 1) /\ hist' = Lopsided(h, p, yes)
    BY <1>1
  <2>2. h = [marks |-> [x \in Types |-> hist.marks[x] + (IF x \in T THEN 1 ELSE 0)],
             astray |-> hist.astray, lopsided |-> hist.lopsided,
             silent |-> hist.silent, asks |-> hist.asks, edits |-> hist.edits,
             saves |-> hist.saves, fetches |-> hist.fetches]
    BY <1>2, <2>1, MarkedHistory
  <2>3. hist'.marks = h.marks /\ hist'.astray = h.astray
    BY <2>1, <2>2 DEF Lopsided
  <2> QED
    BY <1>2, <2>2, <2>3
<1> QED
  BY <1>1, <1>3, <1>4, <1>5, <1>6, <1>7, UnlockedOthers, CallingKept

-------------------------------------------------------------------------------
(* A plan that is made now is good: what it was given is what there is.    *)
LEMMA TotalInt ==
  ASSUME rows.piece \in [Pieces -> Work \cup {None}], NEW I, I \subseteq Pieces,
         \A a \in I : rows.piece[a] # None
  PROVE  Total(I) \in Int
<1>1. \A a \in I : [x \in I |-> rows.piece[x].qty][a] \in Int
  BY DEF Work
<1>2. P!IsFiniteSet(I)
  BY CalendarAlike, FiniteAlike, FS_Subset
<1>3. PICK q : q = [x \in I |-> rows.piece[x].qty]
  OBVIOUS
<1>4. P!SumOf(q, I) \in Int
  BY <1>1, <1>2, <1>3, CalendarAlike, P!SumInt
<1> QED
  BY <1>3, <1>4, TotalIs

LEMMA PreparedIs ==
  ASSUME IInv, Ledger, NEW t \in Types, NEW policy, NEW wanted, NEW p
  PROVE  LET in == Prepared(t, policy, wanted)
             plan == Planned(p, t, in)
         IN  /\ P!InputFits(in) /\ P!StatusFits(in)
             /\ \A c \in OwnCells(t) :
                  in.left[c] = room[c] + Total(Freed(plan, c)) /\ in.read[c] = room[c]
             /\ \A c \in Cells \ OwnCells(t) : in.left[c] = 0
             /\ \A f \in Factories : FactoryType[f] # t => in.room[f] = 0
             /\ \A c \in Cells : in.left[c] \in Int
<1> DEFINE in == Prepared(t, policy, wanted)
           plan == Planned(p, t, in)
           start == Scenes[scene].start
           read == {o \in Orders : /\ OrderType[o] = t
                                   /\ \/ rows.status[o] = "SCHEDULED"
                                      \/ rows.status[o] = "PENDING" /\ o \in wanted}
           freed(o) == {a \in PiecesOf(o) :
                          /\ policy # "GAP_FILLING" /\ ~rows.fixed[o]
                          /\ rows.piece[a].cell[2] >= start}
           given(c) == {a \in UNION {freed(o) : o \in read} :
                          rows.piece[a].cell = c}
           row(o) == [status |-> rows.status[o], qty |-> Quantity[o],
                      due |-> Due[o], fixed |-> rows.fixed[o],
                      prio |-> rows.prio[o]]
           kept(o) == {[id |-> a, factory |-> rows.piece[a].cell[1],
                        day |-> rows.piece[a].cell[2], qty |-> rows.piece[a].qty] :
                          a \in PiecesOf(o) \ freed(o)}
<1>1. /\ rows.piece \in [Pieces -> Work \cup {None}] /\ room \in [Cells -> Int]
      /\ start \in Int
  BY SceneFits DEF Ledger, RowsOK
<1>2. in = [rows |-> [o \in read |-> row(o)], kept |-> [o \in read |-> kept(o)],
            left |-> [c \in Cells |-> IF c \in OwnCells(t) THEN room[c] + Total(given(c))
                                      ELSE 0],
            room |-> [f \in Factories |-> IF FactoryType[f] = t THEN MaxCapacity[f]
                                          ELSE 0],
            read |-> room, policy |-> policy, splittable |-> TRUE,
            start |-> start, end |-> None]
  BY Zenon DEF Prepared
<1>3. \A a \in Pieces : rows.piece[a] # None =>
        /\ rows.piece[a].order \in Orders /\ rows.piece[a].cell \in Cells
        /\ rows.piece[a].qty \in Nat
  BY <1>1 DEF Work
<1>4. /\ in.policy = policy /\ in.start = start /\ plan.type = t /\ plan.in = in
      /\ DOMAIN in.rows = read /\ \A o \in read : in.rows[o] = row(o)
  <2> HIDE DEF read, row, start
  <2> QED
    BY <1>2 DEF Planned
<1>5. ASSUME NEW c \in Cells
      PROVE  /\ Freed(plan, c) = given(c)
             /\ given(c) \subseteq Pieces /\ \A a \in given(c) : rows.piece[a] # None
  <2>1. \A a : a \in given(c) <=>
          /\ a \in Pieces /\ rows.piece[a] # None /\ rows.piece[a].order \in read
          /\ policy # "GAP_FILLING" /\ ~rows.fixed[rows.piece[a].order]
          /\ rows.piece[a].cell[2] >= start /\ rows.piece[a].cell = c
    <3> HIDE DEF read, start
    <3> QED
      BY DEF PiecesOf
  <2>2. \A a : a \in Freed(plan, c) <=>
          /\ a \in Pieces /\ rows.piece[a] # None /\ rows.piece[a].order \in read
          /\ policy # "GAP_FILLING" /\ ~rows.fixed[rows.piece[a].order]
          /\ rows.piece[a].cell[2] >= start /\ rows.piece[a].cell = c
    <3>0. \A o : row(o).fixed = rows.fixed[o]
      OBVIOUS
    <3> HIDE DEF read, start, in, plan, row
    <3>1. \A o \in read : in.rows[o].fixed = rows.fixed[o]
      BY <1>4, <3>0
    <3> QED
      BY <1>4, <3>1 DEF Freed, Deleted
  <2> HIDE DEF given, read, in, plan
  <2>3. Freed(plan, c) = given(c)
    BY <2>1, <2>2
  <2> QED
    BY <2>1, <2>3
<1>6. ASSUME NEW c \in Cells
      PROVE  Total(given(c)) \in Int
  <2> HIDE DEF given
  <2> QED
    BY <1>1, <1>5, TotalInt
<1>7. /\ \A c \in OwnCells(t) :
           in.left[c] = room[c] + Total(Freed(plan, c)) /\ in.read[c] = room[c]
      /\ \A c \in Cells \ OwnCells(t) : in.left[c] = 0
      /\ \A f \in Factories : FactoryType[f] # t => in.room[f] = 0
      /\ \A c \in Cells : in.left[c] \in Int
  <2>1. in.left = [c \in Cells |-> IF c \in OwnCells(t) THEN room[c] + Total(given(c))
                                   ELSE 0]
        /\ in.read = room
        /\ in.room = [f \in Factories |-> IF FactoryType[f] = t THEN MaxCapacity[f]
                                          ELSE 0]
    <3> HIDE DEF given
    <3> QED
      BY <1>2
  <2>2. \A c \in OwnCells(t) : c \in Cells /\ Freed(plan, c) = given(c)
    BY <1>5 DEF OwnCells
  <2> HIDE DEF given, in, plan
  <2> QED
    BY <1>1, <1>6, <2>1, <2>2
<1>8. P!RowsFit(in.rows)
  <2>1. \A o \in read : row(o).qty \in Int /\ row(o).due \in Int
    BY PlanAssumption
  <2>2. read \subseteq Orders
    OBVIOUS
  <2> HIDE DEF read, row, in
  <2> QED
    BY <1>4, <2>1, <2>2 DEF P!RowsFit
<1>9. P!KeptFits(in)
  <2> SUFFICES ASSUME NEW o \in read
               PROVE  P!IsFiniteSet(in.kept[o]) /\ \A w \in in.kept[o] : w.qty \in Int
    BY <1>4 DEF P!KeptFits
  <2>1. in.kept[o] = kept(o)
    <3> HIDE DEF kept
    <3> QED
      BY <1>2
  <2> DEFINE S == PiecesOf(o) \ freed(o)
             f == [a \in S |-> [id |-> a, factory |-> rows.piece[a].cell[1],
                        day |-> rows.piece[a].cell[2], qty |-> rows.piece[a].qty]]
  <2>2. S \subseteq Pieces /\ \A a \in S : rows.piece[a] # None
    BY DEF PiecesOf
  <2>3. kept(o) = {f[a] : a \in S}
    <3> HIDE DEF S
    <3>1. kept(o) = {[id |-> a, factory |-> rows.piece[a].cell[1],
                        day |-> rows.piece[a].cell[2], qty |-> rows.piece[a].qty] :
                          a \in S}
      BY DEF S
    <3> QED
      BY <3>1
  <2>4. \A a \in S : f[a].qty \in Int
    BY <1>3, <2>2
  <2> HIDE DEF S, f, kept
  <2>5. IsFiniteSet(S)
    BY <2>2, CalendarAlike, FS_Subset
  <2>6. IsFiniteSet({f[a] : a \in S})
    BY <2>5, ImageFinite
  <2> QED
    BY <2>1, <2>3, <2>4, <2>6, FiniteAlike
<1>10. in.left \in P!Lefts /\ in.room \in [Factories -> Int]
  <2>1. /\ in.left = [c \in Cells |-> in.left[c]]
        /\ in.room = [f \in Factories |-> IF FactoryType[f] = t THEN MaxCapacity[f]
                                          ELSE 0]
    <3> HIDE DEF given
    <3> QED
      BY <1>2
  <2>2. \A f \in Factories : MaxCapacity[f] \in Int
    BY PlanAssumption
  <2> HIDE DEF in
  <2> QED
    BY <1>7, <2>1, <2>2, CalendarAlike DEF P!Lefts
<1>11. in.start \in Int /\ in.end = None
  BY <1>1, <1>2
<1>12. P!StatusFits(in)
  <2>1. \A o \in read : row(o).status # "FAILED"
    OBVIOUS
  <2> HIDE DEF read, row, in
  <2> QED
    BY <1>4, <2>1 DEF P!StatusFits
<1>13. P!InputFits(in)
  <2> HIDE DEF in
  <2> QED
    BY <1>8, <1>9, <1>10, <1>11 DEF P!InputFits
<1> HIDE DEF in, plan
<1> QED
  BY <1>7, <1>12, <1>13 DEF in, plan

LEMMA PlannedGood ==
  ASSUME IInv, Ledger, NEW t \in Types, NEW policy, NEW wanted, NEW p
  PROVE  Good(Planned(p, t, Prepared(t, policy, wanted)))
<1>1. PICK in : in = Prepared(t, policy, wanted)
  OBVIOUS
<1>2. PICK plan : plan = Planned(p, t, in)
  OBVIOUS
<1>3. /\ plan.type = t /\ plan.in = in /\ plan.plan = P!PlanOf(in)
      /\ plan.marks = hist.marks
  BY <1>2, PlanAlike DEF Planned
<1>4. /\ P!InputFits(in) /\ P!StatusFits(in)
      /\ \A c \in OwnCells(t) :
           in.left[c] = room[c] + Total(Freed(plan, c)) /\ in.read[c] = room[c]
      /\ \A c \in Cells \ OwnCells(t) : in.left[c] = 0
      /\ \A f \in Factories : FactoryType[f] # t => in.room[f] = 0
      /\ \A c \in Cells : in.left[c] \in Int
  BY <1>1, <1>2, PreparedIs
<1> DEFINE x == P!PlanOf(in)
           M == P!Mutable(in)
<1>5. x \in P!PlansFor(in) /\ P!PlanGood(in, M, x) /\ P!Apart(x.new)
  BY <1>4, CalendarAlike, P!PlanOfGood, P!PlanOfNeat DEF P!PlanNeat
<1> HIDE DEF x, M
<1>6. /\ x.new \subseteq P!Given /\ IsFiniteSet(x.new)
      /\ \A w \in x.new : w.order \in DOMAIN in.rows
  BY <1>5, FiniteAlike DEF P!PlanGood, P!Pile, P!Mutable, M
<1>7. ASSUME NEW c \in Cells
      PROVE  /\ P!Amount(P!On(x.new, c)) \in Nat
             /\ P!Amount(P!On(x.new, c)) = 0 <=> P!On(x.new, c) = {}
             /\ x.left[c] = in.left[c] - P!Amount(P!On(x.new, c))
             /\ P!On(x.new, c) # {} => x.left[c] >= 0
  <2>1. c \in P!Cells
    BY CalendarAlike
  <2>2. in.left[c] \in Int /\ in.left[c] # None
    BY <1>4, PlanAssumption
  <2>3. P!Prepared(in)[c] = in.left[c]
    BY <2>1, <2>2 DEF P!Prepared
  <2>4. P!Free(in, P!Prepared(in), c) = in.left[c]
    BY <2>2, <2>3 DEF P!Free
  <2>5. P!Pile(x.new)
    BY <1>5 DEF P!PlanGood
  <2>6. /\ P!Amount(P!On(x.new, c)) \in Nat
        /\ P!Amount(P!On(x.new, c)) = 0 <=> P!On(x.new, c) = {}
    BY <2>5, CalendarAlike, P!PileOn
  <2>7. LET n == P!Amount(P!On(x.new, c)) IN
         /\ IF x.left[c] = None THEN P!Prepared(in)[c] = None /\ n = 0
            ELSE /\ x.left[c] = P!Free(in, P!Prepared(in), c) - n
                 /\ n > 0 => x.left[c] >= 0
    BY <1>4, <1>5, <2>1, CalendarAlike, P!GoodOnCell
  <2> QED
    BY <2>2, <2>3, <2>4, <2>6, <2>7
<1>8. ASSUME NEW d \in x.new
      PROVE  d.order \in DOMAIN in.rows /\ <<d.factory, d.day>> \in OwnCells(t)
  <2>1. d.factory \in Factories /\ d.day \in Days
    BY <1>6, CalendarAlike DEF P!Given
  <2>2. PICK c \in Cells : c = <<d.factory, d.day>>
    BY <2>1 DEF Cells
  <2>3. d \in P!On(x.new, c)
    BY <2>2 DEF P!On
  <2>4. P!Amount(P!On(x.new, c)) \in Nat \ {0} /\ x.left[c] >= 0
        /\ x.left[c] = in.left[c] - P!Amount(P!On(x.new, c))
    BY <1>7, <2>3
  <2>5. c \in OwnCells(t)
    BY <1>4, <2>4
  <2> QED
    BY <1>6, <2>2, <2>5
<1>9. OwnCells(t) \subseteq Cells
  BY DEF OwnCells
<1>10. PlanFits(plan)
  BY <1>1, <1>2, PlannedFits
<1>11. hist.marks \in [Types -> Nat]
  BY DEF IInv, TablesOK, Histories
<1>12. plan.plan = x
  BY <1>3 DEF x
<1>13. PlanOK(plan)
  BY <1>3, <1>4, <1>5, <1>6, <1>7, <1>8, <1>9, <1>10, <1>11, <1>12 DEF PlanOK
<1>14. UpToDate(plan)
  BY <1>3, <1>4, <1>11 DEF UpToDate
<1> QED
  BY <1>1, <1>2, <1>13, <1>14 DEF Good

-------------------------------------------------------------------------------
(* The steps of the engine's desk that write no work: what is in hand was  *)
(* in hand before, or has just been made.                                  *)
Held(shown, r, plan) ==
  \/ shown # None /\ plan = shown.kept.plan
  \/ r.preview # None /\ r.preview.at = "version" /\ plan = r.preview.plan
  \/ r.preview # None /\ r.preview.at = "answer" /\ plan = r.preview.kept.plan
  \/ r.act.op = "apply" /\ r.act.at # "bump" /\ plan = r.act.shown.kept.plan

LEMMA InHand ==
  ASSUME NEW p
  PROVE  /\ \A plan : plan \in PlansInHand(p) <=> Held(board[p].shown, ask[p], plan)
         /\ \A plan : plan \in PlansInHand(p)' <=>
                        Held(board'[p].shown, ask'[p], plan)
<1>1. \A plan : plan \in PlansInHand(p) <=> Held(board[p].shown, ask[p], plan)
  BY DEF PlansInHand, Held
<1>2. \A plan : plan \in PlansInHand(p)' <=> Held(board'[p].shown, ask'[p], plan)
  BY DEF PlansInHand, Held
<1> QED
  BY <1>1, <1>2

LEMMA DeskKept ==
  ASSUME IInv, IInv', Ledger, NEW p \in Planners, UNCHANGED <<rows, room, call>>,
         \A t \in Types : hist.marks[t] <= hist'.marks[t],
         hist'.astray = hist.astray,
         \A t \in Types, q \in Planners : lock'[t] = q => lock[t] = q,
         NEW shown, \/ board' = [board EXCEPT ![p].shown = shown]
                    \/ board' = board /\ shown = board[p].shown,
         NEW r, ask' = [ask EXCEPT ![p] = r],
         \A plan : Held(shown, r, plan) =>
           Held(board[p].shown, ask[p], plan) \/ Good(plan)
  PROVE  Ledger'
<1>1. /\ DOMAIN ask = Planners /\ DOMAIN board = Planners /\ BoardShape(board[p])
  BY AskShape
<1>2. /\ board'[p].shown = shown /\ board'[p].edits = board[p].edits
      /\ \A q \in Planners \ {p} : board'[q] = board[q]
  BY <1>1 DEF BoardShape
<1>3. ask'[p] = r /\ \A q \in Planners \ {p} : ask'[q] = ask[q]
  BY <1>1
<1>4. Still(p)
  BY <1>2, <1>3 DEF Still
<1>5. WritesTo({}) /\ TablesOK /\ TablesOK'
  BY DEF WritesTo, IInv
<1>6. \A plan : Good(plan) => Good(plan)'
  BY <1>5, PlanKept
<1>7. \A plan \in PlansInHand(p)' : plan \in PlansInHand(p) \/ Good(plan)'
  BY <1>2, <1>3, <1>6, InHand
<1> QED
  BY <1>2, <1>4, <1>7, PageKept

(* A preview: asked for, made, stored and shown.                           *)
LEMMA PreviewLedger ==
  ASSUME IInv, IInv', Ledger, NEW p \in Planners,
         \/ \E policy, selected : PreviewAsk(p, policy, selected)
         \/ PreviewRead(p) \/ PreviewStore(p) \/ PreviewAnswer(p)
  PROVE  Ledger'
<1> DEFINE r == ask[p].preview
<1>1. /\ DOMAIN ask = Planners /\ DOMAIN board = Planners
      /\ \A x : [ask[p] EXCEPT !.preview = x] = [preview |-> x, act |-> ask[p].act]
  BY AskShape
<1> DEFINE Does(x, shown) ==
             /\ ask' = [ask EXCEPT ![p].preview = x]
             /\ \/ board' = [board EXCEPT ![p].shown = shown]
                \/ board' = board /\ shown = board[p].shown
             /\ \/ shown = board[p].shown
                \/ shown # None => r # None /\ r.at = "answer"
                                   /\ shown.kept.plan = r.kept.plan
             /\ UNCHANGED <<rows, room, lock, call>>
             /\ hist'.marks = hist.marks /\ hist'.astray = hist.astray
             /\ x # None =>
                  \/ x.at = "read"
                  \/ x.at = "version" /\ Good(x.plan)
                  \/ x.at = "answer" /\ r # None /\ r.at = "version"
                     /\ x.kept.plan = r.plan
<1>2. \E x, shown : Does(x, shown)
  <2>1. CASE \E policy, selected : PreviewAsk(p, policy, selected)
    <3>0. PICK policy, selected : PreviewAsk(p, policy, selected)
      BY <2>1
    <3> DEFINE x == [at |-> "read", type |-> board[p].tab, policy |-> policy,
                     wanted |-> IF selected
                       THEN {o \in Waiting(p) : OrderType[o] = board[p].tab}
                       ELSE {},
                     base |-> board[p].data]
    <3>1. ask' = [ask EXCEPT ![p].preview = x] /\ x.at = "read"
      BY <3>0, Zenon DEF PreviewAsk
    <3> HIDE DEF x
    <3>2. hist'.marks = hist.marks /\ hist'.astray = hist.astray
      BY <2>1, HistoryFields DEF PreviewAsk
    <3>3. board' = board /\ UNCHANGED <<rows, room, lock, call>>
      BY <2>1 DEF PreviewAsk
    <3>4. Does(x, board[p].shown)
      BY <3>1, <3>2, <3>3
    <3> HIDE DEF Does
    <3> QED
      BY <3>4
  <2>2. CASE PreviewRead(p)
    <3> DEFINE z == Planned(p, r.type, Prepared(r.type, r.policy, r.wanted))
               x == [at |-> "version", base |-> r.base, plan |-> z]
    <3>1. /\ ask' = [ask EXCEPT ![p].preview = x] /\ x.at = "version"
          /\ x.plan = z
      BY <2>2, Zenon DEF PreviewRead
    <3> HIDE DEF x
    <3>2. /\ r # None /\ r.at = "read"
          /\ UNCHANGED <<board, rows, room, lock, call, hist>>
      BY <2>2 DEF PreviewRead, vars
    <3>3. r.type \in Types
      BY <3>2 DEF IInv, PageOK, AskOK, PreviewOK
    <3>4. Good(x.plan)
      BY <3>1, <3>3, PlannedGood
    <3>5. Does(x, board[p].shown)
      BY <3>1, <3>2, <3>4
    <3> HIDE DEF Does
    <3> QED
      BY <3>5
  <2>3. CASE PreviewStore(p)
    <3> DEFINE kept == [version |-> version[r.plan.type], plan |-> r.plan,
                        torn |-> hist.marks[r.plan.type] # r.plan.marks[r.plan.type]]
               x == [at |-> "answer", base |-> r.base, kept |-> kept]
    <3>1. /\ ask' = [ask EXCEPT ![p].preview = x] /\ x.at = "answer"
          /\ x.kept.plan = r.plan
      BY <2>3, Zenon DEF PreviewStore
    <3> HIDE DEF x
    <3>2. /\ r # None /\ r.at = "version"
          /\ UNCHANGED <<board, rows, room, lock, call, hist>>
      BY <2>3 DEF PreviewStore, vars
    <3>3. Does(x, board[p].shown)
      BY <3>1, <3>2
    <3> HIDE DEF Does
    <3> QED
      BY <3>3
  <2>4. CASE PreviewAnswer(p)
    <3> DEFINE shown == Preview(p, r.base, r.kept)
    <3>1. board' = [board EXCEPT ![p].shown = shown] /\ shown.kept = r.kept
      BY <2>4, Zenon DEF PreviewAnswer, Preview
    <3> HIDE DEF shown
    <3>2. /\ r # None /\ r.at = "answer" /\ UNCHANGED <<rows, room, lock, call, hist>>
          /\ ask' = [ask EXCEPT ![p].preview = None]
      BY <2>4 DEF PreviewAnswer
    <3>3. Does(None, shown)
      BY <3>1, <3>2
    <3> HIDE DEF Does
    <3> QED
      BY <3>3
  <2> QED
    BY <2>1, <2>2, <2>3, <2>4
<1>3. PICK x, shown : Does(x, shown)
  BY <1>2
<1> DEFINE y == [preview |-> x, act |-> ask[p].act]
<1>4. ask' = [ask EXCEPT ![p] = y]
  BY <1>1, <1>3
<1>5. ASSUME NEW plan, Held(shown, y, plan)
      PROVE  Held(board[p].shown, ask[p], plan) \/ Good(plan)
  <2>1. CASE shown # None /\ plan = shown.kept.plan
    BY <1>3, <2>1 DEF Held
  <2>2. CASE x # None /\ plan = x.plan /\ x.at = "version"
    BY <1>3, <2>2 DEF Held
  <2>3. CASE x # None /\ plan = x.kept.plan /\ x.at = "answer"
    BY <1>3, <2>3 DEF Held
  <2>4. CASE ask[p].act.op = "apply" /\ ask[p].act.at # "bump"
             /\ plan = ask[p].act.shown.kept.plan
    BY <2>4 DEF Held
  <2> QED
    BY <1>5, <2>1, <2>2, <2>3, <2>4 DEF Held
<1>6. \A t \in Types : hist.marks[t] <= hist'.marks[t]
  BY <1>3, MarksStand
<1> HIDE DEF y
<1> QED
  BY <1>3, <1>4, <1>5, <1>6, DeskKept

(* What is shown no more, and the other type of a SUPERADMIN.              *)
LEMMA ClearedLedger ==
  ASSUME IInv, IInv', Ledger, NEW p \in Planners,
         DiscardPreview(p) \/ \E t \in Types : SwitchTab(p, t)
  PROVE  Ledger'
<1>1. /\ UNCHANGED <<rows, room, lock, call, ask, hist>>
      /\ DOMAIN board = Planners /\ BoardShape(board[p])
  BY AskShape DEF DiscardPreview, SwitchTab, desk
<1> SUFFICES ASSUME NEW b, board' = [board EXCEPT ![p] = b],
                    b.shown = None, b.edits = board[p].edits
             PROVE  Ledger'
  <2>1. CASE DiscardPreview(p)
    <3> DEFINE b == [board[p] EXCEPT !.shown = None]
    <3>1. b.shown = None /\ b.edits = board[p].edits
      BY <1>1 DEF BoardShape
    <3>2. board' = [board EXCEPT ![p] = b]
      BY <2>1 DEF DiscardPreview
    <3> HIDE DEF b
    <3> QED
      BY <3>1, <3>2
  <2>2. CASE \E t \in Types : SwitchTab(p, t)
    <3>1. PICK t \in Types : SwitchTab(p, t)
      BY <2>2
    <3> DEFINE b == AfterSwitch(board[p], t)
    <3>2. b.shown = None /\ b.edits = board[p].edits
      BY <1>1 DEF BoardShape, AfterSwitch
    <3>3. board' = [board EXCEPT ![p] = b]
      BY <3>1 DEF SwitchTab
    <3> HIDE DEF b
    <3> QED
      BY <3>2, <3>3
  <2> QED
    BY <2>1, <2>2
<1>2. /\ \A q \in Planners \ {p} : board'[q] = board[q]
      /\ board'[p].shown = None /\ board'[p].edits = board[p].edits
  BY <1>1
<1> QED
  BY <1>1, <1>2, PageAlone

(* An apply or a run: asked for, read, locked, turned down and done.       *)
LEMMA ActLedger ==
  ASSUME IInv, IInv', Ledger, NEW p \in Planners,
         \/ ApplyAsk(p) \/ \E policy : RunAsk(p, policy)
         \/ ApplyRead(p) \/ EngineLock(p) \/ \E lost \in BOOLEAN : EngineBump(p, lost)
  PROVE  Ledger'
<1> DEFINE r == ask[p].act
<1>1. /\ DOMAIN ask = Planners /\ DOMAIN board = Planners
      /\ \A x : [ask[p] EXCEPT !.act = x] = [preview |-> ask[p].preview, act |-> x]
  BY AskShape
<1>2. ActOK(p) /\ hist \in Histories /\ lock \in [Types -> Holders \cup {None}]
  BY DEF IInv, TablesOK, PageOK, AskOK
<1> DEFINE Does(x, shown) ==
             /\ ask' = [ask EXCEPT ![p].act = x]
             /\ \/ board' = [board EXCEPT ![p].shown = shown]
                \/ board' = board /\ shown = board[p].shown
             /\ shown \in {board[p].shown, None}
             /\ UNCHANGED <<rows, room, call>>
             /\ hist'.astray = hist.astray
             /\ \A t \in Types : hist.marks[t] <= hist'.marks[t]
             /\ \A t \in Types, q \in Planners : lock'[t] = q => lock[t] = q
             /\ x.op = "apply" /\ x.at # "bump" =>
                  \/ r.op = "apply" /\ r.at # "bump" /\ x.shown = r.shown
                  \/ board[p].shown # None /\ x.shown = board[p].shown
<1>3. ASSUME hist' = hist
      PROVE  /\ hist'.astray = hist.astray
             /\ \A t \in Types : hist.marks[t] <= hist'.marks[t]
  BY <1>3, MarksStand
<1>4. \E x, shown : Does(x, shown)
  <2>1. CASE ApplyAsk(p)
    <3> DEFINE x == [op |-> "apply", at |-> "read", shown |-> board[p].shown]
    <3>1. /\ ask' = [ask EXCEPT ![p].act = x] /\ board[p].shown # None
          /\ UNCHANGED <<board, rows, room, lock, call, hist>>
      BY <2>1 DEF ApplyAsk, vars
    <3>2. Does(x, board[p].shown)
      BY <1>3, <3>1
    <3> HIDE DEF Does
    <3> QED
      BY <3>2
  <2>2. CASE \E policy : RunAsk(p, policy)
    <3>1. PICK policy : RunAsk(p, policy)
      BY <2>2
    <3> DEFINE x == [op |-> "run", at |-> "lock", type |-> board[p].tab,
                     policy |-> policy]
    <3>2. /\ ask' = [ask EXCEPT ![p].act = x] /\ x.op # "apply"
          /\ UNCHANGED <<board, rows, room, lock, call>>
      BY <3>1 DEF RunAsk
    <3>3. hist'.marks = hist.marks /\ hist'.astray = hist.astray
      BY <3>1, HistoryFields DEF RunAsk
    <3>4. \A t \in Types : hist.marks[t] <= hist'.marks[t]
      BY <3>3, MarksStand
    <3> HIDE DEF x
    <3>5. Does(x, board[p].shown)
      BY <3>2, <3>3, <3>4
    <3> HIDE DEF Does
    <3> QED
      BY <3>5
  <2>3. ASSUME TurnedDown(p), UNCHANGED <<rows, room, call, lock, hist>>
        PROVE  \E x, shown : Does(x, shown)
    <3> DEFINE shown == IF r.op = "apply" THEN None ELSE board[p].shown
    <3>1. /\ ask' = [ask EXCEPT ![p].act = NoAct] /\ NoAct.op # "apply"
          /\ board' = [board EXCEPT ![p].shown = shown]
          /\ shown \in {board[p].shown, None}
      BY <2>3 DEF TurnedDown, NoAct
    <3> HIDE DEF shown
    <3>2. Does(NoAct, shown)
      BY <1>3, <2>3, <3>1
    <3> HIDE DEF Does
    <3> QED
      BY <3>2
  <2>4. ASSUME NEW at \in {"lock", "commit"}, r.at \in {"read", "lock"},
               ask' = [ask EXCEPT ![p].act = [r EXCEPT !.at = at]],
               UNCHANGED <<board, rows, room, call, hist>>,
               \A t \in Types, q \in Planners : lock'[t] = q => lock[t] = q
        PROVE  \E x, shown : Does(x, shown)
    <3> DEFINE x == [r EXCEPT !.at = at]
    <3>1. x.op = "apply" => r.op = "apply" /\ r.at # "bump" /\ x.shown = r.shown
      BY <1>2, <2>4 DEF ActOK, NoAct
    <3>2. Does(x, board[p].shown)
      BY <1>3, <2>4, <3>1
    <3> HIDE DEF Does
    <3> QED
      BY <3>2
  <2>5. CASE ApplyRead(p)
    <3>1. CASE TurnedDown(p)
      BY <2>3, <2>5, <3>1 DEF ApplyRead
    <3>2. CASE ~TurnedDown(p)
      <4>1. /\ ask' = [ask EXCEPT ![p].act.at = "lock"] /\ r.at = "read"
            /\ UNCHANGED <<board, rows, room, call, lock, hist>>
        BY <2>5, <3>2 DEF ApplyRead
      <4>2. ask' = [ask EXCEPT ![p].act = [r EXCEPT !.at = "lock"]]
        BY <1>1, <4>1
      <4> HIDE DEF Does
      <4> QED
        BY <2>4, <4>1, <4>2
    <3> QED
      BY <3>1, <3>2
  <2>6. CASE EngineLock(p)
    <3>1. CASE TurnedDown(p) /\ UNCHANGED lock
      BY <2>3, <2>6, <3>1 DEF EngineLock
    <3>2. CASE ~(TurnedDown(p) /\ UNCHANGED lock)
      <4>1. /\ ask' = [ask EXCEPT ![p].act = [r EXCEPT !.at = "commit"]]
            /\ r.at = "lock" /\ lock' = [lock EXCEPT ![TypeAsked(r)] = Engine(p)]
            /\ UNCHANGED <<board, rows, room, call, hist>>
        BY <2>6, <3>2 DEF EngineLock
      <4>2. \A t \in Types, q \in Planners : lock'[t] = q => lock[t] = q
        BY <1>2, <4>1, Names
      <4> HIDE DEF Does
      <4> QED
        BY <2>4, <4>1, <4>2
    <3> QED
      BY <3>1, <3>2
  <2>7. CASE \E lost \in BOOLEAN : EngineBump(p, lost)
    <3>1. PICK lost \in BOOLEAN : EngineBump(p, lost)
      BY <2>7
    <3> DEFINE n == (IF r.changed THEN 1 ELSE 0) + (IF r.op = "apply" THEN 1 ELSE 0)
               shown == IF lost THEN board[p].shown ELSE None
    <3>2. /\ UNCHANGED <<rows, room, call>>
          /\ lock' = [lock EXCEPT ![r.type] = None]
          /\ ask' = [ask EXCEPT ![p].act = NoAct] /\ NoAct.op # "apply"
          /\ board' = [board EXCEPT ![p].shown = shown]
          /\ shown \in {board[p].shown, None}
          /\ hist' = Marked(hist, {r.type}, 1) \/ hist' = hist
      BY <3>1 DEF EngineBump, NoAct
    <3>3. \A t \in Types, q \in Planners : lock'[t] = q => lock[t] = q
      BY <1>2, <3>2, Names
    <3>4. /\ hist'.astray = hist.astray
          /\ \A t \in Types : hist.marks[t] <= hist'.marks[t]
      <4>1. CASE hist' = hist
        BY <1>3, <4>1
      <4>2. CASE hist' = Marked(hist, {r.type}, 1)
        <5>1. PICK T : T = {r.type}
          OBVIOUS
        <5>2. hist' =
             [marks |-> [t \in Types |-> hist.marks[t] + (IF t \in T THEN 1 ELSE 0)],
              astray |-> hist.astray, lopsided |-> hist.lopsided,
              silent |-> hist.silent, asks |-> hist.asks, edits |-> hist.edits,
              saves |-> hist.saves, fetches |-> hist.fetches]
          BY <1>2, <4>2, <5>1, MarkedHistory
        <5>3. hist.marks \in [Types -> Nat]
          BY <1>2 DEF Histories
        <5> QED
          BY <5>2, <5>3
      <4> QED
        BY <3>2, <4>1, <4>2
    <3> HIDE DEF shown, n
    <3>5. Does(NoAct, shown)
      BY <3>2, <3>3, <3>4
    <3> HIDE DEF Does
    <3> QED
      BY <3>5
  <2> QED
    BY <2>1, <2>2, <2>5, <2>6, <2>7
<1>5. PICK x, shown : Does(x, shown)
  BY <1>4
<1> DEFINE y == [preview |-> ask[p].preview, act |-> x]
<1>6. ask' = [ask EXCEPT ![p] = y]
  BY <1>1, <1>5
<1>7. ASSUME NEW plan, Held(shown, y, plan)
      PROVE  Held(board[p].shown, ask[p], plan)
  <2>1. CASE shown # None /\ plan = shown.kept.plan
    BY <1>5, <2>1 DEF Held
  <2>2. CASE \/ y.preview # None /\ y.preview.at = "version" /\ plan = y.preview.plan
             \/ /\ y.preview # None /\ y.preview.at = "answer"
                /\ plan = y.preview.kept.plan
    BY <2>2 DEF Held
  <2>3. CASE x.op = "apply" /\ x.at # "bump" /\ plan = x.shown.kept.plan
    BY <1>5, <2>3 DEF Held
  <2> QED
    BY <1>7, <2>1, <2>2, <2>3 DEF Held
<1> HIDE DEF y
<1> QED
  BY <1>5, <1>6, <1>7, DeskKept

(* Nothing but a preview is forgotten.                                     *)
LEMMA SameLedger ==
  ASSUME IInv, IInv', Ledger, UNCHANGED <<vars, ask>>
  PROVE  Ledger'
<1>1. UNCHANGED <<rows, room, lock, board, call, hist, ask>>
  BY DEF vars
<1>2. CASE Planners = {}
  <2>1. RowsOK /\ RowsOK' /\ CapacityKept
    BY <1>1 DEF Ledger, RowsOK
  <2>2. ASSUME NEW c \in Cells \ hist'.astray
        PROVE  Balanced(c)'
    <3>1. Total(In(c)) = P!SumOf(Weight(rows.piece, c), Pieces)
      BY <2>1, InIs DEF RowsOK
    <3>2. Total(In(c))' = P!SumOf(Weight(rows'.piece, c), Pieces)
      BY <2>1, InNext DEF RowsOK
    <3>3. Total(In(c))' = Total(In(c))
      BY <1>1, <3>1, <3>2
    <3> QED
      BY <1>1, <2>1, <3>3, KeptByCell DEF Balanced
  <2> QED
    BY <1>2, <2>1, <2>2, KeptByCell DEF Ledger
<1>3. CASE Planners # {}
  <2>1. PICK p \in Planners : TRUE
    BY <1>3
  <2> QED
    BY <1>1, PageAlone
<1> QED
  BY <1>2, <1>3
-------------------------------------------------------------------------------
(* The write of a save.  Each move has a row of its own: that of the piece *)
(* it moves, or a free one for what is placed.                             *)
Lands(f, M) ==
  /\ P!Renames(f, M, Pieces)
  /\ \A m \in M :
       /\ rows'.piece[f[m]] \in Work
       /\ rows'.piece[f[m]].order = OrderOf(m)
       /\ rows'.piece[f[m]].cell = m.cell
       /\ rows'.piece[f[m]].qty = QuantityOf(m)
       /\ m.piece # None => f[m] = m.piece
       /\ m.piece = None => rows.piece[f[m]] = None
  /\ \A a \in Pieces : (\A m \in M : f[m] # a) => rows'.piece[a] = rows.piece[a]
  /\ DOMAIN rows'.piece = Pieces

LEMMA MovesLand ==
  ASSUME IInv, Ledger, NEW p \in Planners, BulkWrite(p)
  PROVE  /\ rows'.piece = [a \in Pieces |-> rows'.piece[a]]
         /\ \E f : Lands(f, Acting(p))
<1> DEFINE M == Acting(p)
           moved(a) == {m \in M : m.piece = a}
           new == SetToSeq(Placed(M))
           free == {a \in Pieces : rows.piece[a] = None}
           at(a) == {k \in DOMAIN new :
                       a \in free /\ k = Cardinality({b \in free : b <= a})}
           piece == [a \in Pieces |->
              IF moved(a) # {}
              THEN [rows.piece[a] EXCEPT !.cell = (CHOOSE m \in moved(a) : TRUE).cell]
              ELSE IF at(a) # {}
              THEN LET m == new[CHOOSE k \in at(a) : TRUE] IN
                   [order |-> m.order, cell |-> m.cell, qty |-> m.qty]
              ELSE rows.piece[a]]
           status == [o \in Orders |-> IF PlacedFor(M, o) # {} THEN "SCHEDULED"
                                       ELSE rows.status[o]]
           n == Cardinality(Placed(M))
<1>1. /\ rows' = [rows EXCEPT !.piece = piece, !.status = status]
      /\ Len(new) <= Cardinality(free) /\ call[p].at = "write"
      /\ Doing(p, "bulk", call[p].at)
  BY DEF BulkWrite, Acting, Doing
<1>2. rows'.piece = piece
  <2>1. "piece" \in DOMAIN rows
    BY DEF IInv, TablesOK
  <2> HIDE DEF piece, status
  <2> QED
    BY <1>1, <2>1
<1>3. MovesOK(Moves(p)) /\ IsFiniteSet(M) /\ M \subseteq Moves(p)
  BY <1>1, SavingFacts
<1>4. \A m \in M :
        /\ m.cell \in Cells /\ OrderOf(m) \in Orders /\ QuantityOf(m) \in Nat \ {0}
        /\ m.piece # None =>
             /\ m.piece \in Pieces /\ rows.piece[m.piece] \in Work
             /\ rows.piece[m.piece] # None
        /\ m.piece = None => m.order \in Orders
  BY <1>1, <1>3, MovedWork
<1> HIDE DEF M
<1>5. /\ n \in Nat /\ new \in [1 .. n -> Placed(M)] /\ Len(new) = n
      /\ \A m \in Placed(M) : \E k \in 1 .. n : new[k] = m
      /\ \A i, j \in 1 .. n : new[i] = new[j] => i = j
      /\ DOMAIN new = 1 .. n
  <2>1. IsFiniteSet(Placed(M))
    BY <1>3, FS_Subset DEF Placed
  <2>2. /\ n \in Nat /\ new \in [1 .. n -> Placed(M)] /\ Len(new) = n
        /\ \A m \in Placed(M) : \E k \in 1 .. n : new[k] = m
        /\ \A i, j \in 1 .. n : new[i] = new[j] => i = j
    BY <2>1, SetToSeqIs
  <2> HIDE DEF new, n
  <2> QED
    BY <2>2
<1>6. /\ Cardinality(free) \in Nat
      /\ \A a, b \in free : Numbered(free, a) = Numbered(free, b) => a = b
      /\ \A k \in 1 .. Cardinality(free) : \E a \in free : Numbered(free, a) = k
  <2>1. free \subseteq Pieces
    OBVIOUS
  <2> HIDE DEF free
  <2> QED
    BY <2>1, RowsNumbered
<1>7. \A a \in Pieces : at(a) = {k \in 1 .. n : a \in free /\ k = Numbered(free, a)}
  BY <1>5 DEF Numbered
<1> HIDE DEF n, new
<1>8. \A m \in Placed(M) : \E a \in free :
        Numbered(free, a) \in 1 .. n /\ new[Numbered(free, a)] = m
  <2> SUFFICES ASSUME NEW m \in Placed(M)
               PROVE  \E a \in free :
                        Numbered(free, a) \in 1 .. n /\ new[Numbered(free, a)] = m
    OBVIOUS
  <2>1. PICK k \in 1 .. n : new[k] = m
    BY <1>5
  <2>2. k \in 1 .. Cardinality(free)
    BY <1>1, <1>5, <1>6
  <2>3. PICK a \in free : Numbered(free, a) = k
    BY <1>6, <2>2
  <2> QED
    BY <2>1, <2>3
<1> DEFINE slot(m) == CHOOSE a \in free :
                        Numbered(free, a) \in 1 .. n /\ new[Numbered(free, a)] = m
           f == [m \in M |-> IF m.piece # None THEN m.piece ELSE slot(m)]
<1>9. ASSUME NEW m \in Placed(M)
      PROVE  /\ slot(m) \in free /\ Numbered(free, slot(m)) \in 1 .. n
             /\ new[Numbered(free, slot(m))] = m
  <2> HIDE DEF free
  <2> QED
    BY <1>8
<1>10. \A m \in M : m.piece = None => m \in Placed(M)
  BY DEF Placed
<1> HIDE DEF slot
<1>11. P!Renames(f, M, Pieces)
  <2>1. \A m \in M : f[m] \in Pieces
    BY <1>4, <1>9, <1>10
  <2>2. ASSUME NEW x \in M, NEW y \in M, f[x] = f[y]
        PROVE  x = y
    <3>1. CASE x.piece # None /\ y.piece # None
      BY <1>3, <2>2, <3>1 DEF MovesOK
    <3>2. CASE x.piece = None /\ y.piece = None
      <4>1. slot(x) = slot(y)
        BY <2>2, <3>2
      <4> HIDE DEF f
      <4> QED
        BY <1>9, <1>10, <3>2, <4>1
    <3>3. CASE (x.piece = None) # (y.piece = None)
      <4>1. \A m \in M : IF m.piece = None THEN rows.piece[f[m]] = None
                         ELSE rows.piece[f[m]] # None
        BY <1>4, <1>9, <1>10
      <4> HIDE DEF f
      <4> QED
        BY <2>2, <3>3, <4>1
    <3> QED
      BY <3>1, <3>2, <3>3
  <2>3. f \in [M -> Pieces]
    BY <2>1
  <2> HIDE DEF f
  <2> QED
    BY <2>2, <2>3 DEF P!Renames
<1>12. ASSUME NEW m \in M
       PROVE  /\ piece[f[m]] \in Work
              /\ piece[f[m]].order = OrderOf(m) /\ piece[f[m]].cell = m.cell
              /\ piece[f[m]].qty = QuantityOf(m)
              /\ m.piece # None => f[m] = m.piece
              /\ m.piece = None => rows.piece[f[m]] = None
  <2>1. CASE m.piece # None
    <3>1. f[m] = m.piece /\ m.piece \in Pieces
      BY <1>4, <2>1
    <3>2. \A x \in M : x.piece = m.piece => x = m
      BY <1>3, <2>1 DEF MovesOK
    <3>3. moved(m.piece) = {m}
      BY <3>2
    <3>4. (CHOOSE x \in moved(m.piece) : TRUE) = m
      BY <3>3
    <3> DEFINE w == rows.piece[m.piece]
               v == [w EXCEPT !.cell = m.cell]
    <3>5. piece[m.piece] = v
      <4>1. moved(m.piece) # {}
        BY <3>3
      <4> HIDE DEF moved, at
      <4> QED
        BY <3>1, <3>4, <4>1
    <3>6. w \in Work /\ m.cell \in Cells
      BY <1>4, <2>1
    <3>7. v \in Work /\ v.order = w.order /\ v.cell = m.cell /\ v.qty = w.qty
      BY <3>6 DEF Work
    <3>8. OrderOf(m) = w.order /\ QuantityOf(m) = w.qty
      BY <2>1 DEF OrderOf, QuantityOf
    <3> HIDE DEF f, piece, w, v
    <3> QED
      BY <2>1, <3>1, <3>5, <3>7, <3>8
  <2>2. CASE m.piece = None
    <3> DEFINE a == slot(m)
    <3>1. /\ f[m] = a /\ a \in free /\ Numbered(free, a) \in 1 .. n
          /\ new[Numbered(free, a)] = m
      BY <1>9, <1>10, <2>2
    <3>2. a \in Pieces /\ rows.piece[a] = None
      BY <3>1
    <3>3. moved(a) = {}
      <4>1. a # None
        BY <3>2, CalendarAlike
      <4>2. \A x \in M : x.piece # a
        BY <1>4, <3>2, <4>1
      <4> QED
        BY <4>2
    <3>4. at(a) = {Numbered(free, a)}
      <4> HIDE DEF a, at, free
      <4>1. at(a) = {k \in 1 .. n : a \in free /\ k = Numbered(free, a)}
        BY <1>7, <3>2
      <4> QED
        BY <3>1, <4>1
    <3>5. new[CHOOSE k \in at(a) : TRUE] = m /\ at(a) # {}
      <4> HIDE DEF at, a, free
      <4> QED
        BY <3>1, <3>4
    <3> DEFINE w == [order |-> m.order, cell |-> m.cell, qty |-> m.qty]
    <3>6. piece[a] = w
      <4> HIDE DEF a, moved, at
      <4> QED
        BY <3>2, <3>3, <3>5
    <3>7. OrderOf(m) = m.order /\ QuantityOf(m) = m.qty
      BY <2>2 DEF OrderOf, QuantityOf
    <3>8. w \in Work
      BY <1>4, <3>7 DEF Work
    <3> HIDE DEF f, piece, a
    <3> QED
      BY <2>2, <3>1, <3>2, <3>6, <3>7, <3>8
  <2> QED
    BY <2>1, <2>2
<1>13. ASSUME NEW a \in Pieces, \A m \in M : f[m] # a
       PROVE  piece[a] = rows.piece[a]
  <2>1. moved(a) = {}
    <3>1. a # None
      BY CalendarAlike
    <3> QED
      BY <1>13, <3>1
  <2>2. at(a) = {}
    <3> SUFFICES ASSUME NEW k \in at(a)
                 PROVE  FALSE
      OBVIOUS
    <3>1. k \in 1 .. n /\ a \in free /\ k = Numbered(free, a)
      <4> HIDE DEF at, free
      <4> QED
        BY <1>7
    <3>2. PICK m : m = new[k]
      OBVIOUS
    <3>3. m \in Placed(M)
      BY <1>5, <3>1, <3>2
    <3>4. slot(m) \in free /\ Numbered(free, slot(m)) \in 1 .. n
          /\ new[Numbered(free, slot(m))] = m
      BY <1>9, <3>3
    <3>5. slot(m) = a
      <4> HIDE DEF at, free
      <4> QED
        BY <1>5, <1>6, <3>1, <3>2, <3>4
    <3>6. m \in M /\ m.piece = None
      BY <3>3 DEF Placed
    <3>7. f[m] = a
      BY <3>5, <3>6
    <3> QED
      BY <1>13, <3>6, <3>7
  <2> HIDE DEF moved, at
  <2> QED
    BY <2>1, <2>2
<1>14. DOMAIN piece = Pieces /\ piece = [a \in Pieces |-> piece[a]]
  OBVIOUS
<1> HIDE DEF piece, f
<1>15. Lands(f, M)
  BY <1>2, <1>11, <1>12, <1>13, <1>14 DEF Lands
<1> QED
  BY <1>2, <1>14, <1>15 DEF M

(* What a save takes out of a cell and brings in is what the cell's work   *)
(* changes by.                                                             *)
LEMMA LandedTotals ==
  ASSUME RowsOK, NEW M, IsFiniteSet(M), NEW f, Lands(f, M),
         \A m \in M : /\ QuantityOf(m) \in Nat
                      /\ m.piece # None => rows.piece[m.piece] # None,
         NEW c \in Cells
  PROVE  /\ rows'.piece \in [Pieces -> Work \cup {None}] =>
              Total(In(c))' = Total(In(c)) - NetChange(M, c)
         /\ NetChange(M, c) \in Int /\ Total(In(c)) \in Int
         /\ (\A m \in M : m.cell # c /\ (m.piece # None => rows.piece[m.piece].cell # c))
              => NetChange(M, c) = 0
<1> DEFINE u == Weight(rows.piece, c)
           v == Weight(rows'.piece, c)
           l == Leaving(M, c)
           e == Entering(M, c)
           d == [m \in M |-> e[m] - l[m]]
<1>1. /\ P!SumOf(l, M) \in Int /\ P!SumOf(e, M) \in Int
      /\ NetChange(M, c) = P!SumOf(l, M) - P!SumOf(e, M)
  BY NetIs
<1>2. \A m \in M : l[m] \in Int /\ e[m] \in Int /\ d[m] \in Int /\ e[m] = l[m] + d[m]
  BY DEF Leaving, Entering
<1>3. P!SumOf(d, M) \in Int /\ P!SumOf(e, M) = P!SumOf(l, M) + P!SumOf(d, M)
  <2> HIDE DEF l, e, d
  <2> QED
    BY <1>2, CalendarAlike, FiniteAlike, P!SumPlus, P!SumInt
<1>4. ASSUME \A m \in M : m.cell # c /\ (m.piece # None => rows.piece[m.piece].cell # c)
      PROVE  NetChange(M, c) = 0
  <2>1. \A m \in M : l[m] = 0 /\ e[m] = 0
    BY <1>4 DEF Leaving, Entering
  <2> HIDE DEF l, e
  <2>2. P!SumOf(l, M) = 0 /\ P!SumOf(e, M) = 0
    BY <2>1, CalendarAlike, FiniteAlike, P!SumNothing
  <2> QED
    BY <1>1, <2>2
<1>5. \A a \in Pieces : u[a] \in Nat
  BY WeightNat DEF RowsOK
<1>6. Total(In(c)) = P!SumOf(u, Pieces) /\ P!SumOf(u, Pieces) \in Int
  BY InIs, WeightNat DEF RowsOK
<1>7. ASSUME rows'.piece \in [Pieces -> Work \cup {None}]
      PROVE  Total(In(c))' = Total(In(c)) - NetChange(M, c)
  <2>1. \A a \in Pieces : v[a] \in Nat
    BY <1>7, WeightNat
  <2>2. Total(In(c))' = P!SumOf(v, Pieces)
    BY <1>7, InNext
  <2>3. \A m \in M : f[m] \in Pieces
    BY DEF Lands, P!Renames
  <2>4. ASSUME NEW m \in M
        PROVE  v[f[m]] = e[m] /\ u[f[m]] = l[m]
    <3>1. v[f[m]] = e[m]
      <4>1. rows'.piece[f[m]] # None
        BY SceneAssumption DEF Lands
      <4> QED
        BY <2>3, <4>1 DEF Lands, Weight, Entering
    <3>2. u[f[m]] = l[m]
      BY <2>3 DEF Lands, Weight, Leaving, QuantityOf
    <3> QED
      BY <3>1, <3>2
  <2>5. \A a \in Pieces : (\A m \in M : f[m] # a) => v[a] = u[a]
    BY DEF Lands, Weight
  <2>6. \A m \in M : d[m] \in Int /\ v[f[m]] = u[f[m]] + d[m]
    BY <1>2, <2>4
  <2>7. P!Renames(f, M, Pieces)
    BY DEF Lands
  <2> HIDE DEF u, v, d, l, e
  <2>8. P!SumOf(v, Pieces) = P!SumOf(u, Pieces) + P!SumOf(d, M)
    <3>1. \A a \in Pieces : u[a] \in Int /\ v[a] \in Int
      BY <1>5, <2>1
    <3>2. IsFiniteSet(Pieces)
      BY CalendarAlike
    <3> QED
      BY <2>5, <2>6, <2>7, <3>1, <3>2, SumShift
  <2> QED
    BY <1>1, <1>3, <1>6, <2>2, <2>8
<1> HIDE DEF u, v, d, l, e
<1> QED
  BY <1>1, <1>4, <1>6, <1>7

(* The write of a save: what it takes fits, for it has fitted when it was  *)
(* read, and the types that it writes to have been locked since.           *)
LEMMA WriteLedger ==
  ASSUME IInv, IInv', Ledger, NEW p \in Planners, BulkWrite(p), UNCHANGED desk
  PROVE  Ledger'
<1>0. PICK M : M = Acting(p)
  OBVIOUS
<1> DEFINE T == TypesOf(M)
           b == Seen(board[p], T, 1)
           d == [call[p] EXCEPT !.at = "bump"]
           touched == {c \in Cells : \/ \E m \in M : m.cell = c
                                     \/ \E m \in M \ Placed(M) :
                                          rows.piece[m.piece].cell = c}
           more == {c \in touched : FactoryType[c[1]] \notin T}
           h == Marked(hist, T, 1)
<1>1. /\ call[p].at = "write" /\ Saves(p) /\ ask' = ask /\ lock' = lock
      /\ Doing(p, "bulk", "write") /\ Doing(p, "bulk", call[p].at)
      /\ board' = [board EXCEPT ![p] = b] /\ call' = [call EXCEPT ![p] = d]
      /\ room' = [c \in Cells |-> room[c] + NetChange(M, c)]
      /\ hist' = [h EXCEPT !.astray = @ \cup more]
  BY <1>0 DEF BulkWrite, Doing, Saves, desk, Acting
<1>2. /\ DOMAIN board = Planners /\ DOMAIN call = Planners /\ BoardShape(board[p])
      /\ hist \in Histories /\ hist.marks \in [Types -> Nat] /\ CallOK(p)
  BY <1>1, SaveFacts
<1>3. /\ b.shown = board[p].shown /\ b.edits = board[p].edits
      /\ d.at = "bump" /\ d.queue = call[p].queue
  BY <1>1, <1>2 DEF BoardShape, Seen, CallOK
<1> HIDE DEF b, d
<1>4. /\ board'[p] = b /\ call'[p] = d
      /\ \A q \in Planners \ {p} : board'[q] = board[q] /\ call'[q] = call[q]
  BY <1>1, <1>2
<1>5. IsFiniteSet(M) /\ M \subseteq Moves(p)
  BY <1>0, <1>1, SavingFacts
<1>6. \A m \in M :
        /\ m.cell \in Cells /\ OrderOf(m) \in Orders /\ QuantityOf(m) \in Nat \ {0}
        /\ lock[OrderType[OrderOf(m)]] = p
        /\ m.piece # None => rows.piece[m.piece] # None
        /\ Found(m)
  <2>1. \A m \in Moves(p) : Found(m)
    BY <1>1 DEF IInv, PageOK, MovesHeld
  <2> QED
    BY <1>1, <1>5, <2>1, MovedWork
<1>7. /\ T = {OrderType[OrderOf(m)] : m \in M}
      /\ \A t \in T : t \in Types /\ lock[t] = p
  <2>1. {m \in M : Found(m)} = M
    BY <1>6
  <2>2. T = {OrderType[OrderOf(m)] : m \in M}
    BY <2>1 DEF TypesOf
  <2> QED
    BY <1>6, <2>2, PlanAssumption
<1>8. PICK f : Lands(f, M)
  BY <1>0, MovesLand
<1> HIDE DEF T, touched
<1>9. /\ hist'.astray = hist.astray \cup more
      /\ \A t \in Types : /\ hist.marks[t] <= hist'.marks[t]
                          /\ t \in T => hist.marks[t] < hist'.marks[t]
  <2>1. h = [marks |-> [t \in Types |-> hist.marks[t] + (IF t \in T THEN 1 ELSE 0)],
             astray |-> hist.astray, lopsided |-> hist.lopsided,
             silent |-> hist.silent, asks |-> hist.asks, edits |-> hist.edits,
             saves |-> hist.saves, fetches |-> hist.fetches]
    BY <1>2, MarkedHistory
  <2> HIDE DEF h, more
  <2>2. hist'.astray = hist.astray \cup more /\ hist'.marks = h.marks
    BY <1>1, <2>1
  <2> QED
    BY <1>2, <2>1, <2>2
<1>10. RowsOK /\ CapacityKept
  BY DEF Ledger
<1>11. rows'.piece \in [Pieces -> Work \cup {None}]
  <2>1. rows'.piece = [a \in Pieces |-> rows'.piece[a]]
    BY <1>0, MovesLand
  <2>2. \A a \in Pieces : rows'.piece[a] \in Work \cup {None}
    BY <1>8, <1>10 DEF Lands, RowsOK
  <2> QED
    BY <2>1, <2>2
<1>12. ASSUME NEW c \in Cells
       PROVE  /\ Total(In(c))' = Total(In(c)) - NetChange(M, c)
              /\ NetChange(M, c) \in Int /\ Total(In(c)) \in Int
              /\ c \notin touched => NetChange(M, c) = 0
              /\ room'[c] = room[c] + NetChange(M, c)
  <2>1. c \notin touched =>
          \A m \in M : m.cell # c /\ (m.piece # None => rows.piece[m.piece].cell # c)
    BY DEF touched, Placed
  <2>2. \A m \in M : QuantityOf(m) \in Nat
                     /\ (m.piece # None => rows.piece[m.piece] # None)
    BY <1>6
  <2>3. /\ Total(In(c))' = Total(In(c)) - NetChange(M, c)
        /\ NetChange(M, c) \in Int /\ Total(In(c)) \in Int
        /\ c \notin touched => NetChange(M, c) = 0
    BY <1>5, <1>8, <1>10, <1>11, <2>1, <2>2, LandedTotals
  <2> QED
    BY <1>1, <2>3
<1>13. RowsOK'
  <2>1. \A c \in Cells : room[c] + NetChange(M, c) \in Int
    BY <1>10, <1>12 DEF RowsOK
  <2>2. room' \in [Cells -> Int]
    BY <1>1, <2>1
  <2> QED
    BY <1>11, <2>2 DEF RowsOK
<1>14. \A c \in Cells \ hist'.astray : c \in touched => FactoryType[c[1]] \in T
  BY <1>9
<1>15. CapacityKept'
  <2>1. ASSUME NEW c \in Cells \ hist'.astray
        PROVE  Balanced(c)'
    <3>1. Balanced(c)
      BY <1>9, <1>10, KeptByCell
    <3>2. room[c] \in Int /\ MaxCapacity[c[1]] \in Int
      BY <1>10, PlanAssumption DEF RowsOK, Cells
    <3>3. ASSUME NetChange(M, c) < 0
          PROVE  room[c] + NetChange(M, c) >= 0
      <4>1. c \in touched
        BY <1>12, <3>3
      <4>2. lock[FactoryType[c[1]]] = p
        BY <1>7, <1>14, <4>1
      <4>3. ~Short(M, c)
        BY <1>0, <1>1, <1>9, <4>2 DEF Ledger, FitsStill
      <4> QED
        BY <1>12, <3>2, <3>3, <4>3 DEF Short
    <3>4. room'[c] >= 0
      BY <1>12, <3>1, <3>2, <3>3 DEF Balanced
    <3>5. room'[c] + Total(In(c))' = MaxCapacity[c[1]]
      <4>1. room[c] + Total(In(c)) = MaxCapacity[c[1]]
        BY <3>1 DEF Balanced
      <4>2. PICK x, y, z : x = Total(In(c)) /\ y = Total(In(c))' /\ z = NetChange(M, c)
        OBVIOUS
      <4>3. y = x - z /\ x \in Int /\ z \in Int /\ room'[c] = room[c] + z
        BY <1>12, <4>2
      <4>4. room'[c] + y = MaxCapacity[c[1]]
        BY <3>2, <4>1, <4>2, <4>3
      <4> QED
        BY <4>2, <4>4
    <3> QED
      BY <3>4, <3>5 DEF Balanced
  <2> QED
    BY <2>1, KeptByCell
<1>16. WritesTo(T)
  <2>1. ASSUME NEW c \in Cells \ hist'.astray, FactoryType[c[1]] \notin T
        PROVE  room'[c] = room[c]
    <3>1. room[c] \in Int /\ c \notin touched
      BY <1>10, <1>14, <2>1 DEF RowsOK
    <3> QED
      BY <1>12, <3>1
  <2>2. ASSUME NEW a \in Pieces, rows'.piece[a] # rows.piece[a]
        PROVE  /\ rows.piece[a] # None => OrderType[rows.piece[a].order] \in T
               /\ rows'.piece[a] # None => OrderType[rows'.piece[a].order] \in T
    <3>1. PICK m \in M : f[m] = a
      BY <1>8, <2>2 DEF Lands
    <3>2. rows'.piece[a].order = OrderOf(m)
      BY <1>8, <3>1 DEF Lands
    <3>3. rows.piece[a] # None => rows.piece[a].order = OrderOf(m)
      BY <1>8, <3>1 DEF Lands, OrderOf
    <3> QED
      BY <1>7, <3>2, <3>3
  <2>3. hist.astray \subseteq hist'.astray
    BY <1>9
  <2> QED
    BY <1>9, <2>1, <2>2, <2>3 DEF WritesTo
<1>17. \A q \in Planners \ {p} :
         /\ board'[q] = board[q] /\ call'[q] = call[q] /\ ask'[q] = ask[q]
         /\ \A t \in Types : /\ t \in T => lock[t] # q
                             /\ lock'[t] = q => lock[t] = q
  BY <1>1, <1>4, <1>7
<1>18. EditsOK(board[p].edits) /\ QueueOK(call[p].queue)
  BY <1>1 DEF Ledger
<1>19. EditsOK(board[p].edits)'
  BY <1>3, <1>4, <1>18 DEF EditsOK
<1>20. QueueOK(call[p].queue)'
  BY <1>3, <1>4, <1>18 DEF QueueOK
<1>21. FitsStill(p)'
  BY <1>3, <1>4 DEF FitsStill, Doing
<1>22. \A plan \in PlansInHand(p)' : plan \in PlansInHand(p)
  BY <1>1, <1>3, <1>4 DEF PlansInHand
<1> HIDE DEF more, h
<1> QED
  BY <1>13, <1>15, <1>16, <1>17, <1>19, <1>20, <1>21, <1>22, LedgerKept
-------------------------------------------------------------------------------
(* The commit of a plan.  New work goes to the rows that are free, or that *)
(* the commit frees, in the order of the orders, days and factories.       *)
Before(v, w) == \/ v.order < w.order
                \/ v.order = w.order /\ v.day < w.day
                \/ v.order = w.order /\ v.day = w.day /\ v.factory < w.factory

LEMMA BeforeStrict ==
  ASSUME NEW W \in SUBSET P!Given, P!Apart(W)
  PROVE  P!Strict({p \in W \X W : Before(p[1], p[2])}, W)
<1> DEFINE R == {p \in W \X W : Before(p[1], p[2])}
<1>1. \A a, b \in W : <<a, b>> \in R <=> Before(a, b)
  OBVIOUS
<1>2. ASSUME NEW a \in W
      PROVE  a.order \in Int /\ a.factory \in Int /\ a.day \in Int
  <2>1. a.order \in Orders /\ a.factory \in Factories /\ a.day \in Days
    BY CalendarAlike DEF P!Given
  <2>2. Orders \subseteq Int /\ Factories \subseteq Int /\ Days \subseteq Int
    BY CalendarAlike, PlanAssumption
  <2> QED
    BY <2>1, <2>2
<1> HIDE DEF R
<1>3. \A a, b \in W : a # b => Before(a, b) \/ Before(b, a)
  BY <1>2 DEF P!Apart, Before
<1>4. \A a, b, c \in W : Before(a, b) /\ Before(b, c) => Before(a, c)
  BY <1>2 DEF Before
<1>5. \A a \in W : ~Before(a, a)
  BY <1>2 DEF Before
<1>6. \A a, b \in W : a # b => <<a, b>> \in R \/ <<b, a>> \in R
  BY <1>1, <1>3
<1>7. \A a, b, c \in W : <<a, b>> \in R /\ <<b, c>> \in R => <<a, c>> \in R
  BY <1>1, <1>4
<1>8. \A a \in W : <<a, a>> \notin R
  BY <1>1, <1>5
<1> QED
  BY <1>6, <1>7, <1>8 DEF P!Strict, P!Linear, R

RowFor(d) == [order |-> d.order, cell |-> <<d.factory, d.day>>, qty |-> d.qty]
Slots(plan) == {a \in Pieces : rows.piece[a] = None} \cup Deleted(plan)
Settles(f, plan, piece) ==
  /\ P!Renames(f, plan.plan.new, Slots(plan))
  /\ \A d \in plan.plan.new : piece[f[d]] = RowFor(d)
  /\ \A a \in Pieces : (\A d \in plan.plan.new : f[d] # a) =>
       piece[a] = IF a \in Deleted(plan) THEN None ELSE rows.piece[a]
  /\ piece = [a \in Pieces |-> piece[a]]

LEMMA PlanSettles ==
  ASSUME "piece" \in DOMAIN rows, NEW plan,
         plan.plan.new \subseteq P!Given, IsFiniteSet(plan.plan.new),
         P!Apart(plan.plan.new),
         Cardinality(plan.plan.new) <= Cardinality(Slots(plan))
  PROVE  \E f : Settles(f, plan, Written(plan).piece)
<1> DEFINE new == plan.plan.new
           slots == Slots(plan)
           before(v, w) == \/ v.order < w.order
                           \/ v.order = w.order /\ v.day < w.day
                           \/ v.order = w.order /\ v.day = w.day
                              /\ v.factory < w.factory
           nth(d) == Cardinality({e \in plan.plan.new : before(e, d)})
           at(a) == {d \in plan.plan.new :
                       a \in slots /\ nth(d) = Cardinality({b \in slots : b < a})}
           piece == [a \in Pieces |->
             IF at(a) # {} THEN LET d == CHOOSE d \in at(a) : TRUE IN
               [order |-> d.order, cell |-> <<d.factory, d.day>>, qty |-> d.qty]
             ELSE IF a \in Deleted(plan) THEN None ELSE rows.piece[a]]
           status == [o \in Orders |-> IF o \in DOMAIN plan.in.rows
                                       THEN plan.plan.status[o]
                                       ELSE rows.status[o]]
           B == {p \in new \X new : Before(p[1], p[2])}
           R == {p \in slots \X slots : p[1] < p[2]}
<1>1. Written(plan) = [rows EXCEPT !.piece = piece, !.status = status]
  BY DEF Written, Slots
<1>2. Written(plan).piece = piece
  <2> HIDE DEF piece, status
  <2> QED
    BY <1>1
<1>3. slots \subseteq Pieces /\ IsFiniteSet(slots) /\ slots \subseteq Int
  <2>1. slots \subseteq Pieces
    BY DEF Slots, Deleted
  <2> QED
    BY <2>1, CalendarAlike, FS_Subset
<1>4. P!Strict(B, new) /\ P!Strict(R, slots)
  BY <1>3, BeforeStrict, CalendarAlike, P!IntsStrict
<1>5. ASSUME NEW a \in slots, NEW d \in new
      PROVE  d \in at(a) <=> P!RankIn(B, new, d) = P!RankIn(R, slots, a)
  <2>1. {e \in new : before(e, d)} = P!Preceding(B, new, d)
    <3>1. \A e \in new : <<e, d>> \in B <=> before(e, d)
      BY DEF Before
    <3> HIDE DEF B, before
    <3> QED
      BY <3>1 DEF P!Preceding
  <2>2. {b \in slots : b < a} = P!Preceding(R, slots, a)
    <3>1. \A b \in slots : <<b, a>> \in R <=> b < a
      BY <1>5
    <3> HIDE DEF R, slots
    <3> QED
      BY <3>1 DEF P!Preceding
  <2>3. d \in at(a) <=> nth(d) = Cardinality({b \in slots : b < a})
    BY <1>5
  <2> HIDE DEF at, B, R, slots
  <2> QED
    BY <2>1, <2>2, <2>3, SizesAlike DEF P!RankIn
<1>6. \A a : a \notin slots => at(a) = {}
  OBVIOUS
<1>7. \A a : at(a) \subseteq new
  OBVIOUS
<1> HIDE DEF B, R
<1>8. PICK f : /\ P!Renames(f, new, slots)
               /\ \A d \in new, a \in slots :
                    P!RankIn(B, new, d) = P!RankIn(R, slots, a) <=> f[d] = a
  <2> HIDE DEF slots, at
  <2>1. /\ P!IsFiniteSet(new) /\ P!IsFiniteSet(slots)
        /\ P!Cardinality(new) <= P!Cardinality(slots)
    BY <1>3, FiniteAlike, SizesAlike DEF slots
  <2> HIDE DEF new
  <2> QED
    BY <1>4, <2>1, CalendarAlike, P!PlacesByRank
<1> HIDE DEF at
<1>9. \A d \in new : f[d] \in slots /\ \A e \in new : f[e] = f[d] => e = d
  BY <1>8 DEF P!Renames
<1>10. ASSUME NEW d \in new
       PROVE  piece[f[d]] = RowFor(d)
  <2>1. at(f[d]) = {d}
    <3> HIDE DEF slots, new
    <3>1. \A e \in new : e \in at(f[d]) <=> f[e] = f[d]
      BY <1>5, <1>8, <1>9
    <3> QED
      BY <1>7, <1>9, <3>1
  <2>2. at(f[d]) # {} /\ (CHOOSE e \in at(f[d]) : TRUE) = d
    BY <2>1
  <2>3. f[d] \in Pieces
    BY <1>3, <1>9
  <2> QED
    BY <2>2, <2>3 DEF RowFor
<1>11. ASSUME NEW a \in Pieces, \A d \in new : f[d] # a
       PROVE  piece[a] = IF a \in Deleted(plan) THEN None ELSE rows.piece[a]
  <2>1. at(a) = {}
    <3> HIDE DEF slots, new
    <3>1. a \in slots => \A d \in new : d \notin at(a)
      BY <1>5, <1>8, <1>11
    <3> QED
      BY <1>6, <1>7, <3>1
  <2> QED
    BY <2>1
<1>12. piece = [a \in Pieces |-> piece[a]]
  OBVIOUS
<1> HIDE DEF piece
<1> QED
  BY <1>2, <1>8, <1>10, <1>11, <1>12 DEF Settles
-------------------------------------------------------------------------------
(* What a commit frees in a cell and what it places there is what the      *)
(* cell's work changes by.                                                 *)
LEMMA SettledTotals ==
  ASSUME RowsOK, NEW plan, rows'.piece \in [Pieces -> Work \cup {None}],
         P!Pile(plan.plan.new), NEW f, Settles(f, plan, rows'.piece),
         NEW c \in Cells
  PROVE  LET n == P!Amount(P!On(plan.plan.new, c)) IN
         /\ n \in Nat /\ (n = 0 <=> P!On(plan.plan.new, c) = {})
         /\ Total(In(c)) \in Int /\ Total(Freed(plan, c)) \in Int
         /\ Total(In(c))' = (Total(In(c)) - Total(Freed(plan, c))) + n
<1> DEFINE new == plan.plan.new
           u == Weight(rows.piece, c)
           v == Weight(rows'.piece, c)
           w == [a \in Pieces |-> IF a \in Deleted(plan) THEN 0 ELSE u[a]]
           x == [a \in Pieces |-> IF a \in Deleted(plan) THEN u[a] ELSE 0]
           d == [e \in new |-> IF <<e.factory, e.day>> = c THEN e.qty ELSE 0]
           n == P!Amount(P!On(new, c))
<1>1. /\ IsFiniteSet(Pieces) /\ IsFiniteSet(new) /\ new \subseteq P!Given
  BY CalendarAlike, FiniteAlike DEF P!Pile
<1>2. n \in Nat /\ (n = 0 <=> P!On(new, c) = {})
  BY CalendarAlike, P!PileOn
<1>3. \A a \in Pieces : u[a] \in Nat /\ v[a] \in Nat
  BY WeightNat DEF RowsOK
<1>4. Total(In(c)) = P!SumOf(u, Pieces) /\ P!SumOf(u, Pieces) \in Int
  BY InIs, WeightNat DEF RowsOK
<1>5. Total(In(c))' = P!SumOf(v, Pieces)
  BY InNext
<1>6. P!SumOf(d, new) = n
  <2> DEFINE on == P!On(new, c)
             q == P!Qty(on)
  <2>1. on \subseteq new
    BY DEF P!On
  <2>2. n = P!SumOf(q, on)
    BY CalendarAlike, P!AmountIsSum
  <2>3. \A e \in on : q[e] \in Int
    BY <1>1, <2>1 DEF P!Qty, P!Given
  <2>4. \A e \in new : d[e] = IF e \in on THEN q[e] ELSE 0
    BY DEF P!Qty, P!On
  <2> HIDE DEF on, q, d, new, n
  <2> QED
    BY <1>1, <2>1, <2>2, <2>3, <2>4, SumWhere
<1>7. P!SumOf(x, Pieces) = Total(Freed(plan, c)) /\ Total(Freed(plan, c)) \in Int
  <2> DEFINE I == Freed(plan, c)
             q == [a \in I |-> rows.piece[a].qty]
  <2>1. I \subseteq Pieces
    BY DEF Freed, Deleted
  <2>2. Total(I) = P!SumOf(q, I)
    BY TotalIs
  <2>3. ASSUME NEW a \in I
        PROVE  q[a] \in Int
    <3>1. a \in Pieces /\ rows.piece[a] # None
      BY DEF Freed, Deleted
    <3>2. rows.piece[a] \in Work
      BY <3>1 DEF RowsOK
    <3> QED
      BY <3>2 DEF Work
  <2>4. \A a \in Pieces : x[a] = IF a \in I THEN q[a] ELSE 0
    BY DEF Freed, Deleted, Weight
  <2> HIDE DEF I, q, x
  <2>5. P!SumOf(q, I) \in Int /\ P!SumOf(x, Pieces) = P!SumOf(q, I)
    BY <1>1, <2>1, <2>3, <2>4, SumWhere
  <2> QED
    BY <2>2, <2>5 DEF I
<1>8. /\ \A a \in Pieces : w[a] \in Int /\ x[a] \in Int /\ u[a] = w[a] + x[a]
      /\ \A e \in new : d[e] \in Int
  <2>1. \A a \in Pieces : w[a] \in Int /\ x[a] \in Int /\ u[a] = w[a] + x[a]
    <3> HIDE DEF u
    <3> QED
      BY <1>3
  <2>2. \A e \in new : d[e] \in Int
    BY <1>1 DEF P!Given
  <2> QED
    BY <2>1, <2>2
<1>9. P!SumOf(u, Pieces) = P!SumOf(w, Pieces) + P!SumOf(x, Pieces)
      /\ P!SumOf(w, Pieces) \in Int
  <2> HIDE DEF u, w, x
  <2> QED
    BY <1>1, <1>8, CalendarAlike, FiniteAlike, P!SumPlus, P!SumInt
<1>10. P!Renames(f, new, Slots(plan))
       /\ \A a \in Slots(plan) : a \in Pieces
                                 /\ (a \in Deleted(plan) \/ rows.piece[a] = None)
  BY DEF Settles, Slots, Deleted
<1>11. P!Renames(f, new, Pieces)
  BY <1>10 DEF P!Renames
<1>12. ASSUME NEW e \in new
       PROVE  v[f[e]] = w[f[e]] + d[e]
  <2>1. f[e] \in Slots(plan) /\ f[e] \in Pieces
    BY <1>10 DEF P!Renames
  <2>2. w[f[e]] = 0
    BY <1>10, <2>1 DEF Weight
  <2>3. rows'.piece[f[e]] = RowFor(e) /\ rows'.piece[f[e]] \in Work
    <3>1. RowFor(e) \in Work
      <4>1. /\ e.order \in Orders /\ e.qty \in Nat \ {0}
            /\ <<e.factory, e.day>> \in Cells
        BY <1>1, CalendarAlike DEF P!Given, Cells
      <4> QED
        BY <4>1 DEF RowFor, Work
    <3> QED
      BY <3>1 DEF Settles
  <2>4. v[f[e]] = d[e]
    <3>1. rows'.piece[f[e]] # None
      BY <2>3, SceneAssumption
    <3>2. RowFor(e).cell = <<e.factory, e.day>> /\ RowFor(e).qty = e.qty
      BY DEF RowFor
    <3>3. v[f[e]] = IF rows'.piece[f[e]] # None /\ rows'.piece[f[e]].cell = c
                    THEN rows'.piece[f[e]].qty ELSE 0
      BY <2>1 DEF Weight
    <3> QED
      BY <2>3, <3>1, <3>2, <3>3
  <2> HIDE DEF v, w, d
  <2> QED
    BY <1>8, <2>2, <2>4
<1>13. ASSUME NEW a \in Pieces, \A e \in new : f[e] # a
       PROVE  v[a] = w[a]
  <2>1. rows'.piece[a] = IF a \in Deleted(plan) THEN None ELSE rows.piece[a]
    BY <1>13 DEF Settles
  <2> QED
    BY <2>1 DEF Weight
<1>14. P!SumOf(v, Pieces) = P!SumOf(w, Pieces) + P!SumOf(d, new)
  <2>1. \A a \in Pieces : w[a] \in Int /\ v[a] \in Int
    BY <1>3, <1>8
  <2> HIDE DEF u, v, w, d, new
  <2> QED
    BY <1>1, <1>8, <1>11, <1>12, <1>13, <2>1, SumShift
<1> HIDE DEF u, v, w, x, d, new
<1>15. Total(In(c)) = P!SumOf(w, Pieces) + Total(Freed(plan, c))
  BY <1>4, <1>7, <1>9
<1>16. Total(In(c))' = P!SumOf(w, Pieces) + n
  BY <1>5, <1>6, <1>14
<1>17. PICK y, y2, k, s : y = Total(In(c)) /\ y2 = Total(In(c))'
                          /\ k = Total(Freed(plan, c)) /\ s = P!SumOf(w, Pieces)
  OBVIOUS
<1>18. y2 = (y - k) + n /\ y \in Int /\ k \in Int
  <2>1. y = s + k /\ y2 = s + n /\ s \in Int /\ k \in Int /\ n \in Int
    BY <1>2, <1>7, <1>9, <1>15, <1>16, <1>17
  <2> HIDE DEF n
  <2> QED
    BY <2>1
<1>19. n \in Nat /\ (n = 0 <=> P!On(plan.plan.new, c) = {})
  BY <1>2 DEF new
<1> QED
  BY <1>17, <1>18, <1>19 DEF n, new

(* The commit of an apply or a run is that of a good plan of its type.     *)
CommitsAs(p, t, plan, x) ==
  /\ lock[t] = Engine(p) /\ plan.type = t /\ Good(plan)
  /\ rows' = Written(plan)
  /\ Cardinality(plan.plan.new) <= Cardinality(Slots(plan))
  /\ room' = [c \in Cells |-> IF c \in Changes(plan) THEN plan.plan.left[c]
                              ELSE room[c]]
  /\ hist'.marks = [s \in Types |-> hist.marks[s] + (IF s = t THEN 1 ELSE 0)]
  /\ hist'.astray = hist.astray \cup Elsewhere(plan)
       \cup (IF plan.marks[t] # hist.marks[t] THEN WrittenCells(plan) ELSE {})
  /\ UNCHANGED <<lock, board, call>>
  /\ ask' = [ask EXCEPT ![p] = [preview |-> ask[p].preview, act |-> x]]
  /\ x.at = "bump"

LEMMA CommitIs ==
  ASSUME IInv, Ledger, NEW p \in Planners, EngineCommit(p)
  PROVE  \E t, plan, x : t \in Types /\ CommitsAs(p, t, plan, x)
<1> DEFINE r == ask[p].act
           t == TypeAsked(r)
           plan == IF r.op = "apply" THEN r.shown.kept.plan
                   ELSE Planned(p, t, Prepared(t, r.policy, Orders))
           counted == r.op = "apply" \/ Changes(plan) # {}
           x == [op |-> r.op, at |-> "bump", type |-> t, counted |-> counted,
                 changed |-> Changes(plan) # {},
                 kept |-> IF r.op = "apply" THEN {r.shown.kept} ELSE {}]
           h == Marked(hist, {t}, 1)
           more == IF plan.marks[t] # hist.marks[t] THEN WrittenCells(plan) ELSE {}
<1>1. /\ DOMAIN ask = Planners
      /\ \A z : [ask[p] EXCEPT !.act = z] = [preview |-> ask[p].preview, act |-> z]
  BY AskShape
<1>2. ActOK(p) /\ hist \in Histories
  BY DEF IInv, PageOK, AskOK, TablesOK
<1>3. /\ r.at = "commit"
      /\ UNCHANGED <<lock, board, call>>
      /\ rows' = Written(plan)
      /\ Cardinality(plan.plan.new) <= Cardinality(Slots(plan))
      /\ room' = [c \in Cells |-> IF c \in Changes(plan) THEN plan.plan.left[c]
                                  ELSE room[c]]
      /\ ask' = [ask EXCEPT ![p].act = x]
      /\ hist' = [h EXCEPT !.astray = @ \cup Elsewhere(plan) \cup more,
                           !.silent = IF counted THEN @ ELSE @ \cup {t}]
  BY DEF EngineCommit, Slots
<1>4. /\ t \in Types /\ lock[t] = Engine(p) /\ r.op \in {"apply", "run"}
      /\ r.op = "apply" => t = r.shown.kept.plan.type
  <2>1. CASE r.op = "apply"
    <3>1. PlanFits(r.shown.kept.plan) /\ lock[TypeAsked(r)] = Engine(p)
      <4>1. r.at = "commit" /\ ActOK(p)
        BY <1>2, <1>3
      <4> QED
        BY <2>1, <4>1 DEF ActOK, NoAct
    <3>2. t = r.shown.kept.plan.type
      BY <2>1 DEF TypeAsked
    <3> QED
      BY <2>1, <3>1, <3>2 DEF PlanFits
  <2>2. CASE r.op # "apply"
    <3>1. r.op = "run" /\ r.type \in Types /\ lock[TypeAsked(r)] = Engine(p)
      <4>1. r.at = "commit" /\ ActOK(p)
        BY <1>2, <1>3
      <4> QED
        BY <2>2, <4>1 DEF ActOK, NoAct
    <3>2. t = r.type
      BY <2>2 DEF TypeAsked
    <3> QED
      BY <2>2, <3>1, <3>2
  <2> QED
    BY <2>1, <2>2
<1>5. plan.type = t /\ Good(plan)
  <2>1. CASE r.op = "apply"
    <3>1. plan = r.shown.kept.plan
      BY <2>1
    <3>2. r.shown.kept.plan \in PlansInHand(p)
      <4>1. r.at # "bump"
        BY <1>3
      <4> HIDE DEF plan, t
      <4> QED
        BY <2>1, <4>1 DEF PlansInHand
    <3>3. Good(r.shown.kept.plan)
      BY <3>2 DEF Ledger
    <3> HIDE DEF plan, t
    <3> QED
      BY <1>4, <2>1, <3>1, <3>3
  <2>2. CASE r.op # "apply"
    <3> DEFINE z == Planned(p, t, Prepared(t, r.policy, Orders))
    <3>1. plan = z
      BY <2>2
    <3>2. z.type = t
      BY DEF Planned
    <3> HIDE DEF plan, t
    <3>3. Good(z)
      BY <1>4, PlannedGood
    <3> HIDE DEF z
    <3> QED
      BY <3>1, <3>2, <3>3
  <2> QED
    BY <2>1, <2>2
<1>6. x.at = "bump"
  OBVIOUS
<1> HIDE DEF x, plan, t
<1>7. ask' = [ask EXCEPT ![p] = [preview |-> ask[p].preview, act |-> x]]
  BY <1>1, <1>3
<1>8. /\ hist'.marks = [s \in Types |-> hist.marks[s] + (IF s = t THEN 1 ELSE 0)]
      /\ hist'.astray = hist.astray \cup Elsewhere(plan) \cup more
  <2>1. h = [marks |-> [s \in Types |-> hist.marks[s] + (IF s \in {t} THEN 1 ELSE 0)],
             astray |-> hist.astray, lopsided |-> hist.lopsided,
             silent |-> hist.silent, asks |-> hist.asks, edits |-> hist.edits,
             saves |-> hist.saves, fetches |-> hist.fetches]
    BY <1>2, MarkedHistory
  <2>2. [s \in Types |-> hist.marks[s] + (IF s \in {t} THEN 1 ELSE 0)]
          = [s \in Types |-> hist.marks[s] + (IF s = t THEN 1 ELSE 0)]
    OBVIOUS
  <2> HIDE DEF h, more, counted
  <2>3. hist'.astray = hist.astray \cup Elsewhere(plan) \cup more
        /\ hist'.marks = h.marks
    BY <1>3, <2>1
  <2>4. h.marks = [s \in Types |-> hist.marks[s] + (IF s \in {t} THEN 1 ELSE 0)]
    BY <2>1
  <2> QED
    BY <2>2, <2>3, <2>4
<1> HIDE DEF h
<1>9. CommitsAs(p, t, plan, x)
  BY <1>3, <1>4, <1>5, <1>6, <1>7, <1>8 DEF more, CommitsAs
<1> QED
  BY <1>4, <1>9

(* What a commit frees is never less than nothing.                         *)
LEMMA FreedNat ==
  ASSUME RowsOK, NEW plan, NEW c
  PROVE  Total(Freed(plan, c)) \in Nat
<1> DEFINE I == Freed(plan, c)
           q == [a \in I |-> rows.piece[a].qty]
<1>1. I \subseteq Pieces /\ IsFiniteSet(I)
  <2>1. I \subseteq Pieces
    BY DEF Freed, Deleted
  <2> HIDE DEF I
  <2> QED
    BY <2>1, CalendarAlike, FS_Subset
<1>2. Total(I) = P!SumOf(q, I)
  BY TotalIs
<1>3. ASSUME NEW a \in I
      PROVE  q[a] \in Nat
  <2>1. a \in Pieces /\ rows.piece[a] # None
    BY DEF Freed, Deleted
  <2>2. rows.piece[a] \in Work
    BY <2>1 DEF RowsOK
  <2> QED
    BY <2>2 DEF Work
<1> HIDE DEF I, q
<1>4. P!SumOf(q, I) \in Nat
  BY <1>1, <1>3, CalendarAlike, FiniteAlike, P!SumNat
<1> QED
  BY <1>2, <1>4 DEF I

LEMMA CommitLedger ==
  ASSUME IInv, IInv', Ledger, NEW p \in Planners, EngineCommit(p)
  PROVE  Ledger'
<1>1. PICK t, plan, x : t \in Types /\ CommitsAs(p, t, plan, x)
  BY CommitIs
<1> DEFINE new == plan.plan.new
           own == OwnCells(t)
<1>2. /\ lock[t] = Engine(p) /\ plan.type = t /\ PlanOK(plan) /\ UpToDate(plan)
      /\ rows' = Written(plan) /\ lock' = lock /\ board' = board /\ call' = call
      /\ Cardinality(new) <= Cardinality(Slots(plan))
      /\ \A c \in Cells : room'[c] = IF c \in Changes(plan) THEN plan.plan.left[c]
                                     ELSE room[c]
      /\ DOMAIN room' = Cells /\ room' = [c \in Cells |-> room'[c]]
  BY <1>1 DEF CommitsAs, Good
<1>3. /\ DOMAIN ask = Planners /\ x.at = "bump"
      /\ ask' = [ask EXCEPT ![p] = [preview |-> ask[p].preview, act |-> x]]
  BY <1>1, AskShape DEF CommitsAs
<1>4. /\ hist'.marks = [s \in Types |-> hist.marks[s] + (IF s = t THEN 1 ELSE 0)]
      /\ hist'.astray = hist.astray \cup Elsewhere(plan)
           \cup (IF plan.marks[t] # hist.marks[t] THEN WrittenCells(plan) ELSE {})
  BY <1>1 DEF CommitsAs
<1>5. RowsOK /\ CapacityKept /\ "piece" \in DOMAIN rows /\ hist.marks \in [Types -> Nat]
  BY DEF Ledger, IInv, TablesOK, Histories
<1>6. /\ new \subseteq P!Given /\ IsFiniteSet(new) /\ P!Apart(new) /\ P!Pile(new)
      /\ PlanFits(plan)
      /\ \A d \in new : d.order \in DOMAIN plan.in.rows
                        /\ <<d.factory, d.day>> \in own
  BY <1>2, FiniteAlike DEF PlanOK, P!Pile
<1>7. PICK f : Settles(f, plan, rows'.piece)
  BY <1>2, <1>5, <1>6, PlanSettles
<1>8. ASSUME NEW a \in Pieces
      PROVE  /\ rows'.piece[a] \in Work \cup {None}
             /\ rows'.piece[a] # rows.piece[a] =>
                  /\ rows.piece[a] # None => OrderType[rows.piece[a].order] = t
                  /\ rows'.piece[a] # None => OrderType[rows'.piece[a].order] = t
  <2>1. a \in Deleted(plan) => OrderType[rows.piece[a].order] = t
    BY <1>2, <1>6 DEF Deleted, PlanFits
  <2>2. CASE \E d \in new : f[d] = a
    <3>1. PICK d \in new : f[d] = a
      BY <2>2
    <3>2. rows'.piece[a] = RowFor(d)
      BY <1>7, <3>1 DEF Settles
    <3>3. a \in Slots(plan)
      BY <1>7, <3>1 DEF Settles, P!Renames
    <3>4. RowFor(d) \in Work /\ RowFor(d).order = d.order
      <4>1. /\ d.order \in Orders /\ d.qty \in Nat \ {0}
            /\ <<d.factory, d.day>> \in Cells
        BY <1>6, CalendarAlike DEF P!Given, Cells
      <4> QED
        BY <4>1 DEF RowFor, Work
    <3>5. OrderType[d.order] = t
      BY <1>2, <1>6 DEF PlanFits
    <3> QED
      BY <2>1, <3>2, <3>3, <3>4, <3>5 DEF Slots
  <2>3. CASE \A d \in new : f[d] # a
    <3>1. rows'.piece[a] = IF a \in Deleted(plan) THEN None ELSE rows.piece[a]
      BY <1>7, <2>3 DEF Settles
    <3> QED
      BY <1>5, <2>1, <3>1 DEF RowsOK
  <2> QED
    BY <2>2, <2>3
<1>9. rows'.piece \in [Pieces -> Work \cup {None}]
  <2>1. rows'.piece = [a \in Pieces |-> rows'.piece[a]]
    BY <1>7 DEF Settles
  <2> QED
    BY <1>8, <2>1
<1>10. ASSUME NEW c \in own
       PROVE  /\ c \in Cells /\ plan.in.left[c] \in Int /\ plan.plan.left[c] \in Int
              /\ plan.plan.left[c] = plan.in.left[c] - P!Amount(P!On(new, c))
              /\ P!On(new, c) # {} => plan.plan.left[c] >= 0
  <2>1. /\ c \in Cells /\ plan.in.left[c] \in Int
        /\ plan.plan.left[c] = plan.in.left[c] - P!Amount(P!On(new, c))
        /\ P!On(new, c) # {} => plan.plan.left[c] >= 0
    BY <1>2 DEF PlanOK, OwnCells
  <2>2. P!Amount(P!On(new, c)) \in Nat
    BY <1>6, CalendarAlike, P!PileOn
  <2> QED
    BY <2>1, <2>2
<1>11. \A c \in Cells : c \in Changes(plan) => c \in own
  BY <1>2 DEF Changes
<1>12. RowsOK'
  <2>1. \A c \in Cells : room'[c] \in Int
    BY <1>2, <1>5, <1>10, <1>11 DEF RowsOK
  <2>2. room' \in [Cells -> Int]
    BY <1>2, <2>1
  <2> QED
    BY <1>9, <2>2 DEF RowsOK
<1>13. \A c \in Cells : c \notin own => room'[c] = room[c]
  BY <1>2, <1>11
<1>14. CapacityKept'
  <2>1. ASSUME NEW c \in Cells \ hist'.astray
        PROVE  Balanced(c)'
    <3> DEFINE n == P!Amount(P!On(new, c))
    <3>1. Balanced(c) /\ c \notin Elsewhere(plan)
          /\ (c \in WrittenCells(plan) => plan.marks[t] = hist.marks[t])
      BY <1>4, <1>5, KeptByCell
    <3>2. room[c] \in Int /\ MaxCapacity[c[1]] \in Int
      BY <1>5, PlanAssumption DEF RowsOK, Cells
    <3>3. /\ n \in Nat /\ (n = 0 <=> P!On(new, c) = {})
          /\ Total(In(c)) \in Int /\ Total(Freed(plan, c)) \in Int
          /\ Total(In(c))' = (Total(In(c)) - Total(Freed(plan, c))) + n
      BY <1>5, <1>6, <1>7, <1>9, SettledTotals
    <3> HIDE DEF n
    <3>4. PICK y, y2, k : y = Total(In(c)) /\ y2 = Total(In(c))'
                          /\ k = Total(Freed(plan, c))
      OBVIOUS
    <3>5. y2 = (y - k) + n /\ y \in Int /\ k \in Int /\ n \in Nat
      BY <3>3, <3>4
    <3>6. room[c] >= 0 /\ room[c] + y = MaxCapacity[c[1]]
      BY <3>1, <3>4 DEF Balanced
    <3>7. room'[c] >= 0 /\ room'[c] = (room[c] + k) - n
      <4>1. CASE c \in own /\ c \in WrittenCells(plan)
        <5>1. c \in own \ hist.astray
          BY <1>4, <4>1
        <5>2. plan.in.read[c] = room[c] /\ plan.in.left[c] = room[c] + k
          <6>1. plan.marks[t] = hist.marks[t]
            BY <3>1, <4>1
          <6> QED
            BY <1>2, <3>4, <5>1, <6>1 DEF UpToDate
        <5>3. plan.plan.left[c] = (room[c] + k) - n
          BY <1>10, <4>1, <5>2 DEF n
        <5>4. room'[c] = plan.plan.left[c]
          BY <1>2, <4>1, <5>2 DEF Changes
        <5>5. n # 0 => plan.plan.left[c] >= 0
          BY <1>10, <3>3, <4>1
        <5>6. n = 0 => room[c] + k >= 0
          <6>1. k \in Nat
            BY <1>5, <3>4, FreedNat
          <6> QED
            BY <3>2, <3>6, <6>1
        <5> QED
          BY <3>2, <3>5, <5>3, <5>4, <5>5, <5>6
      <4>2. CASE c \notin own \/ c \notin WrittenCells(plan)
        <5>1. Freed(plan, c) = {}
          <6>1. \A a \in Deleted(plan) : rows.piece[a].cell # c
            BY <1>2, <3>1, <4>2 DEF Elsewhere, WrittenCells
          <6> QED
            BY <6>1 DEF Freed
        <5>2. k = 0
          <6>1. Total({}) = 0
            BY TotalIs, CalendarAlike, P!SumNone
          <6> QED
            BY <3>4, <5>1, <6>1
        <5>3. P!On(new, c) = {}
          BY <1>2, <1>6, <4>2 DEF WrittenCells, P!On
        <5>4. n = 0
          BY <3>3, <5>3
        <5>5. room'[c] = room[c]
          BY <1>2, <1>13, <4>2 DEF WrittenCells
        <5> QED
          BY <3>2, <3>6, <5>2, <5>4, <5>5
      <4> QED
        BY <4>1, <4>2
    <3>8. room'[c] + y2 = MaxCapacity[c[1]]
      BY <3>2, <3>5, <3>6, <3>7
    <3> QED
      BY <3>4, <3>7, <3>8 DEF Balanced
  <2> QED
    BY <2>1, KeptByCell
<1>15. WritesTo({t})
  <2>1. hist.astray \subseteq hist'.astray
    BY <1>4
  <2>2. \A s \in Types : /\ hist.marks[s] <= hist'.marks[s]
                         /\ s \in {t} => hist.marks[s] < hist'.marks[s]
    BY <1>4, <1>5
  <2>3. \A c \in Cells \ hist'.astray :
          FactoryType[c[1]] \notin {t} => room'[c] = room[c]
    BY <1>13 DEF OwnCells
  <2>4. \A a \in Pieces : rows'.piece[a] # rows.piece[a] =>
          /\ rows.piece[a] # None => OrderType[rows.piece[a].order] \in {t}
          /\ rows'.piece[a] # None => OrderType[rows'.piece[a].order] \in {t}
    BY <1>8
  <2> QED
    BY <2>1, <2>2, <2>3, <2>4 DEF WritesTo
<1>16. \A q \in Planners \ {p} :
         /\ board'[q] = board[q] /\ call'[q] = call[q] /\ ask'[q] = ask[q]
         /\ \A s \in Types : /\ s \in {t} => lock[s] # q
                             /\ lock'[s] = q => lock[s] = q
  BY <1>2, <1>3, Names
<1>17. EditsOK(board[p].edits)' /\ (Saves(p)' => QueueOK(call[p].queue)')
  <2>1. EditsOK(board[p].edits) /\ (Saves(p) => QueueOK(call[p].queue))
    BY DEF Ledger
  <2>2. board'[p] = board[p] /\ call'[p] = call[p]
    BY <1>2
  <2> QED
    BY <2>1, <2>2 DEF EditsOK, QueueOK, Saves
<1>18. FitsStill(p)'
  <2>1. \A s \in Types : (s \in {t} => lock[s] # p) /\ (lock'[s] = p => lock[s] = p)
    BY <1>2, Names
  <2>2. call'[p] = call[p]
    BY <1>2
  <2> QED
    BY <1>15, <2>1, <2>2, FitKept
<1>19. \A other \in PlansInHand(p)' : other \in PlansInHand(p)
  <2>1. board'[p] = board[p] /\ ask'[p] = [preview |-> ask[p].preview, act |-> x]
    BY <1>2, <1>3
  <2>2. ask'[p].preview = ask[p].preview /\ ask'[p].act.at = "bump"
    BY <1>3, <2>1
  <2> QED
    BY <2>1, <2>2, InHand DEF Held
<1> QED
  BY <1>12, <1>14, <1>15, <1>16, <1>17, <1>18, <1>19, LedgerKept

(* Every step keeps the ledger.                                            *)
LEMMA LedgerNext == IInv /\ Ledger /\ [Next]_<<vars, desk>> => Ledger'
<1> SUFFICES ASSUME IInv, Ledger, [Next]_<<vars, desk>>
             PROVE  Ledger'
  OBVIOUS
<1>0. IInv'
  BY NextKeeps
<1>1. CASE UNCHANGED <<vars, desk>>
  <2>1. UNCHANGED <<vars, ask>>
    BY <1>1 DEF desk
  <2> QED
    BY <1>0, <2>1, SameLedger
<1>2. CASE PreviewExpire
  <2>1. UNCHANGED <<vars, ask>>
    BY <1>2 DEF PreviewExpire
  <2> QED
    BY <1>0, <2>1, SameLedger
<1>3. ASSUME NEW p \in Planners, Saving(p), UNCHANGED desk
      PROVE  Ledger'
  <2>1. CASE FetchRows(p) \/ FetchVersions(p)
    BY <1>0, <1>3, <2>1, RefreshLedger
  <2>2. CASE CallStep(p)
    BY <1>0, <1>3, <2>2, FlagLedger, CheckLedger, ReadLedger, WriteLedger,
       BumpLedger DEF CallStep
  <2>3. CASE BoardStep(p)
    BY <1>0, <1>3, <2>3, BoardLedger
  <2> QED
    BY <1>3, <2>1, <2>2, <2>3 DEF Saving
<1>4. ASSUME NEW p \in Planners, DeskStep(p)
      PROVE  Ledger'
  BY <1>0, <1>4, PreviewLedger, ClearedLedger, ActLedger, CommitLedger DEF DeskStep
<1> QED
  BY <1>1, <1>2, <1>3, <1>4 DEF Next
-------------------------------------------------------------------------------
(* What a cell has left and the work in it make up its capacity, and a     *)
(* cell never has less than nothing left, however the saves of the         *)
(* planners and the runs of the engine meet (manual-edit-service.ts:111,   *)
(* core.ts:177): wherever the lock of its type was held for what was       *)
(* written to it, and it was not written by a plan that is older than the  *)
(* last write to its type.                                                 *)
THEOREM CapacityIsKept == Spec => []CapacityKept
<1>1. Init => IInv /\ Ledger
  BY Starts, StartsKept
<1>2. IInv /\ Ledger /\ [Next]_<<vars, desk>> => IInv' /\ Ledger'
  BY NextKeeps, LedgerNext
<1>3. Ledger => CapacityKept
  BY DEF Ledger
<1> QED
  BY <1>1, <1>2, <1>3, PTL DEF Spec
===============================================================================
