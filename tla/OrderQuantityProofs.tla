------------------------- MODULE OrderQuantityProofs --------------------------
(***************************************************************************)
(* An order that counts as planned has work for its quantity, whatever the *)
(* services do to it and in whatever order: the invariant that carries it, *)
(* what each service leaves of it, and what the commit of a run makes of   *)
(* the rows it finds.                                                      *)
(***************************************************************************)
EXTENDS OrderLifeProofs

-------------------------------------------------------------------------------
(* Quantities.  What holds besides QuantityCovered itself: an order that   *)
(* counts as planned has work at all, all work is of a positive quantity,  *)
(* a run that has made its plan holds the lock, and what it has read of an *)
(* order that has not gone astray is as it was: the order, the work that   *)
(* is kept, and the work that the commit will find to delete.              *)
Made == {"SCHEDULED", "IN_PRODUCTION", "COMPLETED"}
Positive == \A i \in Works : work[i] # None => work[i].qty \in Nat \ {0}
Covered(o) ==
  Exists(o) /\ ord[o].status \in Made =>
    WorkSum(Live(o)) = ord[o].qty /\ Live(o) # {}
AllCovered == \A o \in Orders \ hist.astray : Covered(o)
PlansLocked == \A q \in Planned : lock = q
AsRead(i) == [id |-> i, factory |-> work[i].factory, day |-> work[i].day,
              qty |-> work[i].qty]
Freed(in, o) ==
  {i \in WorkOf(o) : /\ in.policy # "GAP_FILLING" /\ ~Immutable(in.rows[o])
                     /\ work[i].status = "SCHEDULED" /\ InRange(work[i].day, in)}
UpToDate(in, o) ==
  /\ ord[o] = in.rows[o]
  /\ in.kept[o] = {AsRead(i) : i \in WorkOf(o) \ Freed(in, o)}
  /\ \A i \in WorkOf(o) : work[i].status # "CANCELLED"
PlansCurrent ==
  \A q \in Planned : \A o \in DOMAIN req[q].in.rows \ hist.astray :
    UpToDate(req[q].in, o)
Booked == Positive /\ AllCovered /\ PlansLocked /\ PlansCurrent

(* Nothing of the order is written: not its row and none of its work.      *)
Untouched(o) ==
  /\ ord'[o] = ord[o]
  /\ \A i \in Works : /\ work[i] # None /\ work[i].order = o => work'[i] = work[i]
                      /\ work'[i] # None /\ work'[i].order = o => work'[i] = work[i]

LEMMA UntouchedWork ==
  ASSUME NEW o, Untouched(o)
  PROVE  /\ WorkOf(o)' = WorkOf(o) /\ Live(o)' = Live(o)
         /\ \A i \in WorkOf(o) : work'[i] = work[i] /\ AsRead(i)' = AsRead(i)
<1>1. \A i \in WorkOf(o) : i \in Works /\ work'[i] = work[i]
  BY DEF Untouched, WorkOf
<1>2. WorkOf(o)' = WorkOf(o)
  BY DEF Untouched, WorkOf
<1>3. Live(o)' = Live(o)
  <2>1. Live(o)' = {i \in WorkOf(o)' : work'[i].status # "CANCELLED"}
    BY DEF Live
  <2> QED
    BY <1>1, <1>2, <2>1 DEF Live
<1> QED
  BY <1>1, <1>2, <1>3 DEF AsRead

(* A sum over work does not change with rows that keep their quantities.   *)
LEMMA WorkSumNext ==
  ASSUME NEW I
  PROVE  WorkSum(I)' = SumOf([i \in I |-> work'[i].qty], I)
<1> DEFINE q == [i \in I |-> work'[i].qty]
           A(g) == g = [s \in SUBSET I |->
                          IF s = {} THEN 0
                          ELSE q[CHOOSE x \in s : TRUE]
                               + g[s \ {CHOOSE x \in s : TRUE}]]
           B(g) == g = [s \in SUBSET I |->
                          IF s = {} THEN 0
                          ELSE work'[CHOOSE x \in s : TRUE].qty
                               + g[s \ {CHOOSE x \in s : TRUE}]]
<1>1. ASSUME NEW g PROVE A(g) <=> B(g)
  <2>1. ASSUME NEW s \in SUBSET I, s # {}
        PROVE  q[CHOOSE x \in s : TRUE] = work'[CHOOSE x \in s : TRUE].qty
    <3>1. (CHOOSE x \in s : TRUE) \in I
      BY <2>1
    <3> QED
      BY <3>1
  <2> HIDE DEF q
  <2> QED
    BY <2>1
<1>2. WorkSum(I)' = (CHOOSE g : B(g))[I]
  BY DEF WorkSum, MapThenSumSet, MapThenFoldSet
<1>3. SumOf(q, I) = (CHOOSE g : A(g))[I]
  BY DEF SumOf, MapThenSumSet, MapThenFoldSet
<1> HIDE DEF A, B
<1>4. (CHOOSE g : A(g)) = (CHOOSE g : B(g))
  BY <1>1
<1> QED
  BY <1>2, <1>3, <1>4 DEF q

LEMMA WorkSumSame ==
  ASSUME TypeOK, NEW I, I \subseteq Works,
         \A i \in I : work[i] # None /\ work'[i].qty = work[i].qty
  PROVE  WorkSum(I)' = WorkSum(I)
<1> DEFINE q == [i \in I |-> work[i].qty]
           r == [i \in I |-> work'[i].qty]
<1>1. IsFiniteSet(I)
  BY WorkSumInt
<1>2. \A i \in I : q[i] \in Int /\ r[i] = q[i]
  BY DEF TypeOK, TablesOK, StoredWork
<1>3. WorkSum(I) = SumOf(q, I)
  BY WorkSumIs
<1>4. WorkSum(I)' = SumOf(r, I)
  BY WorkSumNext
<1> HIDE DEF q, r
<1> QED
  BY <1>1, <1>2, <1>3, <1>4, SumSame

LEMMA UntouchedCovered ==
  ASSUME TypeOK, NEW o, Untouched(o), Covered(o)
  PROVE  Covered(o)'
<1>1. Live(o)' = Live(o) /\ Live(o) \subseteq WorkOf(o)
      /\ \A i \in WorkOf(o) : work'[i] = work[i]
  BY UntouchedWork DEF Live
<1>2. \A i \in WorkOf(o) : i \in Works /\ work[i] # None
  BY DEF WorkOf
<1>3. PICK I : I = Live(o)
  OBVIOUS
<1>4. WorkSum(I)' = WorkSum(I)
  BY <1>1, <1>2, <1>3, WorkSumSame
<1>5. ord'[o] = ord[o]
  BY DEF Untouched
<1> QED
  BY <1>1, <1>3, <1>4, <1>5 DEF Covered, Exists

LEMMA UntouchedUpToDate ==
  ASSUME NEW in, NEW o, Untouched(o), UpToDate(in, o)
  PROVE  UpToDate(in, o)'
<1>1. /\ WorkOf(o)' = WorkOf(o)
      /\ \A i \in WorkOf(o) : work'[i] = work[i] /\ AsRead(i)' = AsRead(i)
  BY UntouchedWork
<1>2. Freed(in, o)' = Freed(in, o)
  BY <1>1 DEF Freed
<1>3. PICK I : I = WorkOf(o) \ Freed(in, o)
  OBVIOUS
<1>4. {AsRead(i) : i \in I}' = {AsRead(i) : i \in I}
  BY <1>1, <1>3
<1>5. in.kept[o] = {AsRead(i) : i \in WorkOf(o) \ Freed(in, o)}'
  BY <1>1, <1>2, <1>3, <1>4 DEF UpToDate
<1>6. ord'[o] = in.rows[o]
  BY DEF Untouched, UpToDate
<1> QED
  BY <1>1, <1>5, <1>6 DEF UpToDate

(* Work that goes on, or is taken back, counts as before.                  *)
Regraded(o) ==
  \A i \in Works :
    \/ work'[i] = work[i]
    \/ /\ work[i] # None /\ work'[i] # None
       /\ work'[i].order = work[i].order /\ work'[i].qty = work[i].qty
       /\ work[i].status # "CANCELLED" /\ work'[i].status # "CANCELLED"

LEMMA RegradedCovered ==
  ASSUME TypeOK, NEW o, Regraded(o), Covered(o),
         Exists(o)' /\ ord'[o].status \in Made =>
           Exists(o) /\ ord[o].status \in Made /\ ord'[o].qty = ord[o].qty
  PROVE  Covered(o)'
<1>1. WorkOf(o)' = WorkOf(o)
  BY DEF Regraded, WorkOf
<1>2. Live(o)' = Live(o)
  BY <1>1 DEF Regraded, WorkOf, Live
<1>3. PICK I : I = Live(o)
  OBVIOUS
<1>4. I \subseteq Works /\ \A i \in I : work[i] # None /\ work'[i].qty = work[i].qty
  BY <1>3 DEF Live, WorkOf, Regraded
<1>5. WorkSum(I)' = WorkSum(I)
  BY <1>4, WorkSumSame
<1> QED
  BY <1>2, <1>3, <1>5 DEF Covered

(* Who writes orders and work, and the lock.                               *)
LEMMA WhoOrders ==
  ASSUME TypeOK, NEW q \in Requests, Act(q)
  PROVE  \/ UNCHANGED <<ord, work>>
         \/ \E o \in Orders, n \in Values("new") : CreateOrder(q, o, n.qty, n.due)
         \/ UpdateOrder(q) \/ AcceptOrder(q)
         \/ CancelFromIssue(q) \/ CancelOrder(q) \/ RunCommit(q)
         \/ Advance(q) \/ PatchRevert(q)
<1>1. PageRead(q) \/ (\E o \in Orders : FlagRead(q, o)) => UNCHANGED <<ord, work>>
  BY DEF PageRead, StatusRead, AcceptRead, RejectRead, CommentRead, FlagRead,
         schedule
<1>2. ProductionBegin(q) \/ Die(q) => UNCHANGED <<ord, work>>
  BY DEF ProductionBegin, RunBegin, AutoBegin, DailyBegin, PatchRead, Die, schedule
<1>3. OrderBegin(q) =>
        \/ UNCHANGED <<ord, work>>
        \/ \E o \in Orders, n \in Values("new") : CreateOrder(q, o, n.qty, n.due)
  BY DEF OrderBegin, SalesRead, AdminRead, DeleteRead, schedule
<1>4. IssueStep(q) => UNCHANGED <<ord, work>> \/ AcceptOrder(q) \/ CancelFromIssue(q)
  BY DEF IssueStep, CommentCreate, CommentDiscuss, AcceptStale, AcceptMark,
         AcceptOthersRead, AcceptOthersWrite, AcceptResolve, RejectWrite,
         StatusWrite, FlagLook, FlagCreate, schedule
<1>5. ProductionStep(q) => \/ UNCHANGED <<ord, work>>
                           \/ RunCommit(q) \/ Advance(q) \/ PatchRevert(q)
  BY DEF ProductionStep, RunPlan, AutoDate, DailyDate, PatchPlain, schedule
<1> QED
  BY <1>1, <1>2, <1>3, <1>4, <1>5 DEF Act, Step, OrderStep

LEMMA WhoLocks ==
  ASSUME TypeOK, NEW q \in Requests, Act(q)
  PROVE  UNCHANGED lock \/ RunPlan(q) \/ RunCommit(q) \/ Die(q)
<1>1. PageRead(q) \/ (\E o \in Orders : FlagRead(q, o)) => UNCHANGED lock
  BY DEF PageRead, StatusRead, AcceptRead, RejectRead, CommentRead, FlagRead
<1>2. OrderBegin(q) \/ ProductionBegin(q) => UNCHANGED lock
  BY DEF OrderBegin, CreateOrder, SalesRead, AdminRead, DeleteRead,
         ProductionBegin, RunBegin, AutoBegin, DailyBegin, PatchRead
<1>3. OrderStep(q) => UNCHANGED lock
  BY DEF OrderStep, UpdateOrder, CancelOrder
<1>4. IssueStep(q) => UNCHANGED lock
  BY DEF IssueStep, CommentCreate, CommentDiscuss, AcceptStale, AcceptOrder,
         AcceptMark, AcceptOthersRead, AcceptOthersWrite, AcceptResolve,
         RejectWrite, CancelFromIssue, StatusWrite, FlagLook, FlagCreate
<1>5. ProductionStep(q) => UNCHANGED lock \/ RunPlan(q) \/ RunCommit(q)
  BY DEF ProductionStep, AutoDate, DailyDate, PatchPlain, Advance, PatchRevert
<1> QED
  BY <1>1, <1>2, <1>3, <1>4, <1>5 DEF Act, Step

LEMMA CancelTxWrites ==
  ASSUME TypeOK, NEW a \in Orders, Exists(a), CancelTx({a})
  PROVE  /\ ord'[a].status = "CANCELLED"
         /\ \A o \in Orders \ {a} : Untouched(o)
<1>1. ord' = WithStatus({a}, "CANCELLED")
  BY DEF CancelTx
<1>2. ord'[a].status = "CANCELLED"
  <2>1. ord[a] \in OrderRow
    BY DEF TypeOK, TablesOK, Exists
  <2>2. ord'[a] = [[ord[a] EXCEPT !.status = "CANCELLED"] EXCEPT !.rev = @ + 1]
    BY <1>1 DEF WithStatus, Rewritten
  <2> QED
    BY <2>1, <2>2 DEF OrderRow
<1>3. \A o \in Orders \ {a} : ord'[o] = ord[o]
  BY <1>1 DEF WithStatus, Rewritten
<1>4. ASSUME NEW i \in Works, work[i] # None
      PROVE  [work[i] EXCEPT !.status = "CANCELLED"].order = work[i].order
  BY <1>4 DEF TypeOK, TablesOK, StoredWork
<1>5. ASSUME NEW i \in Works
      PROVE  \/ work'[i] = work[i]
             \/ /\ work[i] # None /\ work[i].order = a
                /\ work'[i] = [work[i] EXCEPT !.status = "CANCELLED"]
  BY DEF CancelTx
<1> QED
  BY <1>2, <1>3, <1>4, <1>5 DEF Untouched

LEMMA AstrayGrows ==
  ASSUME TypeOK, NEW q \in Requests, Act(q)
  PROVE  hist.astray \subseteq hist'.astray
<1> DEFINE Goal == hist.astray \subseteq hist'.astray
<1>0. hist \in HistoryRow
  BY DEF TypeOK, HistoryOK
<1>1. hist' \in {hist, Count(hist)} => Goal
  BY <1>0 DEF Count, HistoryRow
<1>2. (\E S : hist' \in {Crossed(hist, S), Astray(hist, S)}) => Goal
  BY <1>0 DEF Crossed, Astray, HistoryRow
<1>3. (\E S : hist' = [hist EXCEPT !.astray = @ \cup S]) => Goal
  BY <1>0 DEF HistoryRow
<1>4. CASE PageRead(q)
  <2>1. (\E c : hist' = [Count(hist) EXCEPT !.overlapped = @ \cup {c}]) => Goal
    BY <1>0 DEF Count, HistoryRow
  <2>2. ASSUME NEW c \in Proposals, AcceptRead(q, c) PROVE Goal
    BY <1>1, <2>1, <2>2 DEF AcceptRead
  <2>3. ASSUME NEW i \in Issues, NEW op, StatusRead(q, i, op) PROVE Goal
    BY <1>1, <2>3 DEF StatusRead
  <2>4. ASSUME NEW c \in Proposals, RejectRead(q, c) PROVE Goal
    BY <1>1, <2>4 DEF RejectRead
  <2>5. ASSUME NEW i \in Issues, NEW v, NEW n,
               CommentRead(q, i, v.kind, v.value, n)
        PROVE  Goal
    BY <1>1, <2>5 DEF CommentRead
  <2> QED
    BY <1>4, <2>2, <2>3, <2>4, <2>5 DEF PageRead
<1>5. CASE (\E o \in Orders : FlagRead(q, o)) \/ OrderBegin(q)
  BY <1>1, <1>5 DEF FlagRead, OrderBegin, CreateOrder, SalesRead, AdminRead,
                    DeleteRead
<1>6. CASE ProductionBegin(q)
  BY <1>1, <1>6 DEF ProductionBegin, RunBegin, AutoBegin, DailyBegin, PatchRead
<1>7. CASE IssueStep(q)
  <2>1. CASE AcceptOrder(q)
    <3>1. PICK h : h = [hist EXCEPT !.applied[req[q].proposal] = @ + 1]
      OBVIOUS
    <3>2. hist' = Astray(h, {req[q].order})
      BY <2>1, <3>1 DEF AcceptOrder
    <3> QED
      BY <1>0, <3>1, <3>2 DEF Astray, HistoryRow
  <2>2. CASE CommentCreate(q) \/ AcceptStale(q) \/ AcceptMark(q)
             \/ AcceptOthersRead(q) \/ AcceptOthersWrite(q) \/ AcceptResolve(q)
             \/ RejectWrite(q) \/ FlagCreate(q)
    BY <1>1, <2>2 DEF CommentCreate, AcceptStale, AcceptMark, AcceptOthersRead,
                      AcceptOthersWrite, AcceptResolve, RejectWrite, FlagCreate
  <2>3. CASE CommentDiscuss(q) \/ CancelFromIssue(q) \/ StatusWrite(q)
             \/ FlagLook(q)
    BY <1>1, <1>2, <2>3 DEF CommentDiscuss, CancelFromIssue, StatusWrite, FlagLook
  <2> QED
    BY <1>7, <2>1, <2>2, <2>3 DEF IssueStep
<1>8. CASE OrderStep(q)
  BY <1>1, <1>3, <1>8 DEF OrderStep, UpdateOrder, CancelOrder, Locked
<1>9. CASE ProductionStep(q)
  <2>1. CASE RunPlan(q) \/ RunCommit(q) \/ AutoDate(q) \/ DailyDate(q)
    BY <1>1, <1>2, <1>3, <2>1 DEF RunPlan, RunCommit, AutoDate, DailyDate
  <2>2. CASE PatchPlain(q)
    BY <1>0, <2>2 DEF PatchPlain, HistoryRow
  <2>3. CASE Advance(q)
    <3>1. (\E S, b : hist' = [hist EXCEPT !.astray = @ \cup S, !.skewed = @ \/ b])
            => Goal
      BY <1>0 DEF HistoryRow
    <3> QED
      BY <1>1, <2>3, <3>1 DEF Advance
  <2>4. CASE PatchRevert(q)
    <3>1. PICK S, T : hist' = Astray([hist EXCEPT !.astray = @ \cup S], T)
      BY <2>4 DEF PatchRevert
    <3>2. PICK h : h = [hist EXCEPT !.astray = @ \cup S]
      OBVIOUS
    <3>3. hist' = Astray(h, T)
      BY <3>1, <3>2
    <3> QED
      BY <1>0, <3>2, <3>3 DEF Astray, HistoryRow
  <2> QED
    BY <1>9, <2>1, <2>2, <2>3, <2>4 DEF ProductionStep
<1>10. CASE Die(q)
  BY <1>0, <1>10 DEF Die, HistoryRow
<1> QED
  BY <1>4, <1>5, <1>6, <1>7, <1>8, <1>9, <1>10 DEF Act, Step

(* A run that has made its plan holds the lock, so that there is one.      *)
LEMMA PlannedLocks ==
  ASSUME PlansLocked, NEW p \in Planned
  PROVE  lock = p /\ lock # None /\ lock # Dead
<1>1. lock = p /\ p \in Requests
  BY DEF PlansLocked, Planned
<1> QED
  BY <1>1, StrategyAssumption DEF Requests, Dead

LEMMA PlansLockedStep ==
  ASSUME Reached, PlansLocked, NEW q \in Requests, Act(q) PROVE PlansLocked'
<1> SUFFICES ASSUME NEW p \in Planned' PROVE lock' = p
  BY DEF PlansLocked
<1>1. q \in Planned' => RunPlan(q) \/ req'[q] = req[q]
  BY WhoPlans DEF Reached
<1>2. RunCommit(q) \/ Die(q) => req'[q].op = "idle"
  BY EndGoes DEF Reached, RunCommit, Die
<1>3. q \in Planned' => ~RunCommit(q) /\ ~Die(q)
  BY <1>2 DEF Planned, Doing
<1>4. CASE p = q
  <2>1. CASE RunPlan(q)
    <3>1. ~End(q)
      BY <1>4, EndGoes DEF Planned, Doing, Reached
    <3> QED
      BY <1>4, <2>1, <3>1 DEF RunPlan
  <2>2. CASE ~RunPlan(q)
    <3>1. q \in Planned
      BY <1>1, <1>4, <2>2 DEF Planned, Doing
    <3>2. UNCHANGED lock
      BY <1>3, <1>4, <2>2, WhoLocks DEF Reached
    <3> QED
      BY <1>4, <3>1, <3>2 DEF PlansLocked
  <2> QED
    BY <2>1, <2>2
<1>5. CASE p # q
  <2>1. p \in Planned
    BY <1>5, WhoWrites DEF Reached
  <2>2. lock = p /\ lock # None
    BY <2>1, PlannedLocks
  <2>3. ~RunCommit(q)
    <3>1. RunCommit(q) => q \in Planned
      BY DEF RunCommit, Planned, Doing
    <3> QED
      BY <1>5, <2>2, <3>1 DEF PlansLocked
  <2>4. RunPlan(q) => UNCHANGED lock
    BY <2>2 DEF RunPlan
  <2>5. Die(q) => UNCHANGED lock
    BY <1>5, <2>2 DEF Die
  <2> QED
    BY <2>2, <2>3, <2>4, <2>5, WhoLocks DEF Reached
<1> QED
  BY <1>4, <1>5

(* What each of those who write leaves alone, and makes of the rest.       *)
LEMMA NothingWritten ==
  ASSUME UNCHANGED <<ord, work>> PROVE \A o \in Orders : Untouched(o)
  BY DEF Untouched

LEMMA CreateOrderLeaves ==
  ASSUME TypeOK, NEW q \in Requests, NEW a \in Orders, NEW n,
         CreateOrder(q, a, n.qty, n.due)
  PROVE  /\ ~Exists(a) /\ ord'[a].status = "PENDING"
         /\ \A o \in Orders \ {a} : Untouched(o)
<1>1. ord \in [Orders -> OrderRow \cup {None}]
  BY DEF TypeOK, TablesOK
<1> QED
  BY <1>1 DEF CreateOrder, Untouched, schedule

LEMMA UpdateOrderLeaves ==
  ASSUME TypeOK, NEW q \in Requests, UpdateOrder(q)
  PROVE  /\ lock # None => UNCHANGED <<ord, work>>
         /\ \E a \in Orders :
              /\ \A o \in Orders \ {a} : Untouched(o)
              /\ a \notin hist'.astray =>
                   \/ UNCHANGED <<ord, work>>
                   \/ Exists(a) /\ Live(a) = {} /\ ord'[a].status = ord[a].status
<1> DEFINE a == req[q].order
           patch == req[q].patch
           byHand == Live(a) # {} \/ "status" \in DOMAIN patch
<1>0. UNCHANGED work
  BY DEF UpdateOrder, schedule
<1>1. Editing(req[q]) /\ Exists(a)
  BY RequestOK, ShapeByOp DEF UpdateOrder, Linked
<1>2. a \in Orders /\ ord[a] \in OrderRow
  BY <1>1 DEF Editing, TypeOK, TablesOK, Exists
<1>3. CASE lock # None
  <2>1. UNCHANGED <<ord, work>>
    BY <1>0, <1>3 DEF UpdateOrder, Locked
  <2> QED
    BY <1>2, <2>1, NothingWritten
<1>4. CASE lock = None
  <2>1. /\ ord' = Rewritten({a}, [p \in {a} |-> Patched(ord[p], patch)])
        /\ byHand => hist' = [hist EXCEPT !.astray = @ \cup {a}]
    BY <1>4 DEF UpdateOrder, Locked
  <2>2. \A o \in Orders \ {a} : Untouched(o)
    BY <1>0, <2>1 DEF Rewritten, Untouched
  <2>3. hist \in HistoryRow
    BY DEF TypeOK, HistoryOK
  <2>4. byHand => a \in hist'.astray
    BY <2>1, <2>3 DEF HistoryRow
  <2>5. ASSUME ~byHand PROVE ord'[a].status = ord[a].status
    <3>1. ord'[a] = [Patched(ord[a], patch) EXCEPT !.rev = @ + 1]
      BY <1>2, <2>1 DEF Rewritten
    <3>2. PICK row : row = Patched(ord[a], patch)
      OBVIOUS
    <3>3. row \in OrderRow
      BY <1>1, <1>2, <3>2, PatchedTyped DEF Editing
    <3>4. row.status = ord[a].status
      BY <1>2, <2>5, <3>2 DEF Patched, OrderRow
    <3>5. ord'[a].status = row.status
      BY <3>1, <3>2, <3>3 DEF OrderRow
    <3> QED
      BY <3>4, <3>5
  <2> QED
    BY <1>1, <1>2, <1>4, <2>2, <2>4, <2>5
<1> QED
  BY <1>3, <1>4

LEMMA AstrayUnderPlan ==
  ASSUME TypeOK, NEW h, h \in HistoryRow, NEW S, hist' = Astray(h, S), Planned # {}
  PROVE  S \subseteq hist'.astray
  BY DEF Astray, HistoryRow

LEMMA AcceptOrderLeaves ==
  ASSUME TypeOK, NEW q \in Requests, AcceptOrder(q)
  PROVE  \E a \in Orders :
           /\ \A o \in Orders \ {a} : Untouched(o)
           /\ Exists(a) /\ ord'[a].status \in {"PENDING", "CANCELLED"}
           /\ Planned # {} => a \in hist'.astray
<1> DEFINE a == req[q].order
           c == req[q].proposal
<1>1. req[q].op = "accept" /\ req[q] \in AcceptReq
  BY RequestOK, ShapeByOp DEF AcceptOrder, Doing
<1>2. c \in Proposals /\ a \in Orders
  BY <1>1 DEF AcceptReq
<1>3. proposal[c] # None /\ proposal[c] \in ProposalRow
      /\ a = issue[proposal[c].issue].order
  BY <1>1, <1>2, RequestOK DEF Linked, TypeOK, TablesOK
<1>4. Exists(a) /\ ord[a] \in OrderRow
  <2>1. proposal[c].issue \in Issues /\ issue[proposal[c].issue] # None
    BY <1>2, <1>3 DEF TypeOK, KeysOK, ProposalRow
  <2> QED
    BY <1>2, <1>3, <2>1 DEF TypeOK, KeysOK, TablesOK, Exists
<1>5. ord' = Rewritten({a}, [p \in {a} |-> Applied(ord[p], proposal[c])])
  BY DEF AcceptOrder
<1>6. \A o \in Orders \ {a} : Untouched(o)
  BY <1>5 DEF AcceptOrder, Rewritten, Untouched, schedule
<1>7. ord'[a].status \in {"PENDING", "CANCELLED"}
  <2>1. PICK row : row = Applied(ord[a], proposal[c])
    OBVIOUS
  <2>2. ord'[a] = [row EXCEPT !.rev = @ + 1]
    BY <1>2, <1>5, <2>1 DEF Rewritten
  <2>3. row.status \in {"PENDING", "CANCELLED"} /\ "status" \in DOMAIN row
    BY <1>4, <2>1 DEF Applied, OrderRow
  <2> QED
    BY <2>2, <2>3
<1>8. Planned # {} => a \in hist'.astray
  <2>1. PICK h : h = [hist EXCEPT !.applied[c] = @ + 1]
    OBVIOUS
  <2>2. h \in HistoryRow
    BY <1>2, <2>1 DEF TypeOK, HistoryOK, HistoryRow
  <2>3. hist' = Astray(h, {a})
    BY <2>1 DEF AcceptOrder
  <2> QED
    BY <2>2, <2>3, AstrayUnderPlan
<1> QED
  BY <1>2, <1>4, <1>6, <1>7, <1>8

LEMMA CancelLeaves ==
  ASSUME TypeOK, NEW q \in Requests, CancelFromIssue(q) \/ CancelOrder(q)
  PROVE  \/ UNCHANGED <<ord, work>>
         \/ \E a \in Orders :
              /\ \A o \in Orders \ {a} : Untouched(o)
              /\ Exists(a) /\ ord'[a].status = "CANCELLED"
              /\ lock = None \/ Planned = {} \/ a \in hist'.astray
<1>1. CASE CancelFromIssue(q)
  <2> DEFINE i == req[q].issue
             a == issue[i].order
  <2>1. req[q] \in StatusReq /\ issue[i] # None
    BY <1>1, RequestOK, ShapeByOp DEF CancelFromIssue, Doing, Linked
  <2>2. i \in Issues
    BY <2>1 DEF StatusReq
  <2>3. a \in Orders /\ Exists(a)
    BY <2>1, <2>2 DEF TypeOK, TablesOK, KeysOK, IssueRow
  <2>4. CancelTx({a}) /\ hist' = Astray(hist, {a})
    BY <1>1 DEF CancelFromIssue
  <2> HIDE DEF a
  <2>5. ord'[a].status = "CANCELLED" /\ \A o \in Orders \ {a} : Untouched(o)
    BY <2>3, <2>4, CancelTxWrites
  <2>6. Planned = {} \/ a \in hist'.astray
    BY <2>4, AstrayUnderPlan DEF TypeOK, HistoryOK
  <2> QED
    BY <2>3, <2>5, <2>6
<1>2. CASE CancelOrder(q)
  <2> DEFINE a == req[q].order
  <2>1. a \in Orders /\ Exists(a)
    BY <1>2, RequestOK, ShapeByOp DEF CancelOrder, Linked, Editing, DeleteReq
  <2>2. UNCHANGED <<ord, work>> \/ (lock = None /\ CancelTx({a}))
    BY <1>2 DEF CancelOrder, schedule
  <2> HIDE DEF a
  <2> QED
    BY <2>1, <2>2, CancelTxWrites
<1> QED
  BY <1>1, <1>2

(* A step that changes the status of work alone, and that of orders among  *)
(* those that count as planned.                                            *)
Promotes(o) ==
  Exists(o)' /\ ord'[o].status \in Made =>
    Exists(o) /\ ord[o].status \in Made /\ ord'[o].qty = ord[o].qty

LEMMA StatusOnly ==
  ASSUME TypeOK, NEW S \in SUBSET Orders, \A o \in S : Exists(o), NEW status,
         ord' = Rewritten(S, [o \in S |-> [ord[o] EXCEPT !.status = status[o]]])
  PROVE  /\ \A o \in S : ord'[o].qty = ord[o].qty
         /\ \A o \in Orders \ S : ord'[o] = ord[o]
<1>1. \A o \in S : ord[o] \in OrderRow
  BY DEF TypeOK, TablesOK, Exists
<1>2. ASSUME NEW o \in S PROVE ord'[o].qty = ord[o].qty
  <2>1. ord'[o] = [[ord[o] EXCEPT !.status = status[o]] EXCEPT !.rev = @ + 1]
    BY DEF Rewritten
  <2> QED
    BY <1>1, <2>1 DEF OrderRow
<1>3. \A o \in Orders \ S : ord'[o] = ord[o]
  BY DEF Rewritten
<1> QED
  BY <1>2, <1>3

LEMMA RegradedByStatus ==
  ASSUME TypeOK, Positive, NEW o,
         \A i \in Works :
           \/ work'[i] = work[i]
           \/ /\ work[i] # None /\ work[i].status # "CANCELLED"
              /\ \E status \in WorkStatus \ {"CANCELLED"} :
                   work'[i] = [work[i] EXCEPT !.status = status]
  PROVE  Regraded(o)
<1> SUFFICES ASSUME NEW i \in Works, work'[i] # work[i]
             PROVE  /\ work[i] # None /\ work'[i] # None
                    /\ work'[i].order = work[i].order /\ work'[i].qty = work[i].qty
                    /\ work[i].status # "CANCELLED" /\ work'[i].status # "CANCELLED"
  BY DEF Regraded
<1>1. work[i] # None /\ work[i].status # "CANCELLED" /\ work[i] \in StoredWork
  BY DEF TypeOK, TablesOK
<1>2. PICK status \in WorkStatus \ {"CANCELLED"} :
        work'[i] = [work[i] EXCEPT !.status = status]
  OBVIOUS
<1>3. /\ work'[i].order = work[i].order /\ work'[i].qty = work[i].qty
      /\ work'[i].status = status
  BY <1>1, <1>2 DEF StoredWork
<1>4. work'[i] # None
  <2>1. work[i] \in WorkRow
    BY <1>1 DEF Positive, StoredWork, WorkRow
  <2>2. work'[i] \in WorkRow
    BY <1>2, <2>1 DEF WorkRow
  <2> QED
    BY <2>2, StoreAssumption
<1> QED
  BY <1>1, <1>3, <1>4

LEMMA AdvanceLeaves ==
  ASSUME TypeOK, Positive, NEW q \in Requests, Advance(q)
  PROVE  /\ lock # None => UNCHANGED <<ord, work>>
         /\ \A o \in Orders \ hist'.astray : Regraded(o) /\ Promotes(o)
<1> DEFINE date == req[q].date
           moved == Completing(date) \cup Starting(date)
           done == {o \in Touched(moved) : /\ AllDone(Advanced(date), o)
                                           /\ ord[o].status # "COMPLETED"}
           begun == {o \in Touched(moved) \ done :
                       /\ AnyStarted(Advanced(date), o)
                       /\ ord[o].status = "SCHEDULED"}
           status == [o \in done \cup begun |->
                        IF o \in done THEN "COMPLETED" ELSE "IN_PRODUCTION"]
           odd == {o \in done : ord[o].status \notin {"SCHEDULED", "IN_PRODUCTION"}}
<1>1. CASE UNCHANGED <<ord, work>>
  <2>1. \A o \in Orders : Regraded(o) /\ Promotes(o)
    BY <1>1 DEF Regraded, Promotes, Exists
  <2> QED
    BY <1>1, <2>1
<1>2. CASE ~UNCHANGED <<ord, work>>
  <2>1. /\ moved = {} \/ lock = None
        /\ work' = Advanced(date)
        /\ ord' = Rewritten(done \cup begun, [o \in done \cup begun |->
                     [ord[o] EXCEPT !.status =
                        IF o \in done THEN "COMPLETED" ELSE "IN_PRODUCTION"]])
        /\ odd \subseteq hist'.astray
    <3>1. hist \in HistoryRow
      BY DEF TypeOK, HistoryOK
    <3>2. PICK b : hist' = [hist EXCEPT !.astray = @ \cup odd, !.skewed = b]
      BY <1>2 DEF Advance
    <3>3. odd \subseteq hist'.astray
      BY <3>1, <3>2 DEF HistoryRow
    <3> QED
      BY <1>2, <3>3 DEF Advance
  <2>2. moved \in SUBSET Works /\ \A i \in moved : work[i] # None
    BY DEF Completing, Starting
  <2>3. ASSUME NEW i \in Works
        PROVE  \/ work'[i] = work[i]
               \/ /\ work[i] # None /\ work[i].status # "CANCELLED"
                  /\ i \in moved
                  /\ \E s \in WorkStatus \ {"CANCELLED"} :
                       work'[i] = [work[i] EXCEPT !.status = s]
    <3>1. work'[i] = Advanced(date)[i]
      BY <2>1
    <3>2. CASE i \in Completing(date)
      <4>1. work[i].day + ProductionDays \in Int
        BY <3>2, WorkRows, StrategyAssumption DEF Completing
      <4>2. date \in Int
        BY RequestOK, ShapeByOp DEF Advance, DailyReq, SwitchReq
      <4>3. i \notin Starting(date)
        BY <3>2, <4>1, <4>2 DEF Completing, Starting, Completion
      <4>4. work'[i] = [work[i] EXCEPT !.status = "COMPLETED"]
        BY <3>1, <3>2, <4>3 DEF Advanced
      <4> QED
        BY <3>2, <4>4 DEF Completing, WorkStatus
    <3>3. CASE i \in Starting(date) \ Completing(date)
      <4>1. work'[i] = [work[i] EXCEPT !.status = "IN_PRODUCTION"]
        BY <3>1, <3>3 DEF Advanced
      <4> QED
        BY <3>3, <4>1 DEF Starting, WorkStatus
    <3>4. CASE i \notin moved
      BY <3>1, <3>4 DEF Advanced
    <3> QED
      BY <3>2, <3>3, <3>4
  <2> HIDE DEF moved
  <2>4. done \cup begun \in SUBSET Orders /\ \A o \in done \cup begun : Exists(o)
    BY <2>2, TouchedOrders
  <2>5. moved # {}
    <3>1. ASSUME moved = {} PROVE FALSE
      <4>1. work' = work
        BY <2>1, <2>3, <3>1 DEF TypeOK, TablesOK, Advanced
      <4>2. done \cup begun = {}
        BY <3>1 DEF Touched
      <4>3. ord' = ord
        BY <2>1, <4>2 DEF Rewritten, TypeOK, TablesOK
      <4> QED
        BY <1>2, <4>1, <4>3
    <3> QED
      BY <3>1
  <2>6. ASSUME NEW o \in Orders \ hist'.astray PROVE Promotes(o)
    <3>1. ord' = Rewritten(done \cup begun,
                   [p \in done \cup begun |-> [ord[p] EXCEPT !.status = status[p]]])
      BY <2>1 DEF Rewritten
    <3>2. o \in done \cup begun => ord[o].status \in Made
      BY <2>1 DEF Made
    <3> HIDE DEF done, begun, status
    <3>3. /\ o \in done \cup begun => ord'[o].qty = ord[o].qty
          /\ o \notin done \cup begun => ord'[o] = ord[o]
      BY <2>4, <3>1, StatusOnly
    <3> QED
      BY <2>4, <3>2, <3>3 DEF Promotes, Exists
  <2>7. ASSUME NEW o \in Orders PROVE Regraded(o)
    BY <2>3, RegradedByStatus
  <2> QED
    BY <2>1, <2>5, <2>6, <2>7
<1> QED
  BY <1>1, <1>2

LEMMA RevertLeaves ==
  ASSUME TypeOK, Positive, NEW q \in Requests, PatchRevert(q)
  PROVE  /\ Planned # {} => \A o \in Orders \ hist'.astray : Untouched(o)
         /\ \A o \in Orders \ hist'.astray : Regraded(o) /\ Promotes(o)
<1> DEFINE back == Reverted(req[q].date)
           touched == Touched({i \in Works : back[i] # work[i]})
           target(o) == IF AllDone(back, o) THEN "COMPLETED"
                        ELSE IF AnyStarted(back, o) THEN "IN_PRODUCTION"
                        ELSE "SCHEDULED"
           changed == {o \in touched : ord[o].status # target(o)}
           odd == {o \in touched : ord[o].status \notin
                     {"SCHEDULED", "IN_PRODUCTION", "COMPLETED"}}
           status == [o \in changed |-> target(o)]
<1>1. /\ work' = back
      /\ ord' = Rewritten(changed, [o \in changed |->
                             [ord[o] EXCEPT !.status = target(o)]])
      /\ hist' = Astray([hist EXCEPT !.astray = @ \cup odd], touched)
  BY DEF PatchRevert
<1>2. ASSUME NEW i \in Works
      PROVE  \/ back[i] = work[i]
             \/ /\ work[i] # None /\ work[i].status # "CANCELLED"
                /\ \E s \in WorkStatus \ {"CANCELLED"} :
                     back[i] = [work[i] EXCEPT !.status = s]
  BY DEF Reverted, WorkStatus
<1> HIDE DEF back
<1>3. touched \in SUBSET Orders /\ \A o \in touched : Exists(o)
  <2>1. \A i \in {j \in Works : back[j] # work[j]} : work[i] # None
    BY <1>2
  <2> QED
    BY <2>1, TouchedOrders
<1>4. odd \subseteq hist'.astray /\ (Planned # {} => touched \subseteq hist'.astray)
  <2>1. PICK h : h = [hist EXCEPT !.astray = @ \cup odd]
    OBVIOUS
  <2>2. h \in HistoryRow /\ odd \subseteq h.astray
    BY <1>3, <2>1 DEF TypeOK, HistoryOK, HistoryRow
  <2>3. hist' = Astray(h, touched)
    BY <1>1, <2>1
  <2> HIDE DEF touched, odd
  <2> QED
    BY <2>2, <2>3 DEF Astray, HistoryRow
<1>5. \A i \in Works : work[i] # None /\ work[i].order \notin touched => work'[i] = work[i]
  BY <1>1 DEF Touched
<1>6. ord' = Rewritten(changed,
               [p \in changed |-> [ord[p] EXCEPT !.status = status[p]]])
  BY <1>1 DEF Rewritten
<1>7. \A o \in touched \ hist'.astray : ord[o].status \in Made
  BY <1>4 DEF Made
<1> HIDE DEF touched, target
<1>8. changed \in SUBSET Orders /\ (\A o \in changed : Exists(o)) /\ changed \subseteq touched
  BY <1>3
<1> HIDE DEF changed, status
<1>9. /\ \A o \in changed : ord'[o].qty = ord[o].qty
      /\ \A o \in Orders \ changed : ord'[o] = ord[o]
  BY <1>6, <1>8, StatusOnly
<1>10. ASSUME NEW o \in Orders PROVE Regraded(o)
  BY <1>1, <1>2, RegradedByStatus
<1>11. ASSUME NEW o \in Orders \ hist'.astray PROVE Promotes(o)
  BY <1>3, <1>7, <1>8, <1>9 DEF Promotes, Exists
<1>12. ASSUME Planned # {}, NEW o \in Orders \ hist'.astray PROVE Untouched(o)
  <2>1. o \notin touched
    BY <1>4, <1>12
  <2>2. ord'[o] = ord[o]
    BY <1>8, <1>9, <2>1
  <2>3. ASSUME NEW i \in Works, work'[i] # work[i]
        PROVE  /\ work[i] # None /\ work[i].order # o
               /\ work'[i].order # o
    <3>1. work[i] # None /\ work[i].order # o
      BY <1>1, <1>2, <1>5, <2>1, <2>3
    <3>2. work'[i].order = work[i].order
      BY <1>10, <2>3 DEF Regraded
    <3> QED
      BY <3>1, <3>2
  <2> QED
    BY <2>2, <2>3 DEF Untouched
<1> QED
  BY <1>10, <1>11, <1>12

(* Nothing of an order in a plan is written while the plan is under way,   *)
(* or it is known that it was.                                             *)
LEMMA PlanUndisturbed ==
  ASSUME Reached, Positive, PlansLocked, NEW q \in Requests, Act(q),
         NEW p \in Planned, p \in Planned', NEW o \in Orders \ hist'.astray,
         Exists(o)
  PROVE  Untouched(o)
<1>1. lock = p /\ lock # None /\ Planned # {}
  BY PlannedLocks
<1>2. CASE UNCHANGED <<ord, work>>
  BY <1>2, NothingWritten
<1>3. CASE \E a \in Orders, n \in Values("new") : CreateOrder(q, a, n.qty, n.due)
  BY <1>3, CreateOrderLeaves DEF Reached
<1>4. CASE UpdateOrder(q)
  BY <1>1, <1>4, UpdateOrderLeaves, NothingWritten DEF Reached
<1>5. CASE AcceptOrder(q)
  BY <1>1, <1>5, AcceptOrderLeaves DEF Reached
<1>6. CASE CancelFromIssue(q) \/ CancelOrder(q)
  BY <1>1, <1>6, CancelLeaves, NothingWritten DEF Reached
<1>7. ~RunCommit(q)
  <2>1. RunCommit(q) => q \in Planned /\ req'[q].op = "idle"
    BY EndGoes DEF Reached, RunCommit, Planned, Doing
  <2>2. RunCommit(q) => q = p
    BY <1>1, <2>1 DEF PlansLocked
  <2>3. req'[p].op # "idle"
    BY DEF Planned, Doing
  <2> QED
    BY <2>1, <2>2, <2>3
<1>8. CASE Advance(q)
  BY <1>1, <1>8, AdvanceLeaves, NothingWritten DEF Reached
<1>9. CASE PatchRevert(q)
  BY <1>1, <1>9, RevertLeaves DEF Reached
<1> QED
  BY <1>2, <1>3, <1>4, <1>5, <1>6, <1>7, <1>8, <1>9, WhoOrders DEF Reached

(* A commit writes a plan that was made, for orders that exist.            *)
LEMMA Committed ==
  ASSUME Reached, Planful, NEW q \in Requests, RunCommit(q)
  PROVE  LET in == req[q].in
             plan == req[q].plan
         IN /\ q \in Planned /\ InputFits(in) /\ plan \in PlansFor(in)
            /\ PlanGood(in, Mutable(in), plan) /\ PlanNeat(in, Mutable(in), plan)
            /\ DOMAIN in.rows \subseteq Orders
            /\ \A o \in DOMAIN in.rows : Exists(o)
<1> DEFINE in == req[q].in
           plan == req[q].plan
<1>1. q \in Planned
  BY DEF RunCommit, Planned, Doing
<1>2. Committing(req[q]) /\ \A o \in DOMAIN in.rows : Exists(o)
  BY RequestOK, ShapeByOp DEF RunCommit, Linked, Reached
<1>3. MadeOf(in, plan)
  BY <1>1 DEF Planful, PlansMade
<1>4. DOMAIN in.rows \subseteq Orders
  BY <1>2 DEF Committing
<1> HIDE DEF in, plan
<1>5. InputFits(in) /\ StatusFits(in) /\ plan = PlanOf(in)
  BY <1>3 DEF MadeOf
<1>6. /\ plan \in PlansFor(in) /\ PlanGood(in, Mutable(in), plan)
      /\ PlanNeat(in, Mutable(in), plan)
  BY <1>5, PlanOfGood, PlanOfNeat
<1> QED
  BY <1>1, <1>2, <1>4, <1>5, <1>6 DEF in, plan

LEMMA PositiveStep ==
  ASSUME Reached, Planful, Positive, NEW q \in Requests, Act(q)
  PROVE  Positive'
<1> SUFFICES ASSUME NEW i \in Works, work'[i] # None, work'[i] # work[i]
             PROVE  work'[i].qty \in Nat \ {0}
  BY DEF Positive
<1>1. ASSUME work[i] # None, NEW status, work'[i] = [work[i] EXCEPT !.status = status]
      PROVE  work'[i].qty \in Nat \ {0}
  <2>1. work[i] \in StoredWork /\ work[i].qty \in Nat \ {0}
    BY <1>1 DEF Reached, TypeOK, TablesOK, Positive
  <2>2. work'[i].qty = work[i].qty
    BY <1>1, <2>1 DEF StoredWork
  <2> QED
    BY <2>1, <2>2
<1>2. CASE CancelFromIssue(q) \/ CancelOrder(q)
  <2>1. PICK S : CancelTx(S) \/ UNCHANGED work
    BY <1>2 DEF CancelFromIssue, CancelOrder, schedule
  <2>2. work[i] # None /\ work'[i] = [work[i] EXCEPT !.status = "CANCELLED"]
    BY <2>1 DEF CancelTx
  <2> QED
    BY <1>1, <2>2
<1>3. CASE RunCommit(q)
  <2>1. req[q].plan.new \subseteq Given
    BY <1>3, Committed DEF PlanGood, Pile
  <2>2. PICK deleted : work' = WorkWithout(deleted, req[q].plan.new)
    BY <1>3 DEF RunCommit
  <2>3. PICK d \in req[q].plan.new :
          work'[i] = [order |-> d.order, factory |-> d.factory, day |-> d.day,
                      qty |-> d.qty, status |-> "SCHEDULED"]
    BY <2>2, WorkWithoutRows
  <2>4. d.qty \in Nat \ {0}
    BY <2>1, <2>3 DEF Given
  <2> QED
    BY <2>3, <2>4
<1>4. CASE Advance(q)
  <2> DEFINE date == req[q].date
  <2>1. work'[i] = Advanced(date)[i]
    BY <1>4 DEF Advance
  <2>2. date \in Int
    BY <1>4, RequestOK, ShapeByOp DEF Advance, DailyReq, SwitchReq, Reached
  <2> HIDE DEF date
  <2>3. CASE i \in Completing(date)
    <3>1. work[i].day + ProductionDays \in Int
      BY <2>3, WorkRows, StrategyAssumption DEF Completing, Reached
    <3>2. i \notin Starting(date)
      BY <2>2, <2>3, <3>1 DEF Completing, Starting, Completion
    <3>3. work'[i] = [work[i] EXCEPT !.status = "COMPLETED"]
      BY <2>1, <2>3, <3>2 DEF Advanced
    <3> QED
      BY <1>1, <2>3, <3>3 DEF Completing
  <2>4. CASE i \in Starting(date) \ Completing(date)
    <3>1. work'[i] = [work[i] EXCEPT !.status = "IN_PRODUCTION"]
      BY <2>1, <2>4 DEF Advanced
    <3> QED
      BY <1>1, <2>4, <3>1 DEF Starting
  <2>5. CASE i \notin Completing(date) /\ i \notin Starting(date)
    BY <2>1, <2>5 DEF Advanced
  <2> QED
    BY <2>3, <2>4, <2>5
<1>5. CASE PatchRevert(q)
  <2>1. work'[i] = Reverted(req[q].date)[i]
    BY <1>5 DEF PatchRevert
  <2>2. work[i] # None /\ \E status : work'[i] = [work[i] EXCEPT !.status = status]
    BY <2>1 DEF Reverted
  <2> QED
    BY <1>1, <2>2
<1> QED
  BY <1>2, <1>3, <1>4, <1>5, WhoWorks DEF Reached

(* What a run has read is as it is, of the orders it does not set astray.  *)
LEMMA PlanUpToDate ==
  ASSUME Reached, NEW q \in Requests, RunPlan(q), q \in Planned',
         req'[q] # req[q], NEW in, in = req'[q].in,
         NEW o \in DOMAIN in.rows \ hist'.astray
  PROVE  o \in Orders /\ UpToDate(in, o) /\ Untouched(o)
<1>1. PICK date, cfg : date = req[q].date /\ cfg = req[q].cfg
  OBVIOUS
<1>2. ~End(q)
  BY EndGoes DEF Planned, Doing, Reached
<1>3. in = Prepare(date, cfg)
  <2>1. PICK r : r = [op |-> req[q].op, at |-> "commit", in |-> Prepare(date, cfg),
                      plan |-> PlanOf(Prepare(date, cfg))]
    OBVIOUS
  <2>2. req' = [req EXCEPT ![q] = r]
    BY <1>1, <1>2, <2>1 DEF RunPlan
  <2>3. req'[q] = r
    BY <2>2 DEF Reached, TypeOK, RequestsOK
  <2> QED
    BY <2>1, <2>3
<1>4. hist' = [hist EXCEPT !.astray = @ \cup CountsCancelled(in)]
  BY <1>1, <1>2, <1>3 DEF RunPlan
<1>5. o \in DOMAIN in.rows /\ o \notin CountsCancelled(in)
  BY <1>4 DEF Reached, TypeOK, HistoryOK, HistoryRow
<1>6. UNCHANGED <<ord, work>>
  BY DEF RunPlan, schedule
<1>7. /\ o \in Orders /\ in.rows[o] = ord[o]
      /\ in.kept[o] = {AsRead(i) : i \in WorkOf(o) \ Freed(in, o)}
  <2> DEFINE full == [cfg EXCEPT !.start = IF @ = None THEN Earliest(date)
                                           ELSE Larger(@, Earliest(date))]
             fetched == {p \in Orders : Exists(p) /\ ord[p].status \in
                           {"PENDING", "SCHEDULED", "IN_PRODUCTION"}}
             freed == {i \in Works :
                         /\ full.policy # "GAP_FILLING"
                         /\ work[i] # None /\ work[i].order \in fetched
                         /\ ~Immutable(ord[work[i].order])
                         /\ work[i].status = "SCHEDULED"
                         /\ InRange(work[i].day, full)}
  <2>1. /\ in.rows = [p \in fetched |-> ord[p]]
        /\ in.kept = [p \in fetched |->
             {[id |-> i, factory |-> work[i].factory, day |-> work[i].day,
               qty |-> work[i].qty] : i \in WorkOf(p) \ freed}]
        /\ in.policy = full.policy /\ in.start = full.start /\ in.end = full.end
    BY <1>3 DEF Prepare
  <2> HIDE DEF full
  <2>2. o \in fetched /\ in.rows[o] = ord[o]
    BY <1>5, <2>1
  <2>3. \A day : InRange(day, full) <=> InRange(day, in)
    BY <2>1 DEF InRange
  <2>4. WorkOf(o) \ freed = WorkOf(o) \ Freed(in, o)
    BY <2>1, <2>2, <2>3 DEF WorkOf, Freed
  <2>5. in.kept[o] = {AsRead(i) : i \in WorkOf(o) \ freed}
    BY <2>1, <2>2 DEF AsRead
  <2> QED
    BY <2>2, <2>4, <2>5
<1>8. ASSUME NEW i \in WorkOf(o), work[i].status = "CANCELLED" PROVE FALSE
  <2>1. i \notin Freed(in, o)
    BY <1>8 DEF Freed
  <2>2. AsRead(i) \in in.kept[o] /\ AsRead(i).id = i
    BY <1>7, <1>8, <2>1 DEF AsRead
  <2> QED
    BY <1>5, <1>8, <2>2 DEF CountsCancelled
<1>9. UpToDate(in, o)
  BY <1>7, <1>8 DEF UpToDate
<1> QED
  BY <1>6, <1>7, <1>9, NothingWritten

LEMMA PlansCurrentStep ==
  ASSUME Reached, Positive, PlansLocked, PlansCurrent, NEW q \in Requests, Act(q)
  PROVE  PlansCurrent'
<1> SUFFICES ASSUME NEW p \in Planned', NEW in, in = req'[p].in,
                    NEW o \in DOMAIN in.rows \ hist'.astray
             PROVE  UpToDate(in, o)'
  BY DEF PlansCurrent
<1>1. CASE p = q /\ req'[q] # req[q]
  <2>1. RunPlan(q)
    BY <1>1, WhoPlans DEF Reached
  <2>2. UpToDate(in, o) /\ Untouched(o)
    BY <1>1, <2>1, PlanUpToDate
  <2> QED
    BY <2>2, UntouchedUpToDate
<1>2. CASE ~(p = q /\ req'[q] # req[q])
  <2>1. req'[p] = req[p] /\ p \in Planned
    BY <1>2, WhoWrites DEF Reached, Planned, Doing
  <2>2. o \notin hist.astray
    BY AstrayGrows DEF Reached
  <2>3. UpToDate(in, o)
    BY <2>1, <2>2 DEF PlansCurrent
  <2>4. o \in Orders /\ Exists(o)
    <3>1. p \in Requests /\ req[p].op \in {"run", "auto"} /\ req[p].at = "commit"
      BY <2>1 DEF Planned, Doing
    <3>2. Committing(req[p]) /\ \A a \in DOMAIN req[p].in.rows : Exists(a)
      BY <3>1, RequestOK, ShapeByOp DEF Linked, Reached
    <3> QED
      BY <2>1, <3>2 DEF Committing
  <2>5. Untouched(o)
    BY <2>1, <2>4, PlanUndisturbed
  <2> QED
    BY <2>3, <2>5, UntouchedUpToDate
<1> QED
  BY <1>1, <1>2

(* What is kept of an order counts what its work does that is not freed.   *)
LEMMA KeptSum ==
  ASSUME TypeOK, NEW in, NEW o, UpToDate(in, o)
  PROVE  Amount(in.kept[o]) = WorkSum(WorkOf(o) \ Freed(in, o))
<1> DEFINE I == WorkOf(o) \ Freed(in, o)
           W == in.kept[o]
           f == [i \in I |-> AsRead(i)]
           q == [i \in I |-> work[i].qty]
           r == Qty(W)
<1>1. I \subseteq Works /\ \A i \in I : work[i] # None
  BY DEF WorkOf
<1>2. W = {AsRead(i) : i \in I}
  BY DEF UpToDate
<1>3. \A i \in I : f[i] = AsRead(i) /\ f[i].id = i /\ f[i].qty = work[i].qty
                   /\ work[i].qty \in Int
  BY <1>1 DEF AsRead, TypeOK, TablesOK, StoredWork
<1>4. Renames(f, I, W)
  BY <1>2, <1>3 DEF Renames
<1>5. \A i \in I : q[i] \in Int /\ r[f[i]] = q[i]
  BY <1>2, <1>3 DEF Qty
<1>6. W = {f[i] : i \in I}
  BY <1>2, <1>3
<1>7. WorkSum(I) = SumOf(q, I)
  BY WorkSumIs
<1>8. Amount(W) = SumOf(r, W)
  BY AmountIsSum
<1>9. IsFiniteSet(I)
  BY <1>1, WorkSumInt
<1> HIDE DEF I, W, f, q, r
<1>10. SumOf(r, {f[i] : i \in I}) = SumOf(q, I)
  BY <1>4, <1>5, <1>9, SumRenamed
<1> QED
  BY <1>6, <1>7, <1>8, <1>10 DEF I, W

(* The new rows go to places of their own among the free ones, and the     *)
(* others stay as they are.                                                *)
RowOf(d) == [order |-> d.order, factory |-> d.factory, day |-> d.day,
             qty |-> d.qty, status |-> "SCHEDULED"]
Sooner(a, b) ==
  \/ a.order < b.order
  \/ a.order = b.order /\ a.day < b.day
  \/ a.order = b.order /\ a.day = b.day /\ a.factory < b.factory

LEMMA SoonerStrict ==
  ASSUME NEW W \in SUBSET Given, Apart(W)
  PROVE  Strict({p \in W \X W : Sooner(p[1], p[2])}, W)
<1> DEFINE R == {p \in W \X W : Sooner(p[1], p[2])}
<1>1. \A a, b \in W : <<a, b>> \in R <=> Sooner(a, b)
  OBVIOUS
<1>2. ASSUME NEW a \in W
      PROVE  a.order \in Int /\ a.factory \in Int /\ a.day \in Int
  <2>1. a.order \in Orders /\ a.factory \in Factories /\ a.day \in Calendar
    BY DEF Given
  <2>2. Orders \subseteq Int /\ Factories \subseteq Int /\ Calendar \subseteq Int
    BY CellsFinite, StrategyAssumption
  <2> QED
    BY <2>1, <2>2
<1> HIDE DEF R
<1>3. ASSUME NEW a \in W, NEW b \in W, a # b
      PROVE  Sooner(a, b) \/ Sooner(b, a)
  BY <1>2, <1>3 DEF Apart, Sooner
<1>4. ASSUME NEW a \in W, NEW b \in W, NEW c \in W, Sooner(a, b), Sooner(b, c)
      PROVE  Sooner(a, c)
  BY <1>2, <1>4 DEF Sooner
<1>5. \A a \in W : ~Sooner(a, a)
  BY <1>2 DEF Sooner
<1>6. \A a, b \in W : a # b => <<a, b>> \in R \/ <<b, a>> \in R
  BY <1>1, <1>3
<1>7. \A a, b, c \in W : <<a, b>> \in R /\ <<b, c>> \in R => <<a, c>> \in R
  BY <1>1, <1>4
<1>8. \A a \in W : <<a, a>> \notin R
  BY <1>1, <1>5
<1> QED
  BY <1>6, <1>7, <1>8 DEF Strict, Linear, R

LEMMA CommitPlaces ==
  ASSUME NEW deleted \in SUBSET Works, NEW new \in SUBSET Given,
         IsFiniteSet(new), Apart(new), NEW free,
         free = {i \in Works : work[i] = None} \cup deleted,
         Cardinality(new) <= Cardinality(free),
         work' = WorkWithout(deleted, new)
  PROVE  \E f : /\ Renames(f, new, free)
                /\ \A d \in new : work'[f[d]] = RowOf(d)
                /\ \A i \in Works \ {f[d] : d \in new} :
                     work'[i] = IF i \in deleted THEN None ELSE work[i]
<1> DEFINE P == {p \in new \X new : Sooner(p[1], p[2])}
           R == {p \in free \X free : p[1] < p[2]}
           at(i) == {d \in new : RankIn(P, new, d) = RankIn(R, free, i)}
<1>1. free \subseteq Works /\ free \subseteq Int /\ IsFiniteSet(free)
  <2>1. IsFiniteSet(Works) /\ Works \subseteq Int
    BY FS_Interval, StoreAssumption DEF Works
  <2>2. free \in SUBSET Works
    OBVIOUS
  <2> QED
    BY <2>1, <2>2, FS_Subset
<1>2. Strict(P, new) /\ Strict(R, free)
  BY <1>1, SoonerStrict, IntsStrict
<1>3. ASSUME NEW i \in free
      PROVE  work'[i] = IF at(i) # {} THEN RowOf(CHOOSE d \in at(i) : TRUE)
                        ELSE IF i \in deleted THEN None ELSE work[i]
  <2> DEFINE before(a, b) == \/ a.order < b.order
                             \/ a.order = b.order /\ a.day < b.day
                             \/ a.order = b.order /\ a.day = b.day
                                /\ a.factory < b.factory
             nth(d) == Cardinality({e \in new : before(e, d)})
             spot == {d \in new : nth(d) = Cardinality({j \in free : j < i})}
  <2>1. work'[i] = IF spot # {} THEN RowOf(CHOOSE d \in spot : TRUE)
                   ELSE IF i \in deleted THEN None ELSE work[i]
    BY <1>1, <1>3 DEF WorkWithout, RowOf
  <2>2. ASSUME NEW d \in new
        PROVE  {e \in new : before(e, d)} = Preceding(P, new, d)
    <3>1. \A e \in new : <<e, d>> \in P <=> before(e, d)
      BY DEF Sooner
    <3> HIDE DEF P, before
    <3> QED
      BY <3>1 DEF Preceding
  <2>3. {j \in free : j < i} = Preceding(R, free, i)
    <3>1. \A j \in free : <<j, i>> \in R <=> j < i
      BY <1>3
    <3> HIDE DEF R
    <3> QED
      BY <3>1 DEF Preceding
  <2>4. spot = at(i)
    BY <2>2, <2>3 DEF RankIn
  <2> HIDE DEF at, spot
  <2> QED
    BY <2>1, <2>4
<1>4. ASSUME NEW i \in Works \ free
      PROVE  work'[i] = IF i \in deleted THEN None ELSE work[i]
  BY <1>4 DEF WorkWithout
<1> HIDE DEF P, R
<1>5. PICK f : /\ Renames(f, new, free)
               /\ \A d \in new, i \in free :
                    RankIn(P, new, d) = RankIn(R, free, i) <=> f[d] = i
  BY <1>1, <1>2, PlacesByRank
<1>6. \A d \in new : f[d] \in free
  BY <1>5 DEF Renames
<1>7. ASSUME NEW d \in new PROVE work'[f[d]] = RowOf(d)
  <2>1. at(f[d]) = {d}
    BY <1>5, <1>6 DEF Renames
  <2>2. (CHOOSE e \in at(f[d]) : TRUE) = d
    BY <2>1
  <2> HIDE DEF at
  <2> QED
    BY <1>3, <1>6, <2>1, <2>2
<1>8. ASSUME NEW i \in Works \ {f[d] : d \in new}
      PROVE  work'[i] = IF i \in deleted THEN None ELSE work[i]
  <2>1. CASE i \in free
    <3>1. at(i) = {}
      BY <1>5, <1>8, <2>1
    <3> HIDE DEF at
    <3> QED
      BY <1>3, <2>1, <3>1
  <2> QED
    BY <1>4, <2>1
<1> HIDE DEF at
<1>9. /\ Renames(f, new, free)
      /\ \A d \in new : work'[f[d]] = RowOf(d)
      /\ \A i \in Works \ {f[d] : d \in new} :
           work'[i] = IF i \in deleted THEN None ELSE work[i]
  BY <1>5, <1>7, <1>8
<1> QED
  BY <1>9

(* What a commit makes of the orders and of the work.                      *)
Removed(in) ==
  {i \in Works : /\ in.policy # "GAP_FILLING"
                 /\ work[i] # None /\ work[i].order \in Mutable(in)
                 /\ work[i].status = "SCHEDULED" /\ InRange(work[i].day, in)}
Settles(in, plan, o) ==
  /\ o \in DOMAIN in.rows /\ plan.status[o] \in {"SCHEDULED", "FAILED"}
  /\ ord[o].status \notin {"COMPLETED", "CANCELLED"}
Moves(f, in, plan) ==
  /\ Renames(f, plan.new, {i \in Works : work[i] = None} \cup Removed(in))
  /\ \A d \in plan.new : work'[f[d]] = RowOf(d)
  /\ \A i \in Works \ {f[d] : d \in plan.new} :
       work'[i] = IF i \in Removed(in) THEN None ELSE work[i]

LEMMA CommitWork ==
  ASSUME Reached, Planful, NEW q \in Requests, RunCommit(q)
  PROVE  \E f : Moves(f, req[q].in, req[q].plan)
<1> DEFINE in == req[q].in
           plan == req[q].plan
           mutable == {o \in DOMAIN in.rows :
                         ~in.rows[o].fixed /\ plan.status[o] \notin
                           {"IN_PRODUCTION", "COMPLETED"}}
           deleted == IF in.policy = "GAP_FILLING" THEN {}
                      ELSE Deletable(in, mutable)
           free == {i \in Works : work[i] = None} \cup deleted
<1>1. /\ PlanGood(in, Mutable(in), plan) /\ PlanNeat(in, Mutable(in), plan)
  BY Committed
<1>2. mutable = Mutable(in)
  <2>1. ASSUME NEW o \in DOMAIN in.rows
        PROVE  ~in.rows[o].fixed /\ plan.status[o] \notin {"IN_PRODUCTION", "COMPLETED"}
                 <=> ~Immutable(in.rows[o])
    <3>1. Decided(in, Mutable(in), plan, o)
      BY <1>1 DEF PlanNeat
    <3> HIDE DEF in, plan
    <3> QED
      BY <3>1 DEF Decided, Mutable, Immutable
  <2> QED
    BY <2>1 DEF Mutable
<1>3. deleted = Removed(in)
  <2> HIDE DEF mutable, in
  <2> QED
    BY <1>2 DEF Removed, Deletable
<1>4. /\ Cardinality(plan.new) <= Cardinality(free)
      /\ work' = WorkWithout(deleted, plan.new)
  BY DEF RunCommit
<1> HIDE DEF deleted
<1>5. plan.new \in SUBSET Given /\ IsFiniteSet(plan.new) /\ Apart(plan.new)
  BY <1>1 DEF PlanGood, PlanNeat, Pile
<1>6. deleted \in SUBSET Works
  BY <1>3 DEF Removed
<1> HIDE DEF in, plan
<1>7. \E f : /\ Renames(f, plan.new, free)
             /\ \A d \in plan.new : work'[f[d]] = RowOf(d)
             /\ \A i \in Works \ {f[d] : d \in plan.new} :
                  work'[i] = IF i \in deleted THEN None ELSE work[i]
  BY <1>4, <1>5, <1>6, CommitPlaces
<1>8. \E f : Moves(f, in, plan)
  BY <1>3, <1>7 DEF Moves
<1> QED
  BY <1>8 DEF in, plan

LEMMA CommitOrders ==
  ASSUME Reached, Planful, NEW q \in Requests, RunCommit(q), NEW o \in Orders
  PROVE  IF Settles(req[q].in, req[q].plan, o)
         THEN /\ ord'[o].status = req[q].plan.status[o]
              /\ ord'[o].qty = ord[o].qty /\ Exists(o)
         ELSE ord'[o] = ord[o]
<1> DEFINE in == req[q].in
           plan == req[q].plan
           orders(status) == {p \in DOMAIN in.rows : plan.status[p] = status}
           settled == {p \in orders("SCHEDULED") \cup orders("FAILED") :
                         ord[p].status \notin {"COMPLETED", "CANCELLED"}}
<1>1. ord' = Rewritten(settled, [p \in settled |->
                                  [ord[p] EXCEPT !.status = plan.status[p]]])
  BY DEF RunCommit
<1>2. o \in settled <=> Settles(in, plan, o)
  BY DEF Settles
<1>3. \A p \in DOMAIN in.rows : Exists(p)
  BY Committed
<1>4. CASE o \in settled
  <2>1. Exists(o) /\ ord[o] \in OrderRow
    BY <1>3, <1>4 DEF Reached, TypeOK, TablesOK, Exists
  <2>2. PICK s : s = plan.status[o]
    OBVIOUS
  <2> HIDE DEF settled
  <2>3. ord'[o] = [[ord[o] EXCEPT !.status = s] EXCEPT !.rev = @ + 1]
    BY <1>1, <1>4, <2>2 DEF Rewritten
  <2>4. ord'[o].status = s /\ ord'[o].qty = ord[o].qty
    BY <2>1, <2>3 DEF OrderRow
  <2> QED
    BY <1>2, <1>4, <2>1, <2>2, <2>4
<1>5. CASE o \notin settled
  <2> HIDE DEF settled
  <2>1. ord'[o] = ord[o]
    BY <1>1, <1>5 DEF Rewritten
  <2> QED
    BY <1>2, <1>5, <2>1
<1> QED
  BY <1>4, <1>5

LEMMA CommitLeaves ==
  ASSUME Reached, Planful, NEW q \in Requests, RunCommit(q),
         NEW o \in Orders \ DOMAIN req[q].in.rows
  PROVE  Untouched(o)
<1>1. PICK in, plan : in = req[q].in /\ plan = req[q].plan
  OBVIOUS
<1>2. ord'[o] = ord[o]
  BY CommitOrders DEF Settles
<1>3. PICK f : Moves(f, in, plan)
  BY <1>1, CommitWork
<1>4. o \notin Mutable(in) /\ \A d \in plan.new : d.order # o
  BY <1>1, Committed DEF Mutable, PlanGood
<1>5. ASSUME NEW i \in Works, work[i] # None, work[i].order = o
      PROVE  work'[i] = work[i]
  <2>1. i \notin Removed(in)
    BY <1>4, <1>5 DEF Removed
  <2>2. i \notin {f[d] : d \in plan.new}
    BY <1>3, <1>5, <2>1 DEF Moves, Renames
  <2> QED
    BY <1>3, <2>1, <2>2 DEF Moves
<1>6. ASSUME NEW i \in Works, work'[i] # None, work'[i].order = o
      PROVE  work'[i] = work[i]
  <2>1. ASSUME NEW d \in plan.new, f[d] = i PROVE FALSE
    <3>1. work'[i] = RowOf(d) /\ d.order # o
      BY <1>3, <1>4, <2>1 DEF Moves
    <3>2. RowOf(d).order = d.order
      BY DEF RowOf
    <3> QED
      BY <1>6, <3>1, <3>2
  <2> QED
    BY <1>3, <1>6, <2>1 DEF Moves
<1> QED
  BY <1>2, <1>5, <1>6 DEF Untouched

(* Of an order in the plan, the work after the commit is what was kept and *)
(* what the plan gives it.                                                 *)
LEMMA CommitGives ==
  ASSUME Reached, NEW in, NEW plan, NEW f, Moves(f, in, plan),
         plan.new \in SUBSET Given, IsFiniteSet(plan.new),
         NEW o \in DOMAIN in.rows, UpToDate(in, o)
  PROVE  LET kept == WorkOf(o) \ Freed(in, o)
             put == {f[d] : d \in For(plan.new, o)}
         IN /\ Live(o)' = put \cup kept /\ WorkOf(o)' = put \cup kept
            /\ put \cap kept = {} /\ put \subseteq Works
            /\ \A i \in kept : work'[i] = work[i]
<1> DEFINE kept == WorkOf(o) \ Freed(in, o)
           put == {f[d] : d \in For(plan.new, o)}
<1>1. Freed(in, o) = WorkOf(o) \cap Removed(in)
  BY DEF Freed, Removed, WorkOf, Mutable
<1>2. \A i \in kept : i \in Works /\ work[i] # None /\ work[i].order = o
                      /\ i \notin Removed(in)
  BY <1>1 DEF WorkOf
<1>3. \A d \in plan.new : /\ f[d] \in Works /\ f[d] \notin kept
                          /\ work[f[d]] = None \/ f[d] \in Removed(in)
                          /\ work'[f[d]] = RowOf(d)
  <2>1. \A d \in plan.new : f[d] \in {i \in Works : work[i] = None} \cup Removed(in)
    BY DEF Moves, Renames
  <2> QED
    BY <1>2, <2>1 DEF Moves, Removed
<1>4. \A i \in kept : work'[i] = work[i]
  BY <1>2, <1>3 DEF Moves
<1>5. \A d \in plan.new : /\ work'[f[d]] # None /\ work'[f[d]].order = d.order
                          /\ work'[f[d]].status = "SCHEDULED"
  <2>1. \A d \in plan.new : RowOf(d) \in WorkRow
    BY DEF Given, RowOf, WorkRow, WorkStatus
  <2>2. \A d \in plan.new : RowOf(d) # None
    BY <2>1, StoreAssumption
  <2>3. \A d \in plan.new : RowOf(d).order = d.order /\ RowOf(d).status = "SCHEDULED"
    BY DEF RowOf
  <2> HIDE DEF kept, put
  <2> QED
    BY <1>3, <2>2, <2>3
<1>6. WorkOf(o)' = put \cup kept
  <2>1. ASSUME NEW i \in Works PROVE i \in WorkOf(o)' <=> i \in put \cup kept
    <3>1. CASE i \in {f[d] : d \in plan.new}
      <4>1. PICK d \in plan.new : i = f[d]
        BY <3>1
      <4>2. i \in WorkOf(o)' <=> d.order = o
        BY <1>5, <4>1 DEF WorkOf
      <4>3. d.order = o => i \in put
        BY <4>1 DEF For
      <4>4. i \in put => d.order = o
        <5>1. \A e \in plan.new : f[e] = f[d] => e = d
          BY DEF Moves, Renames
        <5> QED
          BY <4>1, <5>1 DEF For
      <4> QED
        BY <1>3, <4>1, <4>2, <4>3, <4>4
    <3>2. CASE i \notin {f[d] : d \in plan.new}
      <4>1. work'[i] = IF i \in Removed(in) THEN None ELSE work[i]
        BY <3>2 DEF Moves
      <4>2. i \notin put
        BY <3>2 DEF For
      <4>3. i \in kept <=> i \in WorkOf(o) /\ i \notin Removed(in)
        BY <1>1
      <4> QED
        BY <4>1, <4>2, <4>3 DEF WorkOf
    <3> QED
      BY <3>1, <3>2
  <2>2. WorkOf(o)' \subseteq Works
    BY DEF WorkOf
  <2>3. put \cup kept \subseteq Works
    BY <1>2, <1>3 DEF For
  <2> QED
    BY <2>1, <2>2, <2>3
<1>7. put \subseteq Works /\ put \cap kept = {}
  BY <1>3 DEF For
<1>8. \A i \in WorkOf(o)' : work'[i].status # "CANCELLED"
  <2>1. \A i \in put : work'[i].status # "CANCELLED"
    BY <1>5 DEF For
  <2>2. \A i \in kept : work'[i].status # "CANCELLED"
    BY <1>4 DEF UpToDate
  <2> HIDE DEF put, kept
  <2> QED
    BY <1>6, <2>1, <2>2
<1>9. Live(o)' = WorkOf(o)'
  BY <1>8 DEF Live
<1> QED
  BY <1>4, <1>6, <1>7, <1>9

LEMMA CommitSum ==
  ASSUME Reached, NEW in, NEW plan, NEW f, Moves(f, in, plan),
         plan.new \in SUBSET Given, IsFiniteSet(plan.new),
         NEW o \in DOMAIN in.rows, UpToDate(in, o)
  PROVE  WorkSum(Live(o))' = Amount(For(plan.new, o)) + Amount(in.kept[o])
<1>1. PICK W, kept, put : /\ W = For(plan.new, o)
                          /\ kept = WorkOf(o) \ Freed(in, o)
                          /\ put = {f[d] : d \in W}
  OBVIOUS
<1>2. PICK J : J = put \cup kept
  OBVIOUS
<1>3. PICK q : q = [i \in J |-> work'[i].qty]
  OBVIOUS
<1>4. /\ Live(o)' = J /\ put \cap kept = {} /\ put \subseteq Works
      /\ \A i \in kept : work'[i] = work[i]
  BY <1>1, <1>2, CommitGives
<1>5. WorkSum(J)' = SumOf(q, J)
  BY <1>3, WorkSumNext
<1>6. kept \subseteq Works /\ \A i \in kept : work[i] # None
  BY <1>1 DEF WorkOf
<1>7. IsFiniteSet(kept) /\ \A i \in kept : work[i].qty \in Int
  BY <1>6, WorkSumInt DEF Reached, TypeOK, TablesOK, StoredWork
<1>8. W \subseteq plan.new /\ IsFiniteSet(W) /\ \A d \in W : d.qty \in Int
  <2>1. W \in SUBSET plan.new /\ W \subseteq Given
    BY <1>1 DEF For
  <2>2. IsFiniteSet(W)
    BY <2>1, FS_Subset
  <2> QED
    BY <2>1, <2>2 DEF Given
<1>9. SumOf(q, put) = Amount(W)
  <2> DEFINE g == [d \in W |-> f[d]]
             r == Qty(W)
             U == {i \in Works : work[i] = None} \cup Removed(in)
  <2>1. Renames(g, W, U)
    BY <1>8 DEF Moves, Renames
  <2>2. \A d \in W : r[d] \in Int /\ q[g[d]] = r[d]
    <3> SUFFICES ASSUME NEW d \in W PROVE r[d] \in Int /\ q[g[d]] = r[d]
      OBVIOUS
    <3>1. g[d] \in J /\ work'[g[d]] = RowOf(d)
      BY <1>1, <1>2, <1>8 DEF Moves
    <3>2. q[g[d]] = RowOf(d).qty
      BY <1>3, <3>1
    <3>3. RowOf(d).qty = d.qty /\ r[d] = d.qty
      BY DEF RowOf, Qty
    <3> QED
      BY <1>8, <3>2, <3>3
  <2>3. put = {g[d] : d \in W}
    BY <1>1
  <2>4. Amount(W) = SumOf(r, W)
    BY AmountIsSum
  <2> HIDE DEF g, r, U
  <2>5. SumOf(q, {g[d] : d \in W}) = SumOf(r, W)
    BY <1>8, <2>1, <2>2, SumRenamed
  <2> QED
    BY <2>3, <2>4, <2>5
<1>10. SumOf(q, kept) = Amount(in.kept[o])
  <2> DEFINE r == [i \in kept |-> work[i].qty]
  <2>1. \A i \in kept : r[i] \in Int /\ q[i] = r[i]
    BY <1>2, <1>3, <1>4, <1>7
  <2>2. WorkSum(kept) = SumOf(r, kept)
    BY WorkSumIs
  <2>3. WorkSum(kept) = Amount(in.kept[o])
    BY <1>1, KeptSum DEF Reached
  <2> HIDE DEF r
  <2>4. SumOf(r, kept) = SumOf(q, kept)
    BY <1>7, <2>1, SumSame
  <2> QED
    BY <2>2, <2>3, <2>4
<1>11. IsFiniteSet(put)
  <2>1. IsFiniteSet(Works)
    BY FS_Interval, StoreAssumption DEF Works
  <2> QED
    BY <1>4, <2>1, FS_Subset
<1>12. \A i \in put \cup kept : q[i] \in Int
  <2>1. \A i \in kept : q[i] \in Int
    BY <1>2, <1>3, <1>4, <1>7
  <2>2. ASSUME NEW d \in W PROVE q[f[d]] \in Int
    <3>1. f[d] \in J /\ work'[f[d]] = RowOf(d)
      BY <1>1, <1>2, <1>8 DEF Moves
    <3>2. RowOf(d).qty = d.qty
      BY DEF RowOf
    <3> QED
      BY <1>3, <1>8, <3>1, <3>2
  <2> QED
    BY <1>1, <2>1, <2>2
<1>13. SumOf(q, J) = SumOf(q, put) + SumOf(q, kept)
  BY <1>2, <1>4, <1>7, <1>11, <1>12, SumUnion
<1>14. WorkSum(Live(o))' = WorkSum(J)'
  BY <1>4
<1> QED
  BY <1>1, <1>5, <1>9, <1>10, <1>13, <1>14

(* All work is freed only if there is a need for it.                       *)
LEMMA NothingFreed ==
  ASSUME Reached, Positive, NEW in, NEW o, UpToDate(in, o),
         WorkSum(Live(o)) = ord[o].qty, Missing(in, o) <= 0, ord[o].qty \in Int
  PROVE  Freed(in, o) = {}
<1>1. PICK I, F, kept : /\ I = WorkOf(o) /\ F = Freed(in, o) /\ kept = I \ F
  OBVIOUS
<1>2. F \subseteq I /\ I \subseteq Works /\ Live(o) = I
  BY <1>1 DEF Freed, WorkOf, Live, UpToDate
<1>3. \A i \in I : work[i] # None /\ work[i].qty \in Nat \ {0}
  BY <1>1 DEF WorkOf, Positive
<1>4. PICK q : q = [i \in I |-> work[i].qty]
  OBVIOUS
<1>5. \A i \in I : q[i] \in Nat /\ q[i] > 0
  BY <1>3, <1>4
<1>6. WorkSum(I) = SumOf(q, I) /\ IsFiniteSet(I)
  BY <1>2, <1>3, <1>4, WorkSumIs, WorkSumInt DEF Reached
<1>7. IsFiniteSet(F) /\ IsFiniteSet(kept) /\ kept \cap F = {} /\ kept \cup F = I
  BY <1>1, <1>2, <1>6, FS_Subset
<1>8. SumOf(q, I) = SumOf(q, kept) + SumOf(q, F)
  BY <1>5, <1>7, SumUnion
<1>9. SumOf(q, kept) = Amount(in.kept[o])
  <2> DEFINE r == [i \in kept |-> work[i].qty]
  <2>1. \A i \in kept : r[i] \in Int /\ q[i] = r[i]
    BY <1>1, <1>4, <1>5
  <2>2. WorkSum(kept) = SumOf(r, kept)
    BY WorkSumIs
  <2>3. WorkSum(kept) = Amount(in.kept[o])
    BY <1>1, KeptSum DEF Reached
  <2> HIDE DEF r
  <2>4. SumOf(r, kept) = SumOf(q, kept)
    BY <1>7, <2>1, SumSame
  <2> QED
    BY <2>2, <2>3, <2>4
<1>10. SumOf(q, kept) \in Int /\ SumOf(q, F) \in Int
  BY <1>5, <1>7, SumInt
<1>11. SumOf(q, F) <= 0
  <2>1. Missing(in, o) = ord[o].qty - SumOf(q, kept)
    BY <1>9 DEF Missing, UpToDate
  <2>2. ord[o].qty = SumOf(q, kept) + SumOf(q, F)
    BY <1>2, <1>6, <1>8
  <2> QED
    BY <1>10, <2>1, <2>2
<1>12. ASSUME NEW i \in F PROVE FALSE
  <2>1. \A j \in F : q[j] \in Nat
    BY <1>2, <1>5
  <2>2. q[i] <= SumOf(q, F)
    BY <1>7, <2>1, SumMember
  <2> QED
    BY <1>2, <1>5, <1>10, <1>11, <2>2
<1> QED
  BY <1>1, <1>12

LEMMA CommitCovers ==
  ASSUME Reached, Planful, Positive, NEW q \in Requests, RunCommit(q),
         NEW o \in DOMAIN req[q].in.rows, UpToDate(req[q].in, o), Covered(o)
  PROVE  Covered(o)'
<1>1. PICK in, plan : in = req[q].in /\ plan = req[q].plan
  OBVIOUS
<1>2. /\ InputFits(in) /\ PlanGood(in, Mutable(in), plan)
      /\ Decided(in, Mutable(in), plan, o) /\ Served(in, Mutable(in), plan, o)
      /\ o \in DOMAIN in.rows /\ o \in Orders /\ Exists(o) /\ UpToDate(in, o)
  BY <1>1, Committed DEF PlanNeat, PlanGood
<1>3. plan.new \in SUBSET Given /\ IsFiniteSet(plan.new)
  BY <1>2 DEF PlanGood, Pile
<1>4. PICK f : Moves(f, in, plan)
  BY <1>1, CommitWork
<1>5. PICK put, kept, n, k : /\ put = {f[d] : d \in For(plan.new, o)}
                             /\ kept = WorkOf(o) \ Freed(in, o)
                             /\ n = Amount(For(plan.new, o))
                             /\ k = Amount(in.kept[o])
  OBVIOUS
<1>6. Live(o)' = put \cup kept /\ WorkSum(Live(o))' = n + k
  BY <1>2, <1>3, <1>4, <1>5, CommitGives, CommitSum
<1>7. /\ ord[o] \in OrderRow /\ ord[o].qty \in Int /\ in.rows[o] = ord[o]
      /\ Missing(in, o) = ord[o].qty - k /\ Missing(in, o) \in Int
  <2>1. ord[o] \in OrderRow
    BY <1>2 DEF Reached, TypeOK, TablesOK, Exists
  <2>2. in.rows[o] = ord[o]
    BY <1>2 DEF UpToDate
  <2>3. Missing(in, o) \in Int
    BY <1>2, MissingInt
  <2> QED
    BY <1>5, <2>1, <2>2, <2>3 DEF OrderRow, Missing
<1>8. k \in Int
  <2>1. k = WorkSum(kept) /\ kept \subseteq Works /\ \A i \in kept : work[i] # None
    BY <1>2, <1>5, KeptSum DEF Reached, WorkOf
  <2> QED
    BY <2>1, WorkSumInt DEF Reached
<1>9. IF Settles(in, plan, o)
      THEN ord'[o].status = plan.status[o] /\ ord'[o].qty = ord[o].qty
      ELSE ord'[o] = ord[o]
  BY <1>1, <1>2, CommitOrders
<1> SUFFICES ASSUME ord'[o].status \in Made
             PROVE  n + k = ord'[o].qty /\ put \cup kept # {}
  BY <1>6 DEF Covered
<1>10. CASE o \in Mutable(in) /\ Missing(in, o) > 0
  <2>1. plan.status[o] = "SCHEDULED"
    <3>1. plan.status[o] \in {"SCHEDULED", "FAILED"}
      BY <1>2, <1>10 DEF Decided
    <3>2. Settles(in, plan, o)
      <4>1. ord[o].status # "COMPLETED"
        BY <1>7, <1>10 DEF Mutable, Immutable
      <4>2. ord[o].status # "CANCELLED"
        BY <1>9 DEF Settles, Made
      <4> QED
        BY <1>2, <3>1, <4>1, <4>2 DEF Settles
    <3> QED
      BY <1>9, <3>1, <3>2 DEF Made
  <2>2. For(plan.new, o) # {}
    BY <1>2, <1>10, <2>1 DEF Decided
  <2>3. n = ord[o].qty - k
    BY <1>2, <1>5, <1>7, <2>2 DEF Served
  <2>4. ord'[o].qty = ord[o].qty
    BY <1>9
  <2>5. put # {}
    BY <1>5, <2>2
  <2> QED
    BY <1>7, <1>8, <2>3, <2>4, <2>5
<1>11. CASE ~(o \in Mutable(in) /\ Missing(in, o) > 0)
  <2>1. plan.status[o] = ord[o].status /\ For(plan.new, o) = {}
    BY <1>2, <1>7, <1>11 DEF Decided
  <2>2. ord'[o].status = ord[o].status /\ ord'[o].qty = ord[o].qty
    BY <1>9, <2>1
  <2>3. WorkSum(Live(o)) = ord[o].qty /\ Live(o) # {}
    BY <1>2, <2>2 DEF Covered
  <2>4. Freed(in, o) = {}
    <3>1. CASE o \in Mutable(in)
      <4>1. Missing(in, o) <= 0
        BY <1>7, <1>11, <3>1
      <4> QED
        BY <1>2, <1>7, <2>3, <4>1, NothingFreed
    <3>2. CASE o \notin Mutable(in)
      BY <1>2, <3>2 DEF Freed, Mutable
    <3> QED
      BY <3>1, <3>2
  <2>5. kept = Live(o)
    BY <1>2, <1>5, <2>4 DEF Live, UpToDate
  <2>6. n = 0
    BY <1>5, <2>1, AmountNone
  <2>7. k = WorkSum(Live(o))
    BY <1>2, <1>5, <2>5, KeptSum DEF Reached
  <2> QED
    BY <1>7, <1>8, <2>2, <2>3, <2>5, <2>6, <2>7
<1> QED
  BY <1>10, <1>11

LEMMA CoveredStep ==
  ASSUME Reached, Planful, Booked, NEW q \in Requests, Act(q)
  PROVE  AllCovered'
<1> SUFFICES ASSUME NEW o \in Orders \ hist'.astray PROVE Covered(o)'
  BY DEF AllCovered
<1>1. o \notin hist.astray /\ TypeOK /\ Positive /\ Covered(o)
  BY AstrayGrows DEF Reached, Booked, AllCovered
<1>2. Untouched(o) => Covered(o)'
  BY <1>1, UntouchedCovered
<1>3. ord'[o].status \notin Made => Covered(o)'
  BY DEF Covered
<1>4. CASE UNCHANGED <<ord, work>>
  BY <1>2, <1>4, NothingWritten
<1>5. CASE \E a \in Orders, n \in Values("new") : CreateOrder(q, a, n.qty, n.due)
  BY <1>1, <1>2, <1>3, <1>5, CreateOrderLeaves DEF Made
<1>6. CASE UpdateOrder(q)
  <2>1. PICK a \in Orders :
          /\ \A p \in Orders \ {a} : Untouched(p)
          /\ a \notin hist'.astray =>
               \/ UNCHANGED <<ord, work>>
               \/ Exists(a) /\ Live(a) = {} /\ ord'[a].status = ord[a].status
    BY <1>1, <1>6, UpdateOrderLeaves
  <2>2. CASE Exists(o) /\ Live(o) = {} /\ ord'[o].status = ord[o].status
    BY <1>1, <1>3, <2>2 DEF Covered
  <2> QED
    BY <1>2, <1>4, <2>1, <2>2
<1>7. CASE AcceptOrder(q)
  BY <1>1, <1>2, <1>3, <1>7, AcceptOrderLeaves DEF Made
<1>8. CASE CancelFromIssue(q) \/ CancelOrder(q)
  BY <1>1, <1>2, <1>3, <1>4, <1>8, CancelLeaves DEF Made
<1>9. CASE Advance(q)
  BY <1>1, <1>9, AdvanceLeaves, RegradedCovered DEF Promotes
<1>10. CASE PatchRevert(q)
  BY <1>1, <1>10, RevertLeaves, RegradedCovered DEF Promotes
<1>11. CASE RunCommit(q)
  <2>1. CASE o \in DOMAIN req[q].in.rows
    <3>1. q \in Planned
      BY <1>11, Committed
    <3>2. UpToDate(req[q].in, o)
      BY <1>1, <2>1, <3>1 DEF Booked, PlansCurrent
    <3> QED
      BY <1>1, <1>11, <2>1, <3>2, CommitCovers
  <2>2. CASE o \notin DOMAIN req[q].in.rows
    BY <1>2, <1>11, <2>2, CommitLeaves
  <2> QED
    BY <2>1, <2>2
<1> QED
  BY <1>1, <1>4, <1>5, <1>6, <1>7, <1>8, <1>9, <1>10, <1>11, WhoOrders

LEMMA BookedStays ==
  ASSUME Reached, Booked, UNCHANGED vars \/ NewDay \/ Lapse PROVE Booked'
<1>1. UNCHANGED <<ord, work, req, hist>>
  BY NobodyActs
<1>2. \A o : Untouched(o)
  BY <1>1 DEF Untouched
<1>3. Positive'
  BY <1>1 DEF Booked, Positive
<1>4. AllCovered'
  <2> SUFFICES ASSUME NEW o \in Orders \ hist'.astray PROVE Covered(o)'
    BY DEF AllCovered
  <2>1. Covered(o)
    BY <1>1 DEF Booked, AllCovered
  <2> QED
    BY <1>2, <2>1, UntouchedCovered DEF Reached
<1>5. PlansCurrent'
  <2> SUFFICES ASSUME NEW p \in Planned', NEW in, in = req'[p].in,
                      NEW o \in DOMAIN in.rows \ hist'.astray
               PROVE  UpToDate(in, o)'
    BY DEF PlansCurrent
  <2>1. UpToDate(in, o)
    BY <1>1 DEF Booked, PlansCurrent, Planned, Doing
  <2> QED
    BY <1>2, <2>1, UntouchedUpToDate
<1>6. PlansLocked'
  <2>1. Planned' = Planned
    BY <1>1 DEF Planned, Doing
  <2>2. CASE Lapse
    <3>1. Planned = {}
      BY <2>2, PlannedLocks DEF Booked, Lapse
    <3> QED
      BY <2>1, <3>1 DEF PlansLocked
  <2>3. CASE UNCHANGED lock
    BY <2>1, <2>3 DEF Booked, PlansLocked
  <2> QED
    BY <2>2, <2>3 DEF vars, NewDay
<1> QED
  BY <1>3, <1>4, <1>5, <1>6 DEF Booked

LEMMA BookedStep ==
  ASSUME Reached, Planful, Booked, [(Next /\ Heard) \/ PageStep]_pvars
  PROVE  Booked'
<1>1. ASSUME NEW q \in Requests, Act(q) PROVE Booked'
  BY <1>1, PositiveStep, CoveredStep, PlansLockedStep, PlansCurrentStep DEF Booked
<1> QED
  BY <1>1, BookedStays, WhoActs DEF Reached, Fine, PageOK

LEMMA InitBooked == PageInit => Booked
<1> SUFFICES ASSUME PageInit PROVE Booked
  OBVIOUS
<1>1. PICK s \in Scenes[scene].starts : ord = s.ord /\ work = s.work
  BY DEF PageInit, Init
<1>2. scene \in Scene /\ Planned = {}
  BY DEF PageInit, Init, Planned, Doing, Idle
<1>3. Positive
  <2>1. work \in [Works -> WorkRow \cup {None}]
    BY <1>1, <1>2, StartsAssumption
  <2> QED
    BY <2>1 DEF Positive, WorkRow
<1>4. AllCovered
  <2> SUFFICES ASSUME NEW o \in Orders, Exists(o), ord[o].status \in Made
               PROVE  WorkSum(Live(o)) = ord[o].qty /\ Live(o) # {}
    BY DEF AllCovered, Covered
  <2> DEFINE live == {i \in Works : /\ s.work[i] # None /\ s.work[i].order = o
                                    /\ s.work[i].status # "CANCELLED"}
             A(g) == g = [t \in SUBSET live |->
                            IF t = {} THEN 0
                            ELSE s.work[CHOOSE x \in t : TRUE].qty
                                 + g[t \ {CHOOSE x \in t : TRUE}]]
             B(g) == g = [t \in SUBSET live |->
                            IF t = {} THEN 0
                            ELSE work[CHOOSE x \in t : TRUE].qty
                                 + g[t \ {CHOOSE x \in t : TRUE}]]
  <2>1. /\ live # {}
        /\ MapThenSumSet(LAMBDA i : s.work[i].qty, live) = ord[o].qty
    BY <1>1, <1>2, FreshAssumption DEF Exists, Made
  <2>2. Live(o) = live
    BY <1>1 DEF Live, WorkOf
  <2>3. \A g : A(g) <=> B(g)
    BY <1>1
  <2>4. MapThenSumSet(LAMBDA i : s.work[i].qty, live) = (CHOOSE g : A(g))[live]
    BY DEF MapThenSumSet, MapThenFoldSet
  <2>5. WorkSum(live) = (CHOOSE g : B(g))[live]
    BY DEF WorkSum, MapThenSumSet, MapThenFoldSet
  <2> HIDE DEF A, B, live
  <2>6. (CHOOSE g : A(g)) = (CHOOSE g : B(g))
    BY <2>3
  <2>7. WorkSum(live) = MapThenSumSet(LAMBDA i : s.work[i].qty, live)
    BY <2>4, <2>5, <2>6
  <2> QED
    BY <2>1, <2>2, <2>7
<1> QED
  BY <1>2, <1>3, <1>4 DEF Booked, PlansLocked, PlansCurrent

(* An order that counts as scheduled, in production or completed has work  *)
(* for exactly its quantity, unless it is known to have gone astray: a run *)
(* writes what it has read and planned, and deletes just what it gave back *)
(* in memory (QuantityCovered; core.ts:106, strategy.ts:262).              *)
THEOREM QuantityIsCovered == Spec => []QuantityCovered
<1>1. PageInit => Reached /\ Planful /\ Booked
  BY InitFine, InitPlanful, InitBooked DEF Reached
<1>2. Reached /\ Planful /\ Booked /\ [(Next /\ Heard) \/ PageStep]_pvars
        => Reached' /\ Planful' /\ Booked'
  BY ReachedStep, PlanfulStep, BookedStep
<1>3. Booked => QuantityCovered
  BY DEF Booked, AllCovered, Covered, QuantityCovered, Made
<1> HIDE DEF Reached, Planful, Booked
<1> QED
  BY <1>1, <1>2, <1>3, PTL DEF Spec
================================================================================
