-------------------------- MODULE ScheduleCoreProofs --------------------------
(***************************************************************************)
(* Theorems about ScheduleCore, for any orders, factories, requests,       *)
(* policies and bounds.                                                    *)
(***************************************************************************)
EXTENDS ScheduleCore, FiniteSetTheorems, FunctionTheorems, TLAPS

(* There are finitely many assignments to write, so that capacities are    *)
(* changed by natural numbers.                                             *)
LEMMA RowsFinite == IsFiniteSet(Rows)
<1> DEFINE Where == Orders \X Cells
           What == AssignmentStatus \X (Requests \cup {None})
           Dom == Where \X What
           f == [d \in Dom |-> [ord |-> d[1][1], cell |-> d[1][2],
                                st |-> d[2][1], by |-> d[2][2]]]
<1>1. IsFiniteSet(Where)
  <2>1. IsFiniteSet(Days)
    BY CoreAssumption, FS_Interval DEF Days
  <2>2. IsFiniteSet(Cells)
    BY <2>1, CoreAssumption, FS_Product DEF Cells
  <2> QED
    BY <2>2, CoreAssumption, FS_Product
<1>2. IsFiniteSet(What)
  <2>1. IsFiniteSet(AssignmentStatus)
    <3>1. AssignmentStatus =
            ((({} \cup {"SCHEDULED"}) \cup {"IN_PRODUCTION"}) \cup {"COMPLETED"})
               \cup {"CANCELLED"}
      BY DEF AssignmentStatus
    <3> QED
      BY <3>1, FS_EmptySet, FS_AddElement
  <2>2. IsFiniteSet(Requests \cup {None})
    BY CoreAssumption, FS_AddElement
  <2> QED
    BY <2>1, <2>2, FS_Product
<1>3. IsFiniteSet(Dom)
  BY <1>1, <1>2, FS_Product
<1>4. f \in Surjection(Dom, Rows)
  <2>1. f \in [Dom -> Rows]
    BY DEF Rows
  <2>2. ASSUME NEW r \in Rows PROVE \E d \in Dom : f[d] = r
    <3> DEFINE d == <<<<r.ord, r.cell>>, <<r.st, r.by>>>>
    <3>1. d \in Dom
      BY DEF Rows
    <3>2. f[d] = r
      BY <3>1 DEF Rows
    <3> QED
      BY <3>1, <3>2
  <2> QED
    BY <2>1, <2>2, Fun_IsSurj
<1> QED
  BY <1>3, <1>4, FS_Surjection

LEMMA CountRows ==
  ASSUME NEW S \in SUBSET Rows PROVE IsFiniteSet(S) /\ Cardinality(S) \in Nat
BY RowsFinite, FS_Subset, FS_CardinalityType

LEMMA CountOrders ==
  ASSUME NEW S \in SUBSET Orders PROVE IsFiniteSet(S) /\ Cardinality(S) \in Nat
BY CoreAssumption, FS_Subset, FS_CardinalityType

(* A capacity that is adjusted stays a number.                             *)
LEMMA AdjustType ==
  ASSUME NEW f \in [Cells -> Int \cup {None}], NEW c \in Cells, NEW d \in Int
  PROVE  /\ Adjust(f, c, d) \in [Cells -> Int \cup {None}]
         /\ Adjust(f, c, d)[c] \in Int
BY CoreAssumption DEF Adjust

(* The fields of a job, by its operation.                                  *)
LEMMA EngineJob ==
  ASSUME NEW j \in Jobs, j.op \in {"run", "preview"}
  PROVE  j.policy \in AllPolicies /\ j.targets \in SUBSET Orders /\ j.now \in Nat
BY DEF Jobs

LEMMA ApplyJob ==
  ASSUME NEW j \in Jobs, j.op = "apply"
  PROVE  j.preview \in Requests /\ j.torn \in BOOLEAN /\ j.quiet \in Nat
BY DEF Jobs

LEMMA CancelJob ==
  ASSUME NEW j \in Jobs, j.op \in {"cancel", "delete", "issueCancel"}
  PROVE  j.order \in Orders
BY DEF Jobs

LEMMA DailyJob ==
  ASSUME NEW j \in Jobs, j.op = "daily" PROVE j.now \in Nat
BY DEF Jobs

LEMMA MoveJob ==
  ASSUME NEW j \in Jobs, j.op \in {"move", "place"}
  PROVE  j.order \in Orders /\ j.to \in Cells
BY DEF Jobs

(* What the engine returns is a plan, based on what it was given.          *)
LEMMA EngineType ==
  ASSUME cap \in [Cells -> Int \cup {None}],
         NEW v \in Views, NEW j \in Jobs, j.op \in {"run", "preview"},
         NEW p \in Engine(v, j)
  PROVE  p \in Plans /\ p.basis = v.basis
<1>1. PICK at \in UNION {[ok -> Cells] : ok \in SUBSET Needy(v, j)} :
        p = Result(v, j, at)
  BY DEF Engine
<1>2. PICK ok \in SUBSET Needy(v, j) : at \in [ok -> Cells]
  BY <1>1
<1>3. Needy(v, j) \subseteq Orders /\ Candidates(v, j) \subseteq Orders
  BY DEF Needy, Mutables, Candidates
<1>4. DOMAIN at = ok /\ ok \subseteq Orders
  BY <1>2, <1>3
<1>5. FirstDay(j) \in Int /\ Frees(j) \in BOOLEAN
  BY EngineJob, CoreAssumption DEF FirstDay, Frees
<1>6. Mutables(v, j) \subseteq Orders
  BY DEF Mutables, Candidates
<1>7. Base(v, j) \in [Cells -> Int]
  <2> SUFFICES ASSUME NEW c \in Cells
               PROVE  (IF Known(c, j) THEN cap[c] + Cardinality(RowsAt(Freed(v, j), c))
                       ELSE MaxCapacity - Cardinality(RowsAt(Immutables(v, j), c))) \in Int
    BY DEF Base
  <2>1. RowsAt(Freed(v, j), c) \in SUBSET Rows /\ RowsAt(Immutables(v, j), c) \in SUBSET Rows
    BY DEF RowsAt, Freed, Immutables, Views
  <2>2. Cardinality(RowsAt(Freed(v, j), c)) \in Nat
    BY <2>1, CountRows
  <2>3. Cardinality(RowsAt(Immutables(v, j), c)) \in Nat
    BY <2>1, CountRows
  <2>4. Known(c, j) => cap[c] \in Int
    BY DEF Known
  <2> QED
    BY <2>2, <2>3, <2>4, CoreAssumption
<1>8. Left(v, j, at) \in [Cells -> Int]
  <2> SUFFICES ASSUME NEW c \in Cells
               PROVE  Base(v, j)[c] - Cardinality({o \in DOMAIN at : at[o] = c}) \in Int
    BY DEF Left
  <2>1. {o \in DOMAIN at : at[o] = c} \in SUBSET Orders
    BY <1>4
  <2>2. Cardinality({o \in DOMAIN at : at[o] = c}) \in Nat
    BY <2>1, CountOrders
  <2> QED
    BY <1>7, <2>2
<1>9. {[ord |-> o, cell |-> at[o]] : o \in ok} \subseteq [ord : Orders, cell : Cells]
  BY <1>2, <1>4
<1>10. v.basis \in Nat
  BY DEF Views
<1> HIDE DEF Base
<1> QED
  BY <1>1, <1>3, <1>4, <1>5, <1>6, <1>8, <1>9, <1>10 DEF Result, Plans

-------------------------------------------------------------------------------
(***************************************************************************)
(* Type correctness.  TypeOK is not inductive: that a request which is     *)
(* about to commit holds a plan, and not None, depends on how it got       *)
(* there.  Fits says which jobs reach a step, and what they hold there.    *)
(***************************************************************************)
Fits(l, j, s, p) ==
  /\ l = "lock" => j.op \in {"run", "apply", "cancel", "delete", "daily", "move", "place"}
  /\ l = "check" => j.op \in {"apply", "cancel"}
  /\ l \in {"orders", "plan"} => j.op \in {"run", "preview"}
  /\ l = "commit" => j.op \in {"run", "apply"}
  /\ l = "cancel" => j.op \in {"cancel", "delete", "issueCancel"}
  /\ l = "daily" => j.op = "daily"
  /\ l \in {"precheck", "validate", "capacity", "move"} => j.op \in {"move", "place"}
  /\ l \in {"settle", "forget"} => j.op = "apply"
  /\ l = "plan" => s \in Views
  /\ l \in {"capacity", "move"} /\ j.op = "move" => s \in Rows
  /\ l \in {"version", "commit"} => p \in Plans
  /\ l \in {"lock", "check"} /\ j.op = "apply" => p \in Plans

Control == \A q \in Requests : Fits(pc[q], job[q], seen[q], plan[q])

Typed == TypeOK /\ Control

(* A step of q that leaves the other requests where they are.              *)
LEMMA ControlStep ==
  ASSUME Control, NEW q \in Requests,
         \A r \in Requests \ {q} : /\ pc'[r] = pc[r] /\ job'[r] = job[r]
                                   /\ seen'[r] = seen[r] /\ plan'[r] = plan[r],
         Fits(pc'[q], job'[q], seen'[q], plan'[q])
  PROVE  Control'
<1> SUFFICES ASSUME NEW r \in Requests
             PROVE  Fits(pc'[r], job'[r], seen'[r], plan'[r])
  BY DEF Control
<1> QED
  BY DEF Control

LEMMA InitTyped == Init => Typed
<1> SUFFICES ASSUME Init PROVE Typed
  OBVIOUS
<1>0. PICK booked \in SUBSET Orders : \E at \in [booked -> Cells], open \in SUBSET Cells :
        LET taken(c) == {o \in booked : at[o] = c} IN
        /\ \A o \in booked : DayOf(at[o]) <= Deadline[o]
        /\ \A c \in Cells : Cardinality(taken(c)) <= MaxCapacity
        /\ Open \cup {at[o] : o \in booked} \subseteq open
        /\ ord = [o \in Orders |-> IF o \in booked THEN "SCHEDULED" ELSE "PENDING"]
        /\ rows = {[ord |-> o, cell |-> at[o], st |-> "SCHEDULED", by |-> None] :
                     o \in booked}
        /\ cap = [c \in Cells |-> IF c \in open
                                  THEN MaxCapacity - Cardinality(taken(c))
                                  ELSE None]
  BY DEF Init
<1>1. PICK at \in [booked -> Cells], open \in SUBSET Cells :
        /\ rows = {[ord |-> o, cell |-> at[o], st |-> "SCHEDULED", by |-> None] :
                    o \in booked}
        /\ cap = [c \in Cells |-> IF c \in open
                                  THEN MaxCapacity - Cardinality({o \in booked : at[o] = c})
                                  ELSE None]
  BY <1>0
<1>2. rows \subseteq Rows
  BY <1>1 DEF Rows, AssignmentStatus
<1>3. cap \in [Cells -> Int \cup {None}]
  <2>1. ASSUME NEW c \in Cells
        PROVE  Cardinality({o \in booked : at[o] = c}) \in Nat
    BY CountOrders
  <2> QED
    BY <1>1, <2>1, CoreAssumption
<1>4. ord \in [Orders -> OrderStatus]
  BY DEF Init, OrderStatus
<1>5. holder \in [{Type} -> Requests \cup {None}]
  BY DEF Init, Lock!NewLocks
<1>6. NoJob \in Jobs
  BY DEF NoJob, Jobs
<1> QED
  BY <1>2, <1>3, <1>4, <1>5, <1>6 DEF Init, Typed, TypeOK, Control, Fits, PCs

(* Requests arrive, with a job that fits the step they start at.           *)
LEMMA SubmitTyped ==
  ASSUME Typed, NEW q \in Requests, NEW j \in Jobs, NEW l \in PCs, Submit(q, j, l),
         plan' \in [Requests -> Plans \cup {None}],
         \A r \in Requests \ {q} : plan'[r] = plan[r],
         Fits(l, j, seen[q], plan'[q])
  PROVE  Typed'
<1>1. TypeOK'
  BY DEF Typed, TypeOK, Submit, Goto, data, ghosts
<1>2. /\ pc'[q] = l /\ job'[q] = j /\ seen'[q] = seen[q]
      /\ \A r \in Requests \ {q} : /\ pc'[r] = pc[r] /\ job'[r] = job[r]
                                   /\ seen'[r] = seen[r] /\ plan'[r] = plan[r]
  BY DEF Typed, TypeOK, Submit, Goto
<1>3. Control'
  BY <1>2, ControlStep DEF Typed
<1> QED
  BY <1>1, <1>3 DEF Typed

LEMMA StartTyped ==
  ASSUME Typed, NEW q \in Requests, Start(q) PROVE Typed'
<1> USE DEF Typed
<1>0. plan \in [Requests -> Plans \cup {None}] /\ today \in Nat /\ rows \subseteq Rows
  BY DEF TypeOK
<1>00. version \in Int
  BY DEF TypeOK
<1>1. ASSUME NEW pol \in Policies, StartRun(q, pol) PROVE Typed'
  <2> DEFINE j == [op |-> "run", policy |-> pol, targets |-> Orders, now |-> today]
  <2>1. j \in Jobs
    BY <1>0, CoreAssumption DEF Jobs
  <2>2. Fits("lock", j, seen[q], plan'[q])
    BY DEF Fits
  <2> QED
    BY <1>0, <1>1, <2>1, <2>2, SubmitTyped DEF StartRun, PCs
<1>2. ASSUME NEW pol \in Policies, NEW T \in SUBSET Orders, StartPreview(q, pol, T)
      PROVE  Typed'
  <2> DEFINE j == [op |-> "preview", policy |-> pol, targets |-> T, now |-> today]
  <2>1. j \in Jobs
    BY <1>0, CoreAssumption DEF Jobs
  <2>2. Fits("orders", j, seen[q], plan'[q])
    BY DEF Fits
  <2> QED
    BY <1>0, <1>2, <2>1, <2>2, SubmitTyped DEF StartPreview, PCs
<1>3. ASSUME NEW p \in Requests, StartApply(q, p) PROVE Typed'
  <2> DEFINE j == [op |-> "apply", preview |-> p, expect |-> preview[p].version,
                   torn |-> preview[p].torn, quiet |-> preview[p].quiet]
  <2>1. preview[p] \in Previews
    BY <1>3 DEF StartApply, TypeOK
  <2>2. j \in Jobs
    BY <2>1 DEF Previews, Jobs
  <2>3. /\ plan' \in [Requests -> Plans \cup {None}]
        /\ plan'[q] \in Plans
        /\ \A r \in Requests \ {q} : plan'[r] = plan[r]
    BY <1>0, <1>3, <2>1 DEF StartApply, Previews
  <2>4. Fits("lock", j, seen[q], plan'[q])
    BY <2>3 DEF Fits
  <2> QED
    BY <1>3, <2>2, <2>3, <2>4, SubmitTyped DEF StartApply, PCs
<1>4. ASSUME NEW o \in Orders, StartDelete(q, o) \/ StartIssueCancel(q, o)
      PROVE  Typed'
  <2> DEFINE j(op) == [op |-> op, order |-> o, expect |-> None]
  <2>1. j("delete") \in Jobs /\ j("issueCancel") \in Jobs
    BY DEF Jobs
  <2>2. /\ Fits("lock", j("delete"), seen[q], plan'[q])
        /\ Fits("cancel", j("issueCancel"), seen[q], plan'[q])
    BY DEF Fits
  <2>3. CASE StartDelete(q, o)
    BY <1>0, <2>1, <2>2, <2>3, SubmitTyped DEF StartDelete, PCs
  <2>4. CASE StartIssueCancel(q, o)
    BY <1>0, <2>1, <2>2, <2>4, SubmitTyped DEF StartIssueCancel, PCs
  <2> QED
    BY <1>4, <2>3, <2>4
<1>5. ASSUME NEW o \in Orders, NEW v \in Expectations, StartCancel(q, o, v)
      PROVE  Typed'
  <2> DEFINE j == [op |-> "cancel", order |-> o, expect |-> v]
  <2>1. j \in Jobs
    BY <1>00 DEF Jobs, Expectations
  <2>2. Fits("lock", j, seen[q], plan'[q])
    BY DEF Fits
  <2> QED
    BY <1>0, <1>5, <2>1, <2>2, SubmitTyped DEF StartCancel, PCs
<1>6. ASSUME StartDaily(q) PROVE Typed'
  <2> DEFINE j == [op |-> "daily", now |-> today]
  <2>1. j \in Jobs
    BY <1>0 DEF Jobs
  <2>2. Fits("lock", j, seen[q], plan'[q])
    BY DEF Fits
  <2> QED
    BY <1>0, <1>6, <2>1, <2>2, SubmitTyped DEF StartDaily, PCs
<1>7. ASSUME NEW c \in Cells, NEW v \in Expectations,
             \/ \E r \in rows : StartMove(q, r, c, v)
             \/ \E o \in Orders : StartPlace(q, o, c, v)
      PROVE  Typed'
  <2> DEFINE j(op, o, by) == [op |-> op, order |-> o, row |-> by, to |-> c, expect |-> v]
  <2>1. ASSUME NEW op \in {"move", "place"}, NEW o \in Orders,
               NEW by \in Requests \cup {None}
        PROVE  j(op, o, by) \in Jobs /\ Fits("precheck", j(op, o, by), seen[q], plan'[q])
    BY <1>00 DEF Jobs, Fits, Expectations
  <2>2. ASSUME NEW r \in rows, StartMove(q, r, c, v) PROVE Typed'
    <3>1. r.ord \in Orders /\ r.by \in Requests \cup {None}
      BY <1>0 DEF Rows
    <3> QED
      BY <1>0, <2>1, <2>2, <3>1, SubmitTyped DEF StartMove, PCs
  <2>3. ASSUME NEW o \in Orders, StartPlace(q, o, c, v) PROVE Typed'
    BY <1>0, <2>1, <2>3, SubmitTyped DEF StartPlace, PCs
  <2> QED
    BY <1>7, <2>2, <2>3
<1> QED
  BY <1>1, <1>2, <1>3, <1>4, <1>5, <1>6, <1>7 DEF Start

(* A request that has finished, or that has died, remembers nothing.       *)
LEMMA ForgetsTyped ==
  ASSUME Typed, NEW q \in Requests, NEW l \in {"done", "dead"}, Goto(q, l), Forgets(q)
  PROVE  /\ Control'
         /\ pc' \in [Requests -> PCs]
         /\ job' \in [Requests -> Jobs]
         /\ seen' \in [Requests -> Views \cup Rows \cup {None}]
         /\ plan' \in [Requests -> Plans \cup {None}]
<1>1. NoJob \in Jobs
  BY DEF NoJob, Jobs
<1>2. /\ pc' \in [Requests -> PCs]
      /\ job' \in [Requests -> Jobs]
      /\ seen' \in [Requests -> Views \cup Rows \cup {None}]
      /\ plan' \in [Requests -> Plans \cup {None}]
  BY <1>1 DEF Typed, TypeOK, Goto, Forgets, PCs
<1>3. \A r \in Requests \ {q} : /\ pc'[r] = pc[r] /\ job'[r] = job[r]
                                /\ seen'[r] = seen[r] /\ plan'[r] = plan[r]
  BY DEF Typed, TypeOK, Goto, Forgets
<1>4. pc'[q] = l
  BY DEF Typed, TypeOK, Goto
<1>5. Control'
  BY <1>3, <1>4, ControlStep DEF Typed, Fits
<1> QED
  BY <1>2, <1>5

(* A request goes to its next step with the job it has.                    *)
LEMMA GotoTyped ==
  ASSUME Typed, NEW q \in Requests, NEW l \in PCs, Goto(q, l),
         UNCHANGED <<job, seen, plan>>, Fits(l, job[q], seen[q], plan[q])
  PROVE  Control' /\ pc' \in [Requests -> PCs]
<1>1. pc' \in [Requests -> PCs] /\ pc'[q] = l /\ \A r \in Requests \ {q} : pc'[r] = pc[r]
  BY DEF Typed, TypeOK, Goto
<1>2. Control'
  BY <1>1, ControlStep DEF Typed
<1> QED
  BY <1>1, <1>2

(* What q fits now.                                                        *)
LEMMA Fitting ==
  ASSUME Typed, NEW q \in Requests
  PROVE  /\ Fits(pc[q], job[q], seen[q], plan[q])
         /\ job[q] \in Jobs
BY DEF Typed, TypeOK, Control

LEMMA LockingTyped ==
  ASSUME Typed, NEW q \in Requests, TakeLock(q) \/ Refused(q) \/ Unlock(q)
  PROVE  Typed'
<1>1. CASE TakeLock(q)
  <2>1. holder' \in [{Type} -> Requests \cup {None}]
    BY <1>1 DEF TakeLock, Lock!Grant, Typed, TypeOK
  <2>2. /\ AfterLock(job[q].op) \in PCs
        /\ Fits(AfterLock(job[q].op), job[q], seen[q], plan[q])
    BY <1>1, Fitting DEF TakeLock, Fits, AfterLock, PCs
  <2>3. Control' /\ pc' \in [Requests -> PCs]
    BY <1>1, <2>2, GotoTyped DEF TakeLock
  <2> QED
    BY <1>1, <2>1, <2>3 DEF TakeLock, Typed, TypeOK, data, ghosts
<1>2. CASE Refused(q)
  BY <1>2, ForgetsTyped DEF Refused, Typed, TypeOK, data, ghosts
<1>3. CASE Unlock(q)
  <2>1. holder' \in [{Type} -> Requests \cup {None}]
    BY <1>3 DEF Unlock, Lock!Free, Typed, TypeOK
  <2> QED
    BY <1>3, <2>1, ForgetsTyped DEF Unlock, Typed, TypeOK, data, ghosts
<1> QED
  BY <1>1, <1>2, <1>3

LEMMA EngineTyped ==
  ASSUME Typed, NEW q \in Requests,
         ReadOrders(q) \/ Plan(q) \/ StorePreview(q) \/ CheckVersion(q)
  PROVE  Typed'
<1>1. CASE ReadOrders(q)
  <2> DEFINE v == [ord |-> ord, rows |-> rows, basis |-> edits]
  <2>1. v \in Views
    BY DEF Views, Typed, TypeOK
  <2>2. seen' \in [Requests -> Views \cup Rows \cup {None}] /\ pc' \in [Requests -> PCs]
    BY <1>1, <2>1 DEF ReadOrders, Goto, PCs, Typed, TypeOK
  <2>3. /\ pc'[q] = "plan" /\ seen'[q] = v /\ job'[q] = job[q]
        /\ \A r \in Requests \ {q} : /\ pc'[r] = pc[r] /\ job'[r] = job[r]
                                     /\ seen'[r] = seen[r] /\ plan'[r] = plan[r]
    BY <1>1 DEF ReadOrders, Goto, Typed, TypeOK
  <2>4. Fits(pc'[q], job'[q], seen'[q], plan'[q])
    BY <1>1, <2>1, <2>3, Fitting DEF ReadOrders, Fits
  <2>5. Control'
    BY <2>3, <2>4, ControlStep DEF Typed
  <2> QED
    BY <1>1, <2>2, <2>5 DEF ReadOrders, Typed, TypeOK, data, ghosts
<1>2. CASE Plan(q)
  <2>1. job[q] \in Jobs /\ job[q].op \in {"run", "preview"} /\ seen[q] \in Views
    BY <1>2, Fitting DEF Plan, Fits
  <2>2. PICK p \in Engine(seen[q], job[q]) : plan' = [plan EXCEPT ![q] = p]
    BY <1>2 DEF Plan
  <2>3. p \in Plans
    BY <2>1, EngineType DEF Typed, TypeOK
  <2>4. /\ seen' \in [Requests -> Views \cup Rows \cup {None}]
        /\ plan' \in [Requests -> Plans \cup {None}]
        /\ pc' \in [Requests -> PCs]
    BY <1>2, <2>2, <2>3 DEF Plan, Goto, PCs, Typed, TypeOK
  <2>5. /\ pc'[q] = IF job[q].op = "run" THEN "commit" ELSE "version"
        /\ plan'[q] = p /\ job'[q] = job[q]
        /\ \A r \in Requests \ {q} : /\ pc'[r] = pc[r] /\ job'[r] = job[r]
                                     /\ seen'[r] = seen[r] /\ plan'[r] = plan[r]
    BY <1>2, <2>2 DEF Plan, Goto, Typed, TypeOK
  <2>6. Fits(pc'[q], job'[q], seen'[q], plan'[q])
    BY <2>1, <2>3, <2>5 DEF Fits
  <2>7. Control'
    BY <2>5, <2>6, ControlStep DEF Typed
  <2> QED
    BY <1>2, <2>4, <2>7 DEF Plan, Typed, TypeOK, data, ghosts
<1>3. CASE StorePreview(q)
  <2>1. plan[q] \in Plans
    BY <1>3, Fitting DEF StorePreview, Fits
  <2>2. [plan |-> plan[q], version |-> version,
         torn |-> edits # plan[q].basis, quiet |-> quiet] \in Previews
    BY <2>1 DEF Previews, Typed, TypeOK
  <2>3. preview' \in [Requests -> Previews \cup {None}]
    BY <1>3, <2>2 DEF StorePreview, Typed, TypeOK
  <2> QED
    BY <1>3, <2>3, ForgetsTyped DEF StorePreview, Typed, TypeOK, data, ghosts
<1>4. CASE CheckVersion(q)
  <2> DEFINE l == IF job[q].expect \notin Expectations THEN "unlock"
                  ELSE IF job[q].op = "cancel" THEN "cancel" ELSE "commit"
  <2>1. l \in PCs /\ Fits(l, job[q], seen[q], plan[q])
    BY <1>4, Fitting DEF CheckVersion, Fits, PCs
  <2>2. Control' /\ pc' \in [Requests -> PCs]
    BY <1>4, <2>1, GotoTyped DEF CheckVersion
  <2> QED
    BY <1>4, <2>2 DEF CheckVersion, Typed, TypeOK, data, ghosts
<1> QED
  BY <1>1, <1>2, <1>3, <1>4

LEMMA WriterTyped ==
  ASSUME Typed, NEW q \in Requests, Commit(q) \/ CancelTx(q) \/ DailyTx(q)
  PROVE  Typed'
<1>1. CASE Commit(q)
  <2> DEFINE p == plan[q]
             l == IF p.upd # {} THEN "bump"
                  ELSE IF job[q].op = "apply" THEN "settle" ELSE "unlock"
  <2>1. p \in Plans /\ job[q] \in Jobs /\ job[q].op \in {"run", "apply"}
    BY <1>1, Fitting DEF Commit, Fits
  <2>2. /\ p.place \subseteq [ord : Orders, cell : Cells]
        /\ p.left \in [Cells -> Int]
        /\ p.basis \in Nat
    BY <2>1 DEF Plans
  <2>3. rows' \subseteq Rows
    BY <1>1, <2>2 DEF Commit, Rows, AssignmentStatus, Typed, TypeOK
  <2>4. ord' \in [Orders -> OrderStatus]
    BY <1>1 DEF Commit, Rescheduled, OrderStatus, Typed, TypeOK
  <2>5. cap' \in [Cells -> Int \cup {None}]
    BY <1>1, <2>2 DEF Commit, Written, Typed, TypeOK
  <2>6. Control' /\ pc' \in [Requests -> PCs]
    <3>1. l \in PCs /\ Fits(l, job[q], seen[q], plan[q])
      BY <2>1 DEF Fits, PCs
    <3> QED
      BY <1>1, <3>1, GotoTyped DEF Commit
  <2>7. commits' \subseteq Commits
    <3> DEFINE c == [by |-> q,
                     preview |-> IF job[q].op = "apply" THEN job[q].preview ELSE None,
                     fresh |-> p.basis = edits,
                     torn |-> job[q].op = "apply" /\ job[q].torn,
                     quiet |-> job[q].op = "apply" /\ quiet # job[q].quiet]
    <3>1. commits' = commits \cup {c}
      BY <1>1 DEF Commit
    <3>2. (IF job[q].op = "apply" THEN job[q].preview ELSE None) \in Requests \cup {None}
      BY <2>1, ApplyJob
    <3>3. c \in Commits
      BY <3>2 DEF Commits
    <3> QED
      BY <3>1, <3>3 DEF Typed, TypeOK
  <2>8. edits' \in Nat /\ quiet' \in Nat
    BY <1>1 DEF Commit, Committed, Typed, TypeOK
  <2> QED
    BY <1>1, <2>3, <2>4, <2>5, <2>6, <2>7, <2>8 DEF Commit, Typed, TypeOK
<1>2. CASE CancelTx(q)
  <2> DEFINE o == job[q].order
             mine == {r \in rows : r.ord = o /\ r.st = "SCHEDULED"}
  <2>1. o \in Orders /\ job[q].op \in {"cancel", "delete", "issueCancel"}
    BY <1>2, Fitting, CancelJob DEF CancelTx, Fits
  <2>2. rows' \subseteq Rows
    <3>1. ASSUME NEW r \in Rows PROVE [r EXCEPT !.st = "CANCELLED"] \in Rows
      BY DEF Rows, AssignmentStatus
    <3> QED
      BY <1>2, <3>1 DEF CancelTx, Typed, TypeOK
  <2>3. ord' \in [Orders -> OrderStatus]
    BY <1>2 DEF CancelTx, OrderStatus, Typed, TypeOK
  <2>4. cap' \in [Cells -> Int \cup {None}]
    <3>1. cap' = [c \in Cells |->
                    IF RowsAt(mine, c) = {} THEN cap[c]
                    ELSE Adjust(cap, c, Cardinality(RowsAt(mine, c)))[c]]
      BY <1>2 DEF CancelTx
    <3>2. ASSUME NEW c \in Cells
          PROVE  Adjust(cap, c, Cardinality(RowsAt(mine, c)))[c] \in Int
      <4>1. RowsAt(mine, c) \in SUBSET Rows
        BY DEF RowsAt, Typed, TypeOK
      <4>2. Cardinality(RowsAt(mine, c)) \in Int
        BY <4>1, CountRows
      <4> QED
        BY <4>2, AdjustType DEF Typed, TypeOK
    <3> QED
      BY <3>1, <3>2 DEF Typed, TypeOK
  <2>5. edits' \in Nat /\ quiet' \in Nat
    BY <1>2 DEF CancelTx, Committed, Typed, TypeOK
  <2>6. /\ Control' /\ pc' \in [Requests -> PCs] /\ job' \in [Requests -> Jobs]
        /\ seen' \in [Requests -> Views \cup Rows \cup {None}]
        /\ plan' \in [Requests -> Plans \cup {None}]
    <3>1. CASE job[q].op = "issueCancel"
      BY <1>2, <3>1, ForgetsTyped DEF CancelTx
    <3>2. CASE job[q].op # "issueCancel"
      <4>1. "bump" \in PCs /\ Fits("bump", job[q], seen[q], plan[q])
        BY DEF Fits, PCs
      <4>2. Goto(q, "bump") /\ UNCHANGED <<job, seen, plan>>
        BY <1>2, <3>2 DEF CancelTx
      <4> QED
        BY <4>1, <4>2, GotoTyped DEF Typed, TypeOK
    <3> QED
      BY <3>1, <3>2
  <2> QED
    BY <1>2, <2>2, <2>3, <2>4, <2>5, <2>6 DEF CancelTx, Typed, TypeOK
<1>3. CASE DailyTx(q)
  <2> DEFINE now == job[q].now
             ends == Completing(rows, now)
             starts == Starting(rows, now)
             advanced == (rows \ (ends \cup starts))
                         \cup {[r EXCEPT !.st = "COMPLETED"] : r \in ends}
                         \cup {[r EXCEPT !.st = "IN_PRODUCTION"] : r \in starts}
  <2>1. rows' \subseteq Rows
    <3>1. ASSUME NEW r \in Rows
          PROVE  /\ [r EXCEPT !.st = "COMPLETED"] \in Rows
                 /\ [r EXCEPT !.st = "IN_PRODUCTION"] \in Rows
      BY DEF Rows, AssignmentStatus
    <3>2. ends \subseteq rows /\ starts \subseteq rows
      BY DEF Completing, Starting
    <3>3. rows' = advanced
      BY <1>3 DEF DailyTx
    <3> QED
      BY <3>1, <3>2, <3>3 DEF Typed, TypeOK
  <2>2. ord' \in [Orders -> OrderStatus]
    BY <1>3 DEF DailyTx, OrderStatus, Typed, TypeOK
  <2>3. Control' /\ pc' \in [Requests -> PCs]
    <3>1. "unlock" \in PCs /\ Fits("unlock", job[q], seen[q], plan[q])
      BY DEF Fits, PCs
    <3> QED
      BY <1>3, <3>1, GotoTyped DEF DailyTx
  <2>4. edits' \in Nat /\ quiet' \in Nat
    BY <1>3 DEF DailyTx, Committed, Typed, TypeOK
  <2> QED
    BY <1>3, <2>1, <2>2, <2>3, <2>4 DEF DailyTx, Typed, TypeOK
<1> QED
  BY <1>1, <1>2, <1>3

LEMMA MoverTyped ==
  ASSUME Typed, NEW q \in Requests,
         Precheck(q) \/ Validate(q) \/ CheckRoom(q) \/ MoveTx(q) \/ PlaceTx(q)
  PROVE  Typed'
<1> USE Fitting
<1>1. CASE Precheck(q)
  <2>1. CASE Goto(q, "lock") /\ UNCHANGED <<job, seen, plan>>
    <3>1. "lock" \in PCs /\ Fits("lock", job[q], seen[q], plan[q])
      BY <1>1 DEF Precheck, Fits, PCs
    <3> QED
      BY <1>1, <2>1, <3>1, GotoTyped DEF Precheck, Typed, TypeOK, data, ghosts
  <2>2. CASE Goto(q, "done") /\ Forgets(q)
    BY <1>1, <2>2, ForgetsTyped DEF Precheck, Typed, TypeOK, data, ghosts
  <2> QED
    BY <1>1, <2>1, <2>2 DEF Precheck
<1>2. CASE Validate(q)
  <2>1. CASE \E r \in Movable(q) : seen' = [seen EXCEPT ![q] = r] /\ Goto(q, "capacity")
    <3>1. PICK r \in Movable(q) : seen' = [seen EXCEPT ![q] = r] /\ Goto(q, "capacity")
      BY <2>1
    <3>2. r \in Rows
      BY DEF Movable, Asked, Typed, TypeOK
    <3>3. seen' \in [Requests -> Views \cup Rows \cup {None}] /\ pc' \in [Requests -> PCs]
      BY <3>1, <3>2 DEF Goto, PCs, Typed, TypeOK
    <3>4. /\ pc'[q] = "capacity" /\ seen'[q] = r /\ job'[q] = job[q] /\ plan'[q] = plan[q]
          /\ \A s \in Requests \ {q} : /\ pc'[s] = pc[s] /\ job'[s] = job[s]
                                       /\ seen'[s] = seen[s] /\ plan'[s] = plan[s]
      BY <1>2, <3>1 DEF Validate, Goto, Typed, TypeOK
    <3>5. Fits("capacity", job[q], r, plan[q])
      BY <1>2, <3>2 DEF Validate, Fits
    <3>6. Control'
      BY <3>4, <3>5, ControlStep DEF Typed
    <3> QED
      BY <1>2, <3>3, <3>6 DEF Validate, Typed, TypeOK, data, ghosts
  <2>2. CASE /\ UNCHANGED seen
             /\ \/ Goto(q, "unlock")
                \/ Goto(q, "capacity") /\ job[q].op = "place"
    <3>1. /\ "unlock" \in PCs /\ Fits("unlock", job[q], seen[q], plan[q])
          /\ "capacity" \in PCs
          /\ job[q].op = "place" => Fits("capacity", job[q], seen[q], plan[q])
      BY DEF Fits, PCs
    <3>2. Control' /\ pc' \in [Requests -> PCs]
      BY <1>2, <2>2, <3>1, GotoTyped DEF Validate
    <3> QED
      BY <1>2, <2>2, <3>2 DEF Validate, Typed, TypeOK, data, ghosts
  <2> QED
    BY <1>2, <2>1, <2>2 DEF Validate
<1>3. CASE CheckRoom(q)
  <2>1. /\ "move" \in PCs /\ Fits("move", job[q], seen[q], plan[q])
        /\ "unlock" \in PCs /\ Fits("unlock", job[q], seen[q], plan[q])
    BY <1>3 DEF CheckRoom, Fits, PCs
  <2>2. Control' /\ pc' \in [Requests -> PCs]
    BY <1>3, <2>1, GotoTyped DEF CheckRoom
  <2> QED
    BY <1>3, <2>2 DEF CheckRoom, Typed, TypeOK, data, ghosts
<1>4. /\ "bump" \in PCs /\ Fits("bump", job[q], seen[q], plan[q])
      /\ "unlock" \in PCs /\ Fits("unlock", job[q], seen[q], plan[q])
  BY DEF Fits, PCs
<1>5. CASE MoveTx(q)
  <2>1. job[q].to \in Cells /\ seen[q] \in Rows
    BY <1>5, MoveJob DEF MoveTx, Fits
  <2>2. Control' /\ pc' \in [Requests -> PCs]
    BY <1>4, <1>5, GotoTyped DEF MoveTx
  <2>3. CASE Asked(q) = {}
    BY <1>5, <2>2, <2>3 DEF MoveTx, Typed, TypeOK, data, ghosts
  <2>4. CASE Asked(q) # {}
    <3>1. cap' \in [Cells -> Int \cup {None}]
      <4>1. seen[q].cell \in Cells
        BY <2>1 DEF Rows
      <4>2. cap \in [Cells -> Int \cup {None}]
        BY DEF Typed, TypeOK
      <4>3. Adjust(cap, seen[q].cell, 1) \in [Cells -> Int \cup {None}]
        BY <4>1, <4>2, AdjustType
      <4>4. Adjust(Adjust(cap, seen[q].cell, 1), job[q].to, -1) \in [Cells -> Int \cup {None}]
        BY <4>3, <2>1, AdjustType
      <4> QED
        BY <1>5, <2>4, <4>4 DEF MoveTx
    <3>2. rows' \subseteq Rows
      <4>1. ASSUME NEW r \in Rows PROVE [r EXCEPT !.cell = job[q].to] \in Rows
        BY <2>1 DEF Rows
      <4>2. Asked(q) \subseteq Rows /\ rows \subseteq Rows
        BY DEF Asked, Typed, TypeOK
      <4>3. rows' = (rows \ Asked(q)) \cup {[r EXCEPT !.cell = job[q].to] : r \in Asked(q)}
        BY <1>5, <2>4 DEF MoveTx
      <4> QED
        BY <4>1, <4>2, <4>3
    <3>3. edits' \in Nat /\ quiet' \in Nat
      BY <1>5, <2>4 DEF MoveTx, Committed, Typed, TypeOK
    <3> QED
      BY <1>5, <2>2, <2>4, <3>1, <3>2, <3>3 DEF MoveTx, Typed, TypeOK
  <2> QED
    BY <2>3, <2>4
<1>6. CASE PlaceTx(q)
  <2>1. job[q].to \in Cells /\ job[q].order \in Orders
    BY <1>6, MoveJob DEF PlaceTx
  <2>2. Control' /\ pc' \in [Requests -> PCs]
    BY <1>4, <1>6, GotoTyped DEF PlaceTx
  <2>3. cap' \in [Cells -> Int \cup {None}]
    BY <1>6, <2>1, AdjustType DEF PlaceTx, Typed, TypeOK
  <2>4. rows' \subseteq Rows
    BY <1>6, <2>1 DEF PlaceTx, Rows, AssignmentStatus, Typed, TypeOK
  <2>5. ord' \in [Orders -> OrderStatus]
    BY <1>6, <2>1 DEF PlaceTx, OrderStatus, Typed, TypeOK
  <2>6. edits' \in Nat /\ quiet' \in Nat
    BY <1>6 DEF PlaceTx, Committed, Typed, TypeOK
  <2> QED
    BY <1>6, <2>2, <2>3, <2>4, <2>5, <2>6 DEF PlaceTx, Typed, TypeOK
<1> QED
  BY <1>1, <1>2, <1>3, <1>5, <1>6

LEMMA EndTyped ==
  ASSUME Typed, NEW q \in Requests, Bump(q) \/ Settle(q) \/ ForgetPreview(q)
  PROVE  Typed'
<1>1. /\ "settle" \in PCs /\ "forget" \in PCs /\ "unlock" \in PCs
      /\ Fits("unlock", job[q], seen[q], plan[q])
      /\ job[q].op = "apply" => /\ Fits("settle", job[q], seen[q], plan[q])
                                /\ Fits("forget", job[q], seen[q], plan[q])
  BY DEF Fits, PCs
<1>2. CASE Bump(q)
  <2>1. Control' /\ pc' \in [Requests -> PCs]
    BY <1>1, <1>2, GotoTyped DEF Bump
  <2> QED
    BY <1>2, <2>1 DEF Bump, Typed, TypeOK, data, ghosts
<1>3. CASE Settle(q)
  <2>1. job[q].op = "apply"
    BY <1>3, Fitting DEF Settle, Fits
  <2>2. Control' /\ pc' \in [Requests -> PCs]
    BY <1>1, <1>3, <2>1, GotoTyped DEF Settle
  <2> QED
    BY <1>3, <2>2 DEF Settle, Typed, TypeOK, data, ghosts
<1>4. CASE ForgetPreview(q)
  <2>1. Control' /\ pc' \in [Requests -> PCs]
    BY <1>1, <1>4, GotoTyped DEF ForgetPreview
  <2>2. preview' \in [Requests -> Previews \cup {None}]
    BY <1>4 DEF ForgetPreview, Typed, TypeOK
  <2> QED
    BY <1>4, <2>1, <2>2 DEF ForgetPreview, Typed, TypeOK, data, ghosts
<1> QED
  BY <1>2, <1>3, <1>4

LEMMA FailureTyped ==
  ASSUME Typed, NEW q \in Requests, Crash(q) \/ Fail(q) PROVE Typed'
<1>1. /\ Stops(q)
      /\ \/ \E l \in {"dead", "done"} : Goto(q, l) /\ Forgets(q)
         \/ Goto(q, "unlock") /\ UNCHANGED <<job, seen, plan>>
  BY DEF Crash, Fail
<1>2. /\ Control' /\ pc' \in [Requests -> PCs] /\ job' \in [Requests -> Jobs]
      /\ seen' \in [Requests -> Views \cup Rows \cup {None}]
      /\ plan' \in [Requests -> Plans \cup {None}]
  <2>1. CASE \E l \in {"dead", "done"} : Goto(q, l) /\ Forgets(q)
    BY <2>1, ForgetsTyped
  <2>2. CASE Goto(q, "unlock") /\ UNCHANGED <<job, seen, plan>>
    <3>1. "unlock" \in PCs /\ Fits("unlock", job[q], seen[q], plan[q])
      BY DEF Fits, PCs
    <3> QED
      BY <2>2, <3>1, GotoTyped DEF Typed, TypeOK
  <2> QED
    BY <1>1, <2>1, <2>2
<1>3. quiet' \in Nat
  BY <1>1 DEF Stops, Typed, TypeOK
<1> QED
  BY <1>1, <1>2, <1>3 DEF Stops, Typed, TypeOK, data

LEMMA EnvironmentTyped ==
  ASSUME Typed, NewDay \/ Expire \/ UNCHANGED vars PROVE Typed'
<1>1. CASE NewDay
  BY <1>1 DEF NewDay, Typed, TypeOK, Control, data, ghosts
<1>2. CASE Expire
  BY <1>2 DEF Expire, Lock!Free, Typed, TypeOK, Control, data, ghosts
<1>3. CASE UNCHANGED vars
  BY <1>3 DEF vars, Typed, TypeOK, Control
<1> QED
  BY <1>1, <1>2, <1>3

LEMMA TypedStep == Typed /\ [Next]_vars => Typed'
<1> SUFFICES ASSUME Typed, [Next]_vars PROVE Typed'
  OBVIOUS
<1>1. ASSUME NEW q \in Requests, Step(q) PROVE Typed'
  BY <1>1, LockingTyped, EngineTyped, WriterTyped, MoverTyped, EndTyped DEF Step
<1>2. ASSUME NEW q \in Requests, Start(q) \/ Crash(q) \/ Fail(q) PROVE Typed'
  BY <1>2, StartTyped, FailureTyped
<1>3. CASE NewDay \/ Expire \/ UNCHANGED vars
  BY <1>3, EnvironmentTyped
<1> QED
  BY <1>1, <1>2, <1>3 DEF Next

(* Every request has what its next step needs: the plan it commits, the    *)
(* assignment it moves, the orders it schedules, and the tables and the    *)
(* stored previews keep their types.                                       *)
THEOREM TypeCorrect == Spec => []TypeOK
<1>1. Init => Typed
  BY InitTyped
<1>2. Typed => TypeOK
  BY DEF Typed
<1> QED
  BY <1>1, <1>2, TypedStep, PTL DEF Spec

-------------------------------------------------------------------------------
(***************************************************************************)
(* The lock.  A request is in a locked section exactly when it holds the   *)
(* key, except that one who died leaves its key behind.                    *)
(***************************************************************************)
Guarded ==
  \A q \in Requests : /\ Locked(q) => holder[Type] = q
                      /\ holder[Type] = q => Locked(q) \/ pc[q] = "dead"

(* The other requests are where they were.                                 *)
Others(q) == \A r \in Requests \ {q} : pc'[r] = pc[r] /\ job'[r] = job[r]

LEMMA GuardedKept ==
  ASSUME Guarded, NEW q \in Requests, Others(q), UNCHANGED holder,
         Locked(q)' => Locked(q),
         Locked(q) => Locked(q)' \/ pc'[q] = "dead",
         pc[q] = "dead" => pc'[q] = "dead"
  PROVE  Guarded'
<1> SUFFICES ASSUME NEW r \in Requests
             PROVE  /\ Locked(r)' => holder'[Type] = r
                    /\ holder'[Type] = r => Locked(r)' \/ pc'[r] = "dead"
  BY DEF Guarded
<1>1. CASE r = q
  BY <1>1 DEF Guarded
<1>2. CASE r # q
  <2>1. pc'[r] = pc[r] /\ job'[r] = job[r]
    BY <1>2 DEF Others
  <2>2. Locked(r)' = Locked(r)
    BY <2>1 DEF Locked
  <2> QED
    BY <2>1, <2>2 DEF Guarded
<1> QED
  BY <1>1, <1>2

LEMMA StartGuarded ==
  ASSUME Typed, Guarded, NEW q \in Requests, Start(q) PROVE Guarded'
<1>1. ASSUME NEW j, NEW l, Submit(q, j, l), l \in {"lock", "precheck", "orders", "cancel"},
             l = "orders" => j.op = "preview", l = "cancel" => j.op = "issueCancel"
      PROVE  Guarded'
  <2>1. /\ Others(q) /\ UNCHANGED holder /\ pc[q] = "idle"
        /\ pc'[q] = l /\ job'[q] = j
    BY <1>1 DEF Submit, Goto, Others, Typed, TypeOK
  <2>2. ~Locked(q) /\ ~Locked(q)' /\ pc[q] # "dead"
    BY <1>1, <2>1 DEF Locked
  <2> QED
    BY <2>1, <2>2, GuardedKept
<1> QED
  BY <1>1 DEF Start, StartRun, StartPreview, StartApply, StartCancel, StartDelete,
              StartIssueCancel, StartDaily, StartMove, StartPlace

(* The steps inside a locked section, and those outside of it.             *)
LEMMA StepGuarded ==
  ASSUME Typed, Guarded, NEW q \in Requests, Step(q) PROVE Guarded'
<1>0. /\ Fits(pc[q], job[q], seen[q], plan[q])
      /\ pc \in [Requests -> PCs] /\ job \in [Requests -> Jobs]
      /\ holder \in [{Type} -> Requests \cup {None}]
  BY Fitting DEF Typed, TypeOK
<1>1. CASE TakeLock(q)
  <2>1. /\ Others(q) /\ holder[Type] = None /\ holder'[Type] = q
        /\ pc[q] = "lock" /\ pc'[q] = AfterLock(job[q].op) /\ job'[q] = job[q]
    BY <1>0, <1>1 DEF TakeLock, Lock!Grant, Goto, Others
  <2>2. Locked(q)'
    BY <1>0, <2>1 DEF Locked, AfterLock, Fits
  <2>3. ASSUME NEW r \in Requests, r # q
        PROVE  ~Locked(r)' /\ holder'[Type] # r
    <3>1. ~Locked(r)
      BY <2>1, CoreAssumption DEF Guarded
    <3>2. pc'[r] = pc[r] /\ job'[r] = job[r]
      BY <2>1, <2>3 DEF Others
    <3> QED
      BY <2>1, <2>3, <3>1, <3>2 DEF Locked
  <2> QED
    BY <2>1, <2>2, <2>3 DEF Guarded
<1>2. CASE Unlock(q)
  <2>1. /\ Others(q) /\ holder'[Type] = None /\ pc[q] = "unlock" /\ pc'[q] = "done"
    BY <1>0, <1>2 DEF Unlock, Lock!Free, Goto, Forgets, Others
  <2>2. holder[Type] = q /\ ~Locked(q)'
    BY <2>1 DEF Guarded, Locked
  <2>3. ASSUME NEW r \in Requests, r # q PROVE ~Locked(r)'
    <3>1. ~Locked(r)
      BY <2>2, <2>3 DEF Guarded
    <3>2. pc'[r] = pc[r] /\ job'[r] = job[r]
      BY <2>1, <2>3 DEF Others
    <3> QED
      BY <3>1, <3>2 DEF Locked
  <2> QED
    BY <2>1, <2>2, <2>3, CoreAssumption DEF Guarded
<1>3. ASSUME UNCHANGED holder, Others(q), pc[q] # "dead", Locked(q)' = Locked(q)
      PROVE  Guarded'
  BY <1>3, GuardedKept
<1>4. CASE Refused(q) \/ StorePreview(q)
  <2>1. UNCHANGED holder /\ Others(q) /\ pc[q] \in {"lock", "version"} /\ pc'[q] = "done"
    BY <1>0, <1>4 DEF Refused, StorePreview, Goto, Forgets, Others
  <2> QED
    BY <1>3, <2>1 DEF Locked
<1>5. CASE Precheck(q)
  <2>1. UNCHANGED holder /\ Others(q) /\ pc[q] = "precheck" /\ pc'[q] \in {"lock", "done"}
    BY <1>0, <1>5 DEF Precheck, Goto, Forgets, Others
  <2> QED
    BY <1>3, <2>1 DEF Locked
<1>6. CASE ReadOrders(q) \/ Plan(q)
  <2>1. /\ UNCHANGED holder /\ Others(q) /\ job'[q] = job[q]
        /\ \/ pc[q] = "orders" /\ pc'[q] = "plan"
           \/ pc[q] = "plan" /\ job[q].op = "run" /\ pc'[q] = "commit"
           \/ pc[q] = "plan" /\ job[q].op # "run" /\ pc'[q] = "version"
    BY <1>0, <1>6 DEF ReadOrders, Plan, Goto, Others
  <2> QED
    BY <1>3, <2>1 DEF Locked
<1>7. CASE CancelTx(q)
  <2>1. /\ UNCHANGED holder /\ Others(q) /\ pc[q] = "cancel"
        /\ IF job[q].op = "issueCancel" THEN pc'[q] = "done"
           ELSE pc'[q] = "bump" /\ job'[q] = job[q]
    BY <1>0, <1>7 DEF CancelTx, Goto, Forgets, Others
  <2> QED
    BY <1>3, <2>1 DEF Locked
<1>8. CASE CheckVersion(q)
  <2>1. /\ UNCHANGED holder /\ Others(q) /\ job'[q] = job[q] /\ pc[q] = "check"
        /\ pc'[q] \in {"unlock", "cancel", "commit"}
        /\ pc'[q] = "cancel" => job[q].op = "cancel"
    BY <1>0, <1>8 DEF CheckVersion, Goto, Others
  <2> QED
    BY <1>3, <2>1 DEF Locked
<1>9. CASE \/ Commit(q) \/ DailyTx(q) \/ Validate(q) \/ CheckRoom(q) \/ MoveTx(q)
           \/ PlaceTx(q) \/ Bump(q) \/ Settle(q) \/ ForgetPreview(q)
  <2> DEFINE inside == {"commit", "daily", "validate", "capacity", "move", "bump",
                        "settle", "forget", "unlock"}
  <2>1. UNCHANGED holder /\ Others(q) /\ pc[q] \in inside /\ pc'[q] \in inside
    BY <1>0, <1>9 DEF Commit, DailyTx, Validate, CheckRoom, MoveTx, PlaceTx, Bump,
                      Settle, ForgetPreview, Goto, Others
  <2> QED
    BY <1>3, <2>1 DEF Locked
<1> QED
  BY <1>1, <1>2, <1>4, <1>5, <1>6, <1>7, <1>8, <1>9 DEF Step

LEMMA GuardedStep == Typed /\ Guarded /\ [Next]_vars => Guarded'
<1> SUFFICES ASSUME Typed, Guarded, [Next]_vars PROVE Guarded'
  OBVIOUS
<1>1. ASSUME NEW q \in Requests, Crash(q) \/ Fail(q) PROVE Guarded'
  <2>1. /\ UNCHANGED holder /\ Others(q) /\ pc[q] # "dead"
        /\ \/ pc'[q] = "dead"
           \/ pc'[q] = "unlock" /\ Locked(q)
           \/ pc'[q] = "done" /\ ~Locked(q)
    BY <1>1 DEF Crash, Fail, Stops, Goto, Forgets, Others, Typed, TypeOK
  <2> QED
    BY <2>1, GuardedKept DEF Locked
<1>2. CASE Expire
  <2>1. /\ holder'[Type] = None /\ UNCHANGED <<pc, job>>
        /\ holder[Type] \in Requests /\ pc[holder[Type]] = "dead"
    BY <1>2 DEF Expire, Lock!Free, Typed, TypeOK
  <2>2. ASSUME NEW r \in Requests PROVE ~Locked(r)
    BY <2>1 DEF Guarded, Locked
  <2> QED
    BY <2>1, <2>2, CoreAssumption DEF Guarded, Locked
<1>3. CASE NewDay \/ UNCHANGED vars
  BY <1>3 DEF NewDay, vars, Guarded, Locked
<1> QED
  BY <1>1, <1>2, <1>3, StartGuarded, StepGuarded DEF Next

LEMMA InitGuarded == Init => Guarded
BY CoreAssumption DEF Init, Guarded, Locked, Lock!NewLocks

(* No path through the refusals, the checks and the failures of a request  *)
(* ends with the key still taken: it is freed by its holder, or the holder *)
(* died.                                                                   *)
THEOREM LockIsReturned == Spec => []LockReturned
<1>1. Init => Typed /\ Guarded
  BY InitTyped, InitGuarded
<1>2. Typed /\ Guarded /\ [Next]_vars => Typed' /\ Guarded'
  BY TypedStep, GuardedStep
<1>3. Typed /\ Guarded => LockReturned
  <2> SUFFICES ASSUME Typed, Guarded, holder[Type] # None
               PROVE  pc[holder[Type]] # "done"
    BY DEF LockReturned
  <2>1. holder[Type] \in Requests
    BY DEF Typed, TypeOK
  <2> QED
    BY <2>1 DEF Guarded, Locked
<1> QED
  BY <1>1, <1>2, <1>3, PTL DEF Spec

-------------------------------------------------------------------------------
(***************************************************************************)
(* What the lock gives.  Without the cancellation from a conflict issue,   *)
(* every transaction runs with the lock in hand, so what a run has read is *)
(* still the state of the tables when it commits.                          *)
(***************************************************************************)
Permitted == \A q \in Requests : job[q].op \in Operations \cup {"none"}

LEMMA PermittedStep == Typed /\ Permitted /\ [Next]_vars => Permitted'
<1> SUFFICES ASSUME Typed, Permitted, [Next]_vars PROVE Permitted'
  OBVIOUS
<1> USE DEF Typed, TypeOK
<1>0. ASSUME NEW q \in Requests, NEW j, job' = [job EXCEPT ![q] = j],
             j.op \in Operations \cup {"none"}
      PROVE  Permitted'
  BY <1>0 DEF Permitted
<1>1. ASSUME NEW q \in Requests, NEW j, NEW l, Submit(q, j, l) PROVE Permitted'
  BY <1>0, <1>1 DEF Submit
<1>2. ASSUME NEW q \in Requests, Start(q) PROVE Permitted'
  BY <1>1, <1>2 DEF Start, StartRun, StartPreview, StartApply, StartCancel, StartDelete,
                    StartIssueCancel, StartDaily, StartMove, StartPlace
<1>3. ASSUME NEW q \in Requests, Forgets(q) PROVE Permitted'
  BY <1>0, <1>3 DEF Forgets, NoJob
<1>4. CASE UNCHANGED job
  BY <1>4 DEF Permitted
<1>5. ASSUME NEW q \in Requests, Step(q) \/ Crash(q) \/ Fail(q)
      PROVE  Forgets(q) \/ UNCHANGED job
  BY <1>5 DEF Step, Crash, Fail, TakeLock, Refused, Unlock, ReadOrders, Plan, StorePreview,
              CheckVersion, Commit, CancelTx, DailyTx, Precheck, Validate, CheckRoom,
              MoveTx, PlaceTx, Bump, Settle, ForgetPreview
<1>6. CASE NewDay \/ Expire \/ UNCHANGED vars
  BY <1>4, <1>6 DEF NewDay, Expire, vars
<1> QED
  BY <1>2, <1>3, <1>4, <1>5, <1>6 DEF Next

LEMMA InitPermitted == Init => Permitted
BY DEF Init, Permitted, NoJob

(* The tables change in a transaction, and only there; the request that    *)
(* runs it goes on to another step.                                        *)
Writes(q) == Commit(q) \/ CancelTx(q) \/ DailyTx(q) \/ MoveTx(q) \/ PlaceTx(q)

LEMMA OnlyWritersWrite ==
  ASSUME Typed, [Next]_vars, <<data, edits>>' # <<data, edits>>
  PROVE  \E q \in Requests : Writes(q) /\ pc'[q] # pc[q]
<1>1. PICK q \in Requests : Writes(q)
  BY DEF Next, Step, Start, StartRun, StartPreview, StartApply, StartCancel, StartDelete,
         StartIssueCancel, StartDaily, StartMove, StartPlace, Submit, Writes, Crash,
         Fail, Stops,
         TakeLock, Refused, Unlock, ReadOrders, Plan, StorePreview, CheckVersion,
         Precheck, Validate, CheckRoom, Bump, Settle, ForgetPreview, NewDay, Expire,
         vars, data, ghosts
<1>2. pc'[q] # pc[q]
  BY <1>1 DEF Writes, Commit, CancelTx, DailyTx, MoveTx, PlaceTx, Goto, Typed, TypeOK
<1> QED
  BY <1>1, <1>2

(* A transaction is run by the holder of the lock.                         *)
LEMMA WritersHold ==
  ASSUME "issueCancel" \notin Operations, Permitted, Guarded,
         NEW q \in Requests, Writes(q)
  PROVE  Locked(q) /\ holder[Type] = q
BY DEF Permitted, Guarded, Locked, Writes, Commit, CancelTx, DailyTx, MoveTx, PlaceTx

(* While one request holds the lock, no other one writes to the tables:    *)
(* true of every operation but the cancellation from a conflict issue.     *)
THEOREM WritesAreExcluded ==
  ASSUME "issueCancel" \notin Operations PROVE Spec => WritesExcluded
<1>1. Init => Typed /\ Guarded /\ Permitted
  BY InitTyped, InitGuarded, InitPermitted
<1>2. Typed /\ Guarded /\ Permitted /\ [Next]_vars => Typed' /\ Guarded' /\ Permitted'
  BY TypedStep, GuardedStep, PermittedStep
<1>3. Typed /\ Guarded /\ Permitted /\ [Next]_vars
        => [\A q \in Requests : holder[Type] = q /\ edits' # edits => pc'[q] # pc[q]]_vars
  <2> SUFFICES ASSUME Typed, Guarded, Permitted, [Next]_vars,
                      NEW q \in Requests, holder[Type] = q, edits' # edits
               PROVE  pc'[q] # pc[q]
    OBVIOUS
  <2>1. PICK r \in Requests : Writes(r) /\ pc'[r] # pc[r]
    BY OnlyWritersWrite
  <2>2. r = q
    BY <2>1, WritersHold
  <2> QED
    BY <2>1, <2>2
<1> QED
  BY <1>1, <1>2, <1>3, PTL DEF Spec, WritesExcluded

(* A request moves nobody but itself.                                      *)
LEMMA OthersStay ==
  ASSUME Typed, NEW q \in Requests, Start(q) \/ Step(q) \/ Crash(q) \/ Fail(q),
         NEW r \in Requests \ {q}
  PROVE  /\ pc'[r] = pc[r] /\ job'[r] = job[r]
         /\ seen'[r] = seen[r] /\ plan'[r] = plan[r]
<1> USE DEF Typed, TypeOK, Goto, Forgets
<1>1. CASE Start(q)
  BY <1>1 DEF Start, StartRun, StartPreview, StartApply, StartCancel, StartDelete,
              StartIssueCancel, StartDaily, StartMove, StartPlace, Submit
<1>2. CASE Crash(q) \/ Fail(q)
  BY <1>2 DEF Crash, Fail, Stops
<1>3. CASE TakeLock(q) \/ Refused(q) \/ Unlock(q) \/ ReadOrders(q) \/ StorePreview(q)
           \/ CheckVersion(q) \/ Commit(q) \/ CancelTx(q) \/ DailyTx(q)
  BY <1>3 DEF TakeLock, Refused, Unlock, ReadOrders, StorePreview, CheckVersion,
              Commit, CancelTx, DailyTx
<1>4. CASE Plan(q) \/ Precheck(q) \/ Validate(q) \/ CheckRoom(q) \/ MoveTx(q) \/ PlaceTx(q)
           \/ Bump(q) \/ Settle(q) \/ ForgetPreview(q)
  BY <1>4 DEF Plan, Precheck, Validate, CheckRoom, MoveTx, PlaceTx, Bump, Settle,
              ForgetPreview
<1> QED
  BY <1>1, <1>2, <1>3, <1>4 DEF Step

(* The only ways a run gets to the point where it plans, or commits.       *)
LEMMA RunReaches ==
  ASSUME Typed, NEW q \in Requests, Start(q) \/ Step(q) \/ Crash(q) \/ Fail(q),
         job'[q].op = "run", pc'[q] \in {"plan", "commit"}
  PROVE  ReadOrders(q) \/ Plan(q)
<1> USE DEF Typed, TypeOK, Goto
<1>0. Fits(pc[q], job[q], seen[q], plan[q])
  BY Fitting
<1>1. ~Start(q) /\ ~Crash(q) /\ ~Fail(q)
  BY DEF Start, StartRun, StartPreview, StartApply, StartCancel, StartDelete, Crash, Fail,
         StartIssueCancel, StartDaily, StartMove, StartPlace, Submit
<1>2. ~TakeLock(q) /\ ~CheckVersion(q)
  BY <1>0 DEF TakeLock, CheckVersion, AfterLock, Fits
<1>3. /\ ~Refused(q) /\ ~Unlock(q) /\ ~StorePreview(q) /\ ~Commit(q) /\ ~CancelTx(q)
      /\ ~DailyTx(q) /\ ~Precheck(q) /\ ~Validate(q) /\ ~CheckRoom(q)
  BY DEF Refused, Unlock, StorePreview, Commit, CancelTx, DailyTx, Precheck, Validate,
         CheckRoom
<1>4. ~MoveTx(q) /\ ~PlaceTx(q) /\ ~Bump(q) /\ ~Settle(q) /\ ~ForgetPreview(q)
  BY DEF MoveTx, PlaceTx, Bump, Settle, ForgetPreview
<1> QED
  BY <1>1, <1>2, <1>3, <1>4 DEF Step

(* The state of the tables as the engine reads it.  What a run has read,   *)
(* and then what it has computed, is about that state and no older one.    *)
Tables == [ord |-> ord, rows |-> rows, basis |-> edits]

Faithful ==
  \A q \in Requests : job[q].op = "run" =>
    /\ pc[q] = "plan" => seen[q] = Tables
    /\ pc[q] = "commit" => plan[q] \in Engine(Tables, job[q])

(* While q holds the lock and does not write itself, nothing is written.   *)
LEMMA HeldStill ==
  ASSUME "issueCancel" \notin Operations, Typed, Guarded, Permitted, [Next]_vars,
         NEW q \in Requests, Locked(q), ~Writes(q)
  PROVE  UNCHANGED <<ord, rows, cap, edits>>
<1>1. CASE <<data, edits>>' # <<data, edits>>
  <2>1. PICK r \in Requests : Writes(r)
    BY <1>1, OnlyWritersWrite
  <2>2. r = q
    BY <2>1, WritersHold DEF Guarded
  <2> QED
    BY <2>1, <2>2
<1>2. CASE <<data, edits>>' = <<data, edits>>
  BY <1>2 DEF data
<1> QED
  BY <1>1, <1>2

LEMMA FaithfulStep ==
  ASSUME "issueCancel" \notin Operations, Typed, Guarded, Permitted, Faithful, [Next]_vars
  PROVE  Faithful'
<1> SUFFICES ASSUME NEW q \in Requests, job'[q].op = "run", pc'[q] \in {"plan", "commit"}
             PROVE  /\ pc'[q] = "plan" => seen'[q] = Tables'
                    /\ pc'[q] = "commit" => plan'[q] \in Engine(Tables, job[q])'
  BY DEF Faithful
<1>1. CASE ReadOrders(q)
  BY <1>1 DEF ReadOrders, Goto, Typed, TypeOK, Tables, data, ghosts
<1>2. CASE Plan(q)
  <2>1. /\ job[q].op = "run" /\ pc[q] = "plan" /\ pc'[q] = "commit"
        /\ job'[q] = job[q] /\ UNCHANGED <<ord, rows, cap, edits>>
    BY <1>2 DEF Plan, Goto, Typed, TypeOK, data, ghosts
  <2>2. PICK p \in Engine(seen[q], job[q]) : plan' = [plan EXCEPT ![q] = p]
    BY <1>2 DEF Plan
  <2>3. p \in Engine(Tables, job[q]) /\ plan'[q] = p
    BY <2>1, <2>2 DEF Faithful, Typed, TypeOK
  <2>4. Engine(Tables, job[q])' = Engine(Tables, job[q])
    BY <2>1 DEF Engine, FirstFit, Result, Left, Base, Known, Tables
  <2> QED
    BY <2>1, <2>3, <2>4
<1>3. CASE ~ReadOrders(q) /\ ~Plan(q)
  <2>1. ~(Start(q) \/ Step(q) \/ Crash(q) \/ Fail(q))
    BY <1>3, RunReaches
  <2>2. /\ pc'[q] = pc[q] /\ job'[q] = job[q]
        /\ seen'[q] = seen[q] /\ plan'[q] = plan[q]
    <3>1. CASE NewDay \/ Expire \/ UNCHANGED vars
      BY <3>1 DEF NewDay, Expire, vars
    <3> QED
      BY <2>1, <3>1, OthersStay DEF Next
  <2>3. Locked(q) /\ ~Writes(q)
    BY <2>1, <2>2 DEF Locked, Writes, Step
  <2>4. UNCHANGED <<ord, rows, cap, edits>>
    BY <2>3, HeldStill
  <2>5. Engine(Tables, job[q])' = Engine(Tables, job[q])
    BY <2>2, <2>4 DEF Engine, FirstFit, Result, Left, Base, Known, Tables
  <2> QED
    BY <2>2, <2>4, <2>5 DEF Faithful, Tables
<1> QED
  BY <1>1, <1>2, <1>3

LEMMA FaithfulIsFresh ==
  ASSUME Typed, Faithful PROVE RunCommitsFresh
<1> SUFFICES ASSUME NEW q \in Requests, pc[q] = "commit", job[q].op = "run"
             PROVE  plan[q].basis = edits
  BY DEF RunCommitsFresh
<1>1. plan[q] \in Engine(Tables, job[q])
  BY DEF Faithful
<1>2. Tables \in Views /\ job[q] \in Jobs
  BY DEF Tables, Views, Typed, TypeOK
<1>3. plan[q].basis = Tables.basis
  BY <1>1, <1>2, EngineType DEF Typed, TypeOK
<1> QED
  BY <1>3 DEF Tables

(* What the engine returns to a run is committed on the very state it was  *)
(* computed from: no read of the run is stale when its transaction writes. *)
THEOREM RunsCommitFresh ==
  ASSUME "issueCancel" \notin Operations PROVE Spec => []RunCommitsFresh
<1> DEFINE Inv == Typed /\ Guarded /\ Permitted /\ Faithful
<1>1. Init => Inv
  BY InitTyped, InitGuarded, InitPermitted DEF Init, Faithful
<1>2. Inv /\ [Next]_vars => Inv'
  BY TypedStep, GuardedStep, PermittedStep, FaithfulStep
<1>3. Inv => RunCommitsFresh
  BY FaithfulIsFresh
<1> QED
  BY <1>1, <1>2, <1>3, PTL DEF Spec

-------------------------------------------------------------------------------
(***************************************************************************)
(* The ledger of ScheduleCore, for any orders, factories, requests,        *)
(* policies and bounds: as long as every transaction runs with the lock in *)
(* hand and on the state it was computed from (no apply of a preview, no   *)
(* cancellation from a conflict issue), capacities and assignments balance *)
(* and no order is assigned twice, what the schedule says of an order      *)
(* agrees with its assignments, and what must stay in place does.          *)
(***************************************************************************)

(***************************************************************************)
(* The invariant.  CapacityLedger is not inductive: it must be known that  *)
(* a row is new when it is written (Keyed, Signed), that a pending order   *)
(* has none (Unplaced), that a cell without a capacity row has not even a  *)
(* cancelled assignment (Balanced), and that what a manual move has read   *)
(* and checked still holds when its transaction writes (Moving).           *)
(***************************************************************************)
Keyed == \A r, s \in rows : r.ord = s.ord /\ r.by = s.by => r = s

After == {"bump", "settle", "forget", "unlock", "done", "dead"}
Signed == \A r \in rows : r.by \in Requests => pc[r.by] \in After

Unplaced == \A r \in rows : ord[r.ord] # "PENDING"

Used(c) == Cardinality(RowsAt(Live(rows), c))
Entry(c) ==
  IF cap[c] = None THEN RowsAt(rows, c) = {}
  ELSE 0 <= cap[c] /\ cap[c] + Used(c) = MaxCapacity
Balanced == \A c \in Cells : Entry(c)

Moving ==
  \A q \in Requests : pc[q] \in {"capacity", "move"} =>
    /\ job[q].op = "move" => seen[q] \in Movable(q)
    /\ job[q].op = "place" => ord[job[q].order] = "PENDING"
    /\ pc[q] = "move" => Adjust(cap, job[q].to, -1)[job[q].to] >= 0

Booked == Keyed /\ Signed /\ Unplaced /\ Balanced /\ NoDoubleAssignment

-------------------------------------------------------------------------------
(* Counting rows.                                                          *)

LEMMA CountChange ==
  ASSUME NEW A \in SUBSET Rows, NEW B \in SUBSET A, NEW D \in SUBSET Rows, A \cap D = {}
  PROVE  Cardinality((A \ B) \cup D) = Cardinality(A) - Cardinality(B) + Cardinality(D)
<1>1. IsFiniteSet(A) /\ IsFiniteSet(B) /\ IsFiniteSet(D)
  BY CountRows
<1>2. IsFiniteSet(A \ B) /\ Cardinality(A \ B) = Cardinality(A) - Cardinality(B)
  <2>1. A \cap B = B
    OBVIOUS
  <2> QED
    BY <1>1, <2>1, FS_Difference
<1>3. (A \ B) \cap D = {}
  OBVIOUS
<1>4. /\ Cardinality((A \ B) \cup D) = Cardinality(A \ B) + Cardinality(D) - Cardinality({})
      /\ Cardinality({}) = 0
  BY <1>1, <1>2, <1>3, FS_Union, FS_EmptySet
<1>5. Cardinality(A) \in Nat /\ Cardinality(B) \in Nat /\ Cardinality(D) \in Nat
  BY CountRows
<1> QED
  BY <1>2, <1>4, <1>5

(* The live rows B go, the live rows D come: what that means in a cell.    *)
LEMMA UsedChange ==
  ASSUME rows \in SUBSET Rows, NEW c \in Cells,
         NEW B \in SUBSET Live(rows), NEW D \in SUBSET Rows, Live(rows) \cap D = {},
         Live(rows)' = (Live(rows) \ B) \cup D
  PROVE  /\ Used(c)' = Used(c) - Cardinality(RowsAt(B, c)) + Cardinality(RowsAt(D, c))
         /\ Used(c) \in Nat
         /\ Cardinality(RowsAt(B, c)) \in Nat
         /\ Cardinality(RowsAt(D, c)) \in Nat
         /\ Cardinality(RowsAt(B, c)) <= Used(c)
<1> DEFINE A == RowsAt(Live(rows), c)
           b == RowsAt(B, c)
           d == RowsAt(D, c)
<1>1. A \in SUBSET Rows /\ b \in SUBSET A /\ d \in SUBSET Rows /\ A \cap d = {}
  BY DEF RowsAt, Live
<1>2. RowsAt(Live(rows), c)' = (A \ b) \cup d
  BY DEF RowsAt
<1>3. Cardinality((A \ b) \cup d) = Cardinality(A) - Cardinality(b) + Cardinality(d)
  BY <1>1, CountChange
<1>4. Cardinality(b) <= Cardinality(A)
  BY <1>1, CountRows, FS_Subset
<1> QED
  BY <1>1, <1>2, <1>3, <1>4, CountRows DEF Used

(* One row for each of some orders, in a cell.                             *)
New(o, c, q) == [ord |-> o, cell |-> c, st |-> "SCHEDULED", by |-> q]

LEMMA CountNew ==
  ASSUME NEW S \in SUBSET Orders, NEW c, NEW q
  PROVE  Cardinality({New(o, c, q) : o \in S}) = Cardinality(S)
<1> DEFINE T == {New(o, c, q) : o \in S}
           f == [o \in S |-> New(o, c, q)]
<1>1. f \in [S -> T]
  OBVIOUS
<1>2. \A o, u \in S : f[o] = f[u] => o = u
  BY DEF New
<1>3. \A t \in T : \E o \in S : f[o] = t
  OBVIOUS
<1>4. f \in Bijection(S, T)
  BY <1>1, <1>2, <1>3, Fun_IsBij
<1>5. ExistsBijection(S, T)
  BY <1>4 DEF ExistsBijection
<1> QED
  BY <1>5, CountOrders, FS_Bijection

-------------------------------------------------------------------------------
(* Rows whose order and whose writer stay.                                 *)

LEMMA Relabelled ==
  ASSUME Keyed, NEW g, rows' = {g[r] : r \in rows},
         \A r \in rows : /\ g[r].ord = r.ord /\ g[r].by = r.by
                         /\ g[r].st # "CANCELLED" => r.st # "CANCELLED"
  PROVE  Keyed' /\ (NoDoubleAssignment => NoDoubleAssignment')
<1>1. Keyed'
  BY DEF Keyed
<1>2. ASSUME NoDoubleAssignment, NEW r \in Live(rows)', NEW s \in Live(rows)', r.ord = s.ord
      PROVE  r = s
  <2>1. PICK a \in rows : r = g[a]
    BY <1>2 DEF Live
  <2>2. PICK b \in rows : s = g[b]
    BY <1>2 DEF Live
  <2>3. a \in Live(rows) /\ b \in Live(rows) /\ a.ord = b.ord
    BY <1>2, <2>1, <2>2 DEF Live
  <2> QED
    BY <1>2, <2>1, <2>2, <2>3 DEF NoDoubleAssignment
<1> QED
  BY <1>1, <1>2 DEF NoDoubleAssignment

(* A transaction writes in the name of its request only.                   *)
LEMMA SignedWrite ==
  ASSUME Typed, Signed, NEW q \in Requests, Writes(q),
         \A r \in rows' : r.by = q \/ \E s \in rows : s.by = r.by
  PROVE  Signed'
<1>1. pc'[q] \in After /\ \A r \in Requests \ {q} : pc'[r] = pc[r]
  <2> USE DEF Typed, TypeOK, Goto
  <2>1. pc'[q] \in After
    BY DEF Writes, Commit, CancelTx, DailyTx, MoveTx, PlaceTx, After
  <2>2. \A r \in Requests \ {q} : pc'[r] = pc[r]
    BY DEF Writes, Commit, CancelTx, DailyTx, MoveTx, PlaceTx
  <2> QED
    BY <2>1, <2>2
<1> QED
  BY <1>1 DEF Signed

(* Whoever has written stays behind its transaction.                       *)
LEMMA AfterStays ==
  ASSUME Typed, [Next]_vars, NEW r \in Requests, pc[r] \in After
  PROVE  pc'[r] \in After
<1> USE DEF Typed, TypeOK, Goto, After
<1>1. CASE Start(r) \/ Step(r) \/ Crash(r) \/ Fail(r)
  <2>1. ~Start(r)
    BY DEF Start, StartRun, StartPreview, StartApply, StartCancel, StartDelete,
           StartIssueCancel, StartDaily, StartMove, StartPlace, Submit
  <2>2. CASE Crash(r) \/ Fail(r)
    BY <2>2 DEF Crash, Fail
  <2>3. CASE Step(r)
    BY <2>3 DEF Step, TakeLock, Refused, Unlock, ReadOrders, Plan, StorePreview,
                CheckVersion, Commit, CancelTx, DailyTx, Precheck, Validate, CheckRoom,
                MoveTx, PlaceTx, Bump, Settle, ForgetPreview
  <2> QED
    BY <1>1, <2>1, <2>2, <2>3
<1>2. ASSUME NEW q \in Requests \ {r}, Start(q) \/ Step(q) \/ Crash(q) \/ Fail(q)
      PROVE  pc'[r] = pc[r]
  BY <1>2, OthersStay
<1>3. CASE NewDay \/ Expire \/ UNCHANGED vars
  BY <1>3 DEF NewDay, Expire, vars
<1> QED
  BY <1>1, <1>2, <1>3 DEF Next

-------------------------------------------------------------------------------
(* The transactions keep the books.                                        *)

LEMMA CancelBooked ==
  ASSUME Typed, Booked, NEW q \in Requests, CancelTx(q) PROVE Booked'
<1> DEFINE o == job[q].order
           mine == {r \in rows : r.ord = o /\ r.st = "SCHEDULED"}
           g == [r \in rows |-> IF r \in mine THEN [r EXCEPT !.st = "CANCELLED"] ELSE r]
<1>0. rows \in SUBSET Rows /\ ord \in [Orders -> OrderStatus] /\ o \in Orders
  BY CancelJob, Fitting DEF CancelTx, Typed, TypeOK, Fits
<1>1. rows' = (rows \ mine) \cup {[r EXCEPT !.st = "CANCELLED"] : r \in mine}
  BY DEF CancelTx
<1>2. rows' = {g[r] : r \in rows}
  BY <1>1
<1>3. \A r \in rows : /\ g[r].ord = r.ord /\ g[r].by = r.by /\ g[r].cell = r.cell
                      /\ g[r].st # "CANCELLED" => r.st # "CANCELLED"
  BY <1>0 DEF Rows
<1>4. Keyed' /\ NoDoubleAssignment'
  <2> HIDE DEF g
  <2> QED
    BY <1>2, <1>3, Relabelled DEF Booked
<1>5. Signed'
  <2>1. \A r \in rows' : \E s \in rows : s.by = r.by
    <3> HIDE DEF g
    <3> QED
      BY <1>2, <1>3
  <2> QED
    BY <2>1, SignedWrite DEF Booked, Writes
<1>6. Unplaced'
  <2>1. ord' = [ord EXCEPT ![o] = "CANCELLED"]
    BY DEF CancelTx
  <2>2. \A r \in rows' : \E s \in rows : s.ord = r.ord
    <3> HIDE DEF g
    <3> QED
      BY <1>2, <1>3
  <2> QED
    BY <1>0, <2>1, <2>2 DEF Booked, Unplaced, Rows
<1>7. Balanced'
  <2> SUFFICES ASSUME NEW c \in Cells PROVE Entry(c)'
    BY DEF Balanced
  <2> DEFINE n == Cardinality(RowsAt(mine, c))
  <2>1. Entry(c) /\ cap \in [Cells -> Int \cup {None}] /\ MaxCapacity \in Nat /\ None \notin Int
    BY CoreAssumption DEF Booked, Balanced, Typed, TypeOK
  <2>2. Live(rows)' = (Live(rows) \ mine) \cup {}
    BY <1>0, <1>1 DEF Live, Rows
  <2>3. mine \in SUBSET Live(rows) /\ Cardinality({}) = 0
    BY FS_EmptySet DEF Live
  <2>4. Used(c)' = Used(c) - n /\ Used(c) \in Nat /\ n \in Nat /\ n <= Used(c)
    <3>1. {} \in SUBSET Rows /\ Live(rows) \cap {} = {}
      OBVIOUS
    <3>2. /\ Used(c)' = Used(c) - n + Cardinality(RowsAt({}, c))
          /\ Used(c) \in Nat /\ n \in Nat /\ n <= Used(c)
      BY <1>0, <2>2, <2>3, <3>1, UsedChange
    <3>3. RowsAt({}, c) = {}
      BY DEF RowsAt
    <3>4. Cardinality(RowsAt({}, c)) = 0
      BY <2>3, <3>3
    <3>5. Used(c) - n + 0 = Used(c) - n
      BY <3>2
    <3> QED
      BY <3>2, <3>4, <3>5
  <2>5. cap'[c] = IF RowsAt(mine, c) = {} THEN cap[c] ELSE Adjust(cap, c, n)[c]
    BY DEF CancelTx
  <2>6. CASE cap[c] = None
    <3>1. RowsAt(rows, c) = {}
      BY <2>1, <2>6 DEF Entry
    <3>2. RowsAt(mine, c) = {} /\ RowsAt(rows, c)' = {}
      BY <1>0, <1>1, <3>1 DEF RowsAt, Rows
    <3> QED
      BY <2>5, <2>6, <3>2 DEF Entry
  <2>7. CASE cap[c] # None
    <3>1. cap[c] \in Int
      BY <2>1, <2>7
    <3>2. 0 <= cap[c] /\ cap[c] + Used(c) = MaxCapacity
      BY <2>1, <2>7 DEF Entry
    <3>3. RowsAt(mine, c) = {} => n = 0
      BY <2>3
    <3>4. cap'[c] = cap[c] + n
      BY <2>1, <2>4, <2>5, <2>7, <3>1, <3>3 DEF Adjust
    <3> QED
      BY <2>1, <2>4, <3>1, <3>2, <3>4 DEF Entry
  <2> QED
    BY <2>6, <2>7
<1> QED
  BY <1>4, <1>5, <1>6, <1>7 DEF Booked

(* Rows that stay where they are and alive count as before.                *)
LEMMA Recounted ==
  ASSUME rows \in SUBSET Rows, Keyed, NEW g, rows' = {g[r] : r \in rows},
         \A r \in rows : /\ g[r].ord = r.ord /\ g[r].by = r.by /\ g[r].cell = r.cell
                         /\ g[r].st # "CANCELLED" <=> r.st # "CANCELLED",
         NEW c \in Cells
  PROVE  /\ Used(c)' = Used(c)
         /\ RowsAt(rows, c) = {} => RowsAt(rows, c)' = {}
<1> DEFINE A == RowsAt(Live(rows), c)
           B == RowsAt(Live(rows), c)'
           f == [r \in A |-> g[r]]
<1>1. f \in [A -> B]
  BY DEF RowsAt, Live
<1>2. \A r, s \in A : f[r] = f[s] => r = s
  BY DEF Keyed, RowsAt, Live
<1>3. \A t \in B : \E r \in A : f[r] = t
  BY DEF RowsAt, Live
<1>4. ExistsBijection(A, B)
  <2>1. f \in Bijection(A, B)
    BY <1>1, <1>2, <1>3, Fun_IsBij
  <2> QED
    BY <2>1 DEF ExistsBijection
<1>5. A \in SUBSET Rows
  BY DEF RowsAt, Live
<1>6. Cardinality(B) = Cardinality(A)
  BY <1>4, <1>5, CountRows, FS_Bijection
<1>7. RowsAt(rows, c) = {} => RowsAt(rows, c)' = {}
  BY DEF RowsAt
<1> QED
  BY <1>6, <1>7 DEF Used

LEMMA DailyBooked ==
  ASSUME Typed, Booked, NEW q \in Requests, DailyTx(q) PROVE Booked'
<1> DEFINE now == job[q].now
           ends == Completing(rows, now)
           starts == Starting(rows, now)
           g == [r \in rows |-> IF r \in ends THEN [r EXCEPT !.st = "COMPLETED"]
                                ELSE IF r \in starts THEN [r EXCEPT !.st = "IN_PRODUCTION"]
                                ELSE r]
<1>0. rows \in SUBSET Rows /\ ord \in [Orders -> OrderStatus] /\ now \in Nat
  BY DailyJob, Fitting DEF DailyTx, Typed, TypeOK, Fits
<1>1. rows' = (rows \ (ends \cup starts)) \cup {[r EXCEPT !.st = "COMPLETED"] : r \in ends}
              \cup {[r EXCEPT !.st = "IN_PRODUCTION"] : r \in starts}
  BY DEF DailyTx
<1>2. ends \subseteq rows /\ starts \subseteq rows /\ ends \cap starts = {}
  <2>1. \A r \in rows : DayOf(r.cell) \in Int
    BY <1>0, CoreAssumption DEF Rows, Cells, Days, DayOf
  <2> QED
    BY <1>0, <2>1, CoreAssumption DEF Completing, Starting
<1>3. \A r \in rows : (r \in ends \cup starts => r.st # "CANCELLED")
  BY DEF Completing, Starting
<1>4. rows' = {g[r] : r \in rows}
  <2> HIDE DEF ends, starts
  <2> QED
    BY <1>1, <1>2
<1>5. \A r \in rows : /\ g[r].ord = r.ord /\ g[r].by = r.by /\ g[r].cell = r.cell
                      /\ g[r].st # "CANCELLED" <=> r.st # "CANCELLED"
  <2> HIDE DEF ends, starts
  <2> QED
    BY <1>0, <1>3 DEF Rows
<1> HIDE DEF g
<1>6. Keyed' /\ NoDoubleAssignment'
  BY <1>4, <1>5, Relabelled DEF Booked
<1>7. \A r \in rows' : \E s \in rows : s.by = r.by /\ s.ord = r.ord
  BY <1>4, <1>5
<1>8. Signed'
  BY <1>7, SignedWrite DEF Booked, Writes
<1>9. Unplaced'
  <2>1. \A o \in Orders : ord'[o] \in {ord[o], "COMPLETED", "IN_PRODUCTION"}
    BY DEF DailyTx
  <2> QED
    BY <1>0, <1>7, <2>1 DEF Booked, Unplaced, Rows
<1>10. Balanced'
  <2> SUFFICES ASSUME NEW c \in Cells PROVE Entry(c)'
    BY DEF Balanced
  <2>1. Entry(c) /\ UNCHANGED cap
    BY DEF Booked, Balanced, DailyTx
  <2>2. Used(c)' = Used(c) /\ (RowsAt(rows, c) = {} => RowsAt(rows, c)' = {})
    BY <1>0, <1>4, <1>5, Recounted DEF Booked
  <2> QED
    BY <2>1, <2>2 DEF Entry
<1> QED
  BY <1>6, <1>8, <1>9, <1>10 DEF Booked

(* An adjusted capacity.                                                   *)
LEMMA Adjusted ==
  ASSUME NEW f \in [Cells -> Int \cup {None}], NEW c \in Cells, NEW d
  PROVE  /\ Adjust(f, c, d)[c] = (IF f[c] = None THEN MaxCapacity ELSE f[c]) + d
         /\ \A e \in Cells \ {c} : Adjust(f, c, d)[e] = f[e]
BY DEF Adjust

LEMMA MoveBooked ==
  ASSUME Typed, Booked, Moving, NEW q \in Requests, MoveTx(q) PROVE Booked'
<1> DEFINE s == seen[q]
           to == job[q].to
           t == [s EXCEPT !.cell = to]
           g == [r \in rows |-> IF r = s THEN t ELSE r]
<1>0. /\ rows \in SUBSET Rows /\ ord \in [Orders -> OrderStatus]
      /\ cap \in [Cells -> Int \cup {None}] /\ to \in Cells
  BY MoveJob, Fitting DEF MoveTx, Typed, TypeOK, Fits
<1>1. s \in Movable(q) /\ Adjust(cap, to, -1)[to] >= 0
  BY DEF Moving, MoveTx
<1>2. s \in Rows /\ s \in rows /\ s.st = "SCHEDULED" /\ s.cell # to /\ s.cell \in Cells
  BY <1>0, <1>1 DEF Movable, Asked, Rows
<1>3. Asked(q) = {s}
  BY <1>1 DEF Movable, Asked, Booked, Keyed
<1>4. /\ rows' = (rows \ {s}) \cup {t}
      /\ cap' = Adjust(Adjust(cap, s.cell, 1), to, -1)
      /\ UNCHANGED ord
  BY <1>3 DEF MoveTx
<1>5. t \in Rows /\ t.ord = s.ord /\ t.by = s.by /\ t.cell = to /\ t.st = "SCHEDULED"
  BY <1>0, <1>2 DEF Rows
<1> HIDE DEF t
<1>6. rows' = {g[r] : r \in rows}
  BY <1>2, <1>4
<1>7. \A r \in rows : /\ g[r].ord = r.ord /\ g[r].by = r.by
                      /\ g[r].st # "CANCELLED" => r.st # "CANCELLED"
  BY <1>2, <1>5
<1> HIDE DEF g
<1>8. Keyed' /\ NoDoubleAssignment'
  BY <1>6, <1>7, Relabelled DEF Booked
<1>9. \A r \in rows' : \E u \in rows : u.by = r.by /\ u.ord = r.ord
  BY <1>6, <1>7
<1>10. Signed'
  BY <1>9, SignedWrite DEF Booked, Writes
<1>11. Unplaced'
  BY <1>4, <1>9 DEF Booked, Unplaced
<1>12. Balanced'
  <2> SUFFICES ASSUME NEW c \in Cells PROVE Entry(c)'
    BY DEF Balanced
  <2> DEFINE b == Cardinality(RowsAt({s}, c))
             d == Cardinality(RowsAt({t}, c))
  <2>1. Entry(c) /\ Entry(s.cell) /\ MaxCapacity \in Nat /\ None \notin Int
    BY <1>2, CoreAssumption DEF Booked, Balanced
  <2>2. Live(rows)' = (Live(rows) \ {s}) \cup {t} /\ {s} \in SUBSET Live(rows)
    BY <1>2, <1>4, <1>5 DEF Live
  <2>3. Live(rows) \cap {t} = {}
    BY <1>2, <1>5 DEF Booked, Keyed, Live
  <2>4. /\ Used(c)' = Used(c) - b + d
        /\ Used(c) \in Nat /\ b \in Nat /\ d \in Nat /\ b <= Used(c)
    BY <1>0, <1>5, <2>2, <2>3, UsedChange
  <2>5. /\ b = IF s.cell = c THEN 1 ELSE 0
        /\ d = IF to = c THEN 1 ELSE 0
    <3>1. /\ RowsAt({s}, c) = IF s.cell = c THEN {s} ELSE {}
          /\ RowsAt({t}, c) = IF to = c THEN {t} ELSE {}
      BY <1>5 DEF RowsAt
    <3> QED
      BY <3>1, FS_EmptySet, FS_Singleton
  <2>6. cap[s.cell] # None
    BY <1>2, <2>1 DEF Entry, RowsAt
  <2>7. Adjust(cap, s.cell, 1) \in [Cells -> Int \cup {None}]
    BY <1>0, <1>2, AdjustType
  <2>8. CASE c = s.cell
    <3>1. cap'[c] = cap[c] + 1 /\ cap[c] \in Int
      BY <1>0, <1>2, <1>4, <2>6, <2>7, <2>8, Adjusted
    <3>2. Used(c)' = Used(c) - 1
      BY <1>2, <2>4, <2>5, <2>8
    <3>3. 0 <= cap[c] /\ cap[c] + Used(c) = MaxCapacity
      BY <2>1, <2>6, <2>8 DEF Entry
    <3> QED
      BY <2>1, <2>4, <3>1, <3>2, <3>3 DEF Entry
  <2>9. CASE c = to
    <3>1. Adjust(cap, s.cell, 1)[c] = cap[c]
      BY <1>0, <1>2, <2>9, Adjusted
    <3>2. /\ cap'[c] = (IF cap[c] = None THEN MaxCapacity ELSE cap[c]) - 1
          /\ cap'[c] \in Int /\ cap'[c] >= 0
      BY <1>0, <1>1, <1>4, <2>1, <2>7, <2>9, <3>1, Adjusted
    <3>3. Used(c)' = Used(c) + 1
      BY <1>2, <2>4, <2>5, <2>9
    <3>4. cap[c] = None => Used(c) = 0
      <4>1. RowsAt(rows, c) = {} => RowsAt(Live(rows), c) = {}
        BY DEF RowsAt, Live
      <4> QED
        BY <2>1, <4>1, FS_EmptySet DEF Entry, Used
    <3> QED
      BY <1>0, <2>1, <2>4, <3>2, <3>3, <3>4 DEF Entry
  <2>10. CASE c # s.cell /\ c # to
    <3>1. cap'[c] = cap[c]
      BY <1>0, <1>2, <1>4, <2>7, <2>10, Adjusted
    <3>2. Used(c)' = Used(c)
      BY <2>4, <2>5, <2>10
    <3>3. RowsAt(rows, c) = {} => RowsAt(rows, c)' = {}
      BY <1>4, <1>5, <2>10 DEF RowsAt
    <3> QED
      BY <2>1, <3>1, <3>2, <3>3 DEF Entry
  <2> QED
    BY <2>8, <2>9, <2>10
<1> QED
  BY <1>8, <1>10, <1>11, <1>12 DEF Booked

LEMMA PlaceBooked ==
  ASSUME Typed, Booked, Moving, NEW q \in Requests, PlaceTx(q) PROVE Booked'
<1> DEFINE o == job[q].order
           to == job[q].to
           t == [ord |-> o, cell |-> to, st |-> "SCHEDULED", by |-> q]
<1>0. /\ rows \in SUBSET Rows /\ ord \in [Orders -> OrderStatus]
      /\ cap \in [Cells -> Int \cup {None}] /\ to \in Cells /\ o \in Orders
  BY MoveJob, Fitting DEF PlaceTx, Typed, TypeOK, Fits
<1>1. ord[o] = "PENDING" /\ Adjust(cap, to, -1)[to] >= 0
  BY DEF Moving, PlaceTx
<1>2. \A r \in rows : r.ord # o
  BY <1>1 DEF Booked, Unplaced
<1>3. \A r \in rows : r.by # q
  BY DEF Booked, Signed, PlaceTx, After
<1>4. /\ rows' = rows \cup {t}
      /\ cap' = Adjust(cap, to, -1)
      /\ ord' = [ord EXCEPT ![o] = "SCHEDULED"]
  BY DEF PlaceTx
<1>5. t \in Rows /\ t.ord = o /\ t.by = q /\ t.cell = to /\ t.st = "SCHEDULED"
  BY <1>0 DEF Rows, AssignmentStatus
<1> HIDE DEF t
<1>6. Keyed' /\ NoDoubleAssignment'
  BY <1>2, <1>3, <1>4, <1>5 DEF Booked, Keyed, NoDoubleAssignment, Live
<1>7. Signed'
  BY <1>4, <1>5, SignedWrite DEF Booked, Writes
<1>8. Unplaced'
  BY <1>0, <1>4, <1>5 DEF Booked, Unplaced, Rows
<1>9. Balanced'
  <2> SUFFICES ASSUME NEW c \in Cells PROVE Entry(c)'
    BY DEF Balanced
  <2> DEFINE d == Cardinality(RowsAt({t}, c))
  <2>1. Entry(c) /\ MaxCapacity \in Nat /\ None \notin Int
    BY CoreAssumption DEF Booked, Balanced
  <2>2. Live(rows)' = (Live(rows) \ {}) \cup {t} /\ Live(rows) \cap {t} = {}
    BY <1>2, <1>4, <1>5 DEF Live
  <2>3. /\ Used(c)' = Used(c) - Cardinality(RowsAt({}, c)) + d
        /\ Used(c) \in Nat /\ d \in Nat
    <3>1. {} \in SUBSET Live(rows) /\ {t} \in SUBSET Rows
      BY <1>5
    <3> QED
      BY <1>0, <2>2, <3>1, UsedChange
  <2>4. Cardinality(RowsAt({}, c)) = 0 /\ d = IF to = c THEN 1 ELSE 0
    <3>1. RowsAt({}, c) = {} /\ RowsAt({t}, c) = IF to = c THEN {t} ELSE {}
      BY <1>5 DEF RowsAt
    <3> QED
      BY <3>1, FS_EmptySet, FS_Singleton
  <2>5. CASE c = to
    <3>1. /\ cap'[c] = (IF cap[c] = None THEN MaxCapacity ELSE cap[c]) - 1
          /\ cap'[c] \in Int /\ cap'[c] >= 0
      BY <1>0, <1>1, <1>4, <2>1, <2>5, Adjusted
    <3>2. Used(c)' = Used(c) + 1
      BY <2>3, <2>4, <2>5
    <3>3. cap[c] = None => Used(c) = 0
      <4>1. RowsAt(rows, c) = {} => RowsAt(Live(rows), c) = {}
        BY DEF RowsAt, Live
      <4> QED
        BY <2>1, <4>1, FS_EmptySet DEF Entry, Used
    <3> QED
      BY <1>0, <2>1, <2>3, <3>1, <3>2, <3>3 DEF Entry
  <2>6. CASE c # to
    <3>1. cap'[c] = cap[c]
      BY <1>0, <1>4, <2>6, Adjusted
    <3>2. Used(c)' = Used(c)
      BY <2>3, <2>4, <2>6
    <3>3. RowsAt(rows, c) = {} => RowsAt(rows, c)' = {}
      BY <1>4, <1>5, <2>6 DEF RowsAt
    <3> QED
      BY <2>1, <3>1, <3>2, <3>3 DEF Entry
  <2> QED
    BY <2>5, <2>6
<1> QED
  BY <1>6, <1>7, <1>8, <1>9 DEF Booked

(***************************************************************************)
(* The commit of a plan that was computed from the tables as they are, for *)
(* a run or a preview j: it takes away what it counted as free, places     *)
(* only orders that then have no row left, and the absolute capacities it  *)
(* writes are those of the cells.                                          *)
(***************************************************************************)
LEMMA CommitBooked ==
  ASSUME Typed, Booked, NEW q \in Requests, Commit(q),
         NEW j \in Jobs, j.op \in {"run", "preview"}, plan[q] \in Engine(Tables, j)
  PROVE  Booked'
<1> DEFINE p == plan[q]
           need == Needy(Tables, j)
           freed == Freed(Tables, j)
<1>0. /\ rows \in SUBSET Rows /\ ord \in [Orders -> OrderStatus]
      /\ cap \in [Cells -> Int \cup {None}] /\ j \in Jobs /\ j.now \in Nat
      /\ MaxCapacity \in Nat /\ None \notin Int
  BY Fitting, EngineJob, CoreAssumption DEF Typed, TypeOK
<1>1. p \in Engine(Tables, j)
  OBVIOUS
<1>2. PICK at \in UNION {[ok -> Cells] : ok \in SUBSET need} :
        p = Result(Tables, j, at) /\ FirstFit(Tables, j, at)
  BY <1>1 DEF Engine
<1>3. PICK ok \in SUBSET need : at \in [ok -> Cells]
  BY <1>2
<1>4. DOMAIN at = ok /\ need \in SUBSET Orders /\ ok \in SUBSET Orders
  BY <1>3 DEF Needy, Mutables, Candidates
<1> DEFINE new == {New(o, at[o], q) : o \in ok}
           left == Left(Tables, j, at)
           placed(c) == {o \in ok : at[o] = c}
<1>5. /\ p.frees = Frees(j) /\ p.from = FirstDay(j) /\ p.muts = Mutables(Tables, j)
      /\ p.failed = need \ ok /\ p.left = left
      /\ ok \subseteq p.sched
      /\ p.place = {[ord |-> o, cell |-> at[o]] : o \in ok}
      /\ p.upd = {c \in Cells : Known(c, j) /\ left[c] # cap[c]}
      /\ p.new = {c \in Cells : /\ ~Known(c, j)
                                /\ \/ \E o \in ok : at[o] = c
                                   \/ RowsAt(Immutables(Tables, j), c) # {}}
  BY <1>2, <1>4 DEF Result
<1>6. Deleted(p) = freed /\ freed \subseteq rows /\ \A r \in freed : r.st = "SCHEDULED"
  BY <1>5 DEF Deleted, Freed, Tables
<1>7. new = {[ord |-> e.ord, cell |-> e.cell, st |-> "SCHEDULED", by |-> q] : e \in p.place}
  <2> DEFINE row(e) == [ord |-> e.ord, cell |-> e.cell, st |-> "SCHEDULED", by |-> q]
             at2(o) == [ord |-> o, cell |-> at[o]]
  <2>1. \A o \in ok : row(at2(o)) = New(o, at[o], q)
    BY DEF New
  <2>2. p.place = {at2(o) : o \in ok}
    BY <1>5
  <2> HIDE DEF at2, row, p
  <2>3. new = {row(e) : e \in p.place}
    BY <2>1, <2>2
  <2> QED
    BY <2>3 DEF row
<1>8. /\ rows' = (rows \ freed) \cup new
      /\ ord' = Rescheduled(p)
      /\ cap' = Written(p)
  BY <1>6, <1>7 DEF Commit
<1>9. \A r \in rows : r.by # q
  BY DEF Booked, Signed, Commit, After
<1>10. \A o \in ok : \A r \in rows \ freed : r.ord # o
  BY <1>3 DEF Needy, Tables
<1>11. new \in SUBSET Rows
  BY <1>3, <1>4 DEF New, Rows, AssignmentStatus
<1>12. \A t \in new : t.by = q /\ t.st = "SCHEDULED" /\ t.ord \in ok /\ t.cell = at[t.ord]
  BY DEF New
<1>13. \A t, u \in new : t.ord = u.ord => t = u
  BY DEF New
<1> HIDE DEF new, freed, need, p
<1>14. Keyed' /\ NoDoubleAssignment'
  <2>1. Keyed'
    BY <1>8, <1>9, <1>12, <1>13 DEF Booked, Keyed
  <2>2. NoDoubleAssignment'
    BY <1>8, <1>10, <1>12, <1>13 DEF Booked, NoDoubleAssignment, Live
  <2> QED
    BY <2>1, <2>2
<1>15. Signed'
  BY <1>8, <1>12, SignedWrite DEF Booked, Writes
<1>16. Unplaced'
  <2>1. \A o \in Orders : ord[o] # "PENDING" \/ o \in ok => ord'[o] # "PENDING"
    BY <1>5, <1>8 DEF Rescheduled
  <2> QED
    BY <1>0, <1>4, <1>8, <1>12, <2>1 DEF Booked, Unplaced, Rows
<1>17. Balanced'
  <2> SUFFICES ASSUME NEW c \in Cells PROVE Entry(c)'
    BY DEF Balanced
  <2> DEFINE b == Cardinality(RowsAt(freed, c))
             d == Cardinality(placed(c))
  <2>1. Entry(c)
    BY DEF Booked, Balanced
  <2>2. Live(rows)' = (Live(rows) \ freed) \cup new
    BY <1>6, <1>8, <1>12 DEF Live
  <2>3. freed \in SUBSET Live(rows) /\ Live(rows) \cap new = {}
    BY <1>6, <1>9, <1>12 DEF Live
  <2>4. Cardinality(RowsAt(new, c)) = d
    <3>1. RowsAt(new, c) = {New(o, c, q) : o \in placed(c)}
      BY DEF RowsAt, New, new
    <3>2. placed(c) \in SUBSET Orders
      BY <1>4
    <3> HIDE DEF placed
    <3> QED
      BY <3>1, <3>2, CountNew
  <2>5. /\ Used(c)' = Used(c) - b + d
        /\ Used(c) \in Nat /\ b \in Nat /\ d \in Nat /\ b <= Used(c)
    BY <1>0, <1>11, <2>2, <2>3, <2>4, UsedChange
  <2>6. left[c] = Base(Tables, j)[c] - d
    BY <1>4 DEF Left
  <2>7. placed(c) = {} => d = 0
    BY FS_EmptySet
  <2>8. placed(c) # {} => left[c] >= 0 /\ FirstDay(j) <= DayOf(c)
    <3>1. \A o \in ok : at[o] \in Window(o, j) /\ left[at[o]] >= 0
      BY <1>2, <1>4 DEF FirstFit
    <3> QED
      BY <3>1 DEF Window
  <2> HIDE DEF b, d, left
  <2>9. CASE Known(c, j)
    <3>1. cap[c] \in Int /\ 0 <= cap[c] /\ cap[c] + Used(c) = MaxCapacity
      BY <1>0, <2>1, <2>9 DEF Known, Entry
    <3>2. left[c] = cap[c] + b - d
      <4>1. Base(Tables, j)[c] = cap[c] + b
        BY <2>9 DEF Base, b, freed
      <4> QED
        BY <1>0, <2>5, <2>6, <3>1, <4>1
    <3>3. left[c] >= 0
      BY <2>5, <2>7, <2>8, <3>1, <3>2
    <3>4. cap'[c] = left[c]
      BY <1>5, <1>8, <2>9, <3>1, <1>0 DEF Written
    <3> QED
      BY <1>0, <2>5, <3>1, <3>2, <3>3, <3>4 DEF Entry
  <2>10. CASE cap[c] = None
    <3>1. RowsAt(rows, c) = {} /\ RowsAt(Live(rows), c) = {}
      BY <2>1, <2>10 DEF Entry, RowsAt, Live
    <3>2. Used(c) = 0 /\ b = 0
      BY <2>5, <3>1, FS_EmptySet DEF Used
    <3>3. RowsAt(Immutables(Tables, j), c) = {} /\ ~Known(c, j)
      BY <2>10, <3>1 DEF RowsAt, Immutables, Tables, Known
    <3>4. left[c] = MaxCapacity - d
      <4>1. Base(Tables, j)[c] = MaxCapacity - Cardinality({})
        BY <3>3 DEF Base
      <4> QED
        BY <1>0, <2>5, <2>6, <4>1, FS_EmptySet
    <3>5. CASE placed(c) = {}
      <4>1. c \notin p.new /\ c \notin p.upd
        BY <1>5, <3>3, <3>5
      <4>2. cap'[c] = None
        BY <1>8, <2>10, <4>1 DEF Written
      <4>3. RowsAt(rows, c)' = {}
        BY <1>8, <1>12, <3>1, <3>5 DEF RowsAt
      <4> QED
        BY <4>2, <4>3 DEF Entry
    <3>6. CASE placed(c) # {}
      <4>1. cap'[c] = left[c]
        BY <1>5, <1>8, <2>10, <3>3, <3>6 DEF Written
      <4>2. left[c] >= 0 /\ left[c] \in Int
        BY <1>0, <2>5, <2>8, <3>4, <3>6
      <4> QED
        BY <1>0, <2>5, <3>2, <3>4, <4>1, <4>2 DEF Entry
    <3> QED
      BY <3>5, <3>6
  <2>11. CASE cap[c] # None /\ ~Known(c, j)
    <3>1. DayOf(c) \in Int /\ DayOf(c) < j.now
      BY <1>0, <2>11, CoreAssumption DEF Known, Cells, Days, DayOf
    <3>2. ~(FirstDay(j) <= DayOf(c))
      BY <1>0, <3>1, CoreAssumption DEF FirstDay
    <3>3. RowsAt(freed, c) = {} /\ placed(c) = {}
      BY <2>8, <3>2 DEF RowsAt, Freed, freed
    <3>4. b = 0 /\ d = 0
      BY <2>7, <3>3, FS_EmptySet DEF b
    <3>5. cap'[c] = cap[c]
      BY <1>5, <1>8, <2>11 DEF Written
    <3>6. Used(c)' = Used(c)
      BY <2>5, <3>4
    <3> QED
      BY <2>1, <2>11, <3>5, <3>6 DEF Entry
  <2> QED
    BY <2>9, <2>10, <2>11
<1> QED
  BY <1>14, <1>15, <1>16, <1>17 DEF Booked

-------------------------------------------------------------------------------
(* Every step.                                                             *)

(* The only ways a manual move gets past its checks.                       *)
LEMMA MoveReaches ==
  ASSUME Typed, NEW q \in Requests, Start(q) \/ Step(q) \/ Crash(q) \/ Fail(q),
         pc'[q] \in {"capacity", "move"}
  PROVE  Validate(q) \/ CheckRoom(q)
<1> USE DEF Typed, TypeOK, Goto
<1>0. Fits(pc[q], job[q], seen[q], plan[q])
  BY Fitting
<1>1. ~Start(q) /\ ~Crash(q) /\ ~Fail(q)
  BY DEF Start, StartRun, StartPreview, StartApply, StartCancel, StartDelete, Crash, Fail,
         StartIssueCancel, StartDaily, StartMove, StartPlace, Submit
<1>2. ~TakeLock(q)
  BY <1>0 DEF TakeLock, AfterLock, Fits
<1>3. /\ ~Refused(q) /\ ~Unlock(q) /\ ~ReadOrders(q) /\ ~Plan(q) /\ ~StorePreview(q)
      /\ ~CheckVersion(q) /\ ~Commit(q) /\ ~CancelTx(q) /\ ~DailyTx(q) /\ ~Precheck(q)
  BY DEF Refused, Unlock, ReadOrders, Plan, StorePreview, CheckVersion, Commit, CancelTx,
         DailyTx, Precheck
<1>4. ~MoveTx(q) /\ ~PlaceTx(q) /\ ~Bump(q) /\ ~Settle(q) /\ ~ForgetPreview(q)
  BY DEF MoveTx, PlaceTx, Bump, Settle, ForgetPreview
<1> QED
  BY <1>1, <1>2, <1>3, <1>4 DEF Step

LEMMA MovingStep ==
  ASSUME "issueCancel" \notin Operations, Typed, Guarded, Permitted, Moving, [Next]_vars
  PROVE  Moving'
<1> SUFFICES ASSUME NEW q \in Requests, pc'[q] \in {"capacity", "move"}
             PROVE  /\ job'[q].op = "move" => seen'[q] \in Movable(q)'
                    /\ job'[q].op = "place" => ord'[job'[q].order] = "PENDING"
                    /\ pc'[q] = "move" =>
                         Adjust(cap', job'[q].to, -1)[job'[q].to] >= 0
  BY DEF Moving, Adjust
<1>1. CASE Validate(q)
  <2>1. /\ job' = job /\ UNCHANGED data /\ pc'[q] = "capacity"
        /\ job[q].op = "move" => seen'[q] \in Movable(q)
        /\ job[q].op = "place" => ord[job[q].order] = "PENDING"
    BY <1>1 DEF Validate, Goto, Movable, Typed, TypeOK
  <2> QED
    BY <2>1 DEF Movable, Asked, data
<1>2. CASE CheckRoom(q)
  <2>1. /\ UNCHANGED <<job, seen>> /\ UNCHANGED data /\ pc[q] = "capacity"
        /\ pc'[q] = "move" => Adjust(cap, job[q].to, -1)[job[q].to] >= 0
    BY <1>2 DEF CheckRoom, Goto, Typed, TypeOK
  <2> QED
    BY <2>1 DEF Moving, Movable, Asked, data
<1>3. CASE ~Validate(q) /\ ~CheckRoom(q)
  <2>1. ~(Start(q) \/ Step(q) \/ Crash(q) \/ Fail(q))
    BY <1>3, MoveReaches
  <2>2. pc'[q] = pc[q] /\ job'[q] = job[q] /\ seen'[q] = seen[q]
    <3>1. CASE NewDay \/ Expire \/ UNCHANGED vars
      BY <3>1 DEF NewDay, Expire, vars
    <3> QED
      BY <2>1, <3>1, OthersStay DEF Next
  <2>3. Locked(q) /\ ~Writes(q)
    BY <2>1, <2>2 DEF Locked, Writes, Step
  <2>4. UNCHANGED <<ord, rows, cap>>
    BY <2>3, HeldStill
  <2> QED
    BY <2>2, <2>4 DEF Moving, Movable, Asked
<1> QED
  BY <1>1, <1>2, <1>3

LEMMA BookedStep ==
  ASSUME Operations \cap {"apply", "issueCancel"} = {},
         Typed, Guarded, Permitted, Faithful, Booked, Moving, [Next]_vars
  PROVE  Booked'
<1>1. CASE <<data, edits>>' # <<data, edits>>
  <2>1. PICK q \in Requests : Writes(q)
    BY <1>1, OnlyWritersWrite
  <2>2. CASE Commit(q)
    <3>1. job[q].op \in {"run", "apply"} /\ job[q].op # "apply"
      BY <2>2, Fitting DEF Commit, Fits, Permitted
    <3>2. plan[q] \in Engine(Tables, job[q]) /\ job[q] \in Jobs
      BY <2>2, <3>1 DEF Commit, Faithful, Typed, TypeOK
    <3> QED
      BY <2>2, <3>1, <3>2, CommitBooked
  <2> QED
    BY <2>1, <2>2, CancelBooked, DailyBooked, MoveBooked, PlaceBooked DEF Writes
<1>2. CASE <<data, edits>>' = <<data, edits>>
  <2>1. UNCHANGED <<ord, rows, cap>>
    BY <1>2 DEF data
  <2>2. Signed'
    BY <2>1, AfterStays DEF Booked, Signed
  <2> QED
    BY <2>1, <2>2 DEF Booked, Keyed, Unplaced, Balanced, Entry, Used, NoDoubleAssignment
<1> QED
  BY <1>1, <1>2

LEMMA InitBooked == Init => Booked /\ Moving
<1> SUFFICES ASSUME Init PROVE Booked /\ Moving
  OBVIOUS
<1> DEFINE Booking(booked, at, open) ==
       LET taken(c) == {o \in booked : at[o] = c} IN
       /\ \A o \in booked : DayOf(at[o]) <= Deadline[o]
       /\ \A c \in Cells : Cardinality(taken(c)) <= MaxCapacity
       /\ Open \cup {at[o] : o \in booked} \subseteq open
       /\ ord = [o \in Orders |-> IF o \in booked THEN "SCHEDULED" ELSE "PENDING"]
       /\ rows = {[ord |-> o, cell |-> at[o], st |-> "SCHEDULED", by |-> None] :
                    o \in booked}
       /\ cap = [c \in Cells |-> IF c \in open
                                 THEN MaxCapacity - Cardinality(taken(c))
                                 ELSE None]
<1>1. \E booked \in SUBSET Orders : \E at \in [booked -> Cells], open \in SUBSET Cells :
        Booking(booked, at, open)
  BY DEF Init
<1> HIDE DEF Booking
<1>2. PICK booked \in SUBSET Orders :
        \E at \in [booked -> Cells], open \in SUBSET Cells : Booking(booked, at, open)
  BY <1>1
<1>3. PICK at \in [booked -> Cells], open \in SUBSET Cells : Booking(booked, at, open)
  BY <1>2
<1> USE DEF Booking
<1>4. rows = {New(o, at[o], None) : o \in booked} /\ {at[o] : o \in booked} \subseteq open
  BY <1>3 DEF New
<1> DEFINE taken(c) == {o \in booked : at[o] = c}
<1>5. /\ \A r \in rows : /\ r.by = None /\ r.st = "SCHEDULED" /\ r.ord \in booked
                         /\ r.cell \in open
      /\ \A r, s \in rows : r.ord = s.ord => r = s
  BY <1>4 DEF New
<1>6. Keyed /\ Signed /\ NoDoubleAssignment
  BY <1>5, CoreAssumption DEF Keyed, Signed, NoDoubleAssignment, Live
<1>7. Unplaced
  BY <1>3, <1>5 DEF Unplaced
<1>8. Moving
  BY DEF Init, Moving
<1>9. Balanced
  <2> SUFFICES ASSUME NEW c \in Cells PROVE Entry(c)
    BY DEF Balanced
  <2>1. RowsAt(Live(rows), c) = {New(o, c, None) : o \in taken(c)}
    BY <1>4 DEF RowsAt, Live, New
  <2>2. Cardinality(taken(c)) <= MaxCapacity
    BY <1>3
  <2>3. cap[c] = IF c \in open THEN MaxCapacity - Cardinality(taken(c)) ELSE None
    BY <1>3
  <2>4. taken(c) \in SUBSET Orders
    OBVIOUS
  <2>5. c \notin open => RowsAt(rows, c) = {}
    BY <1>5 DEF RowsAt
  <2> HIDE DEF taken
  <2>6. Used(c) = Cardinality(taken(c)) /\ Cardinality(taken(c)) \in Nat
    BY <2>1, <2>4, CountNew, CountOrders DEF Used
  <2> QED
    BY <2>2, <2>3, <2>5, <2>6, CoreAssumption DEF Entry
<1> QED
  BY <1>6, <1>7, <1>8, <1>9 DEF Booked

-------------------------------------------------------------------------------
(***************************************************************************)
(* The theorems.                                                           *)
(***************************************************************************)
Ledger == Typed /\ Guarded /\ Permitted /\ Faithful /\ Booked /\ Moving

LEMMA InitLedger == Init => Ledger
BY InitTyped, InitGuarded, InitPermitted, InitBooked DEF Init, Faithful, Ledger

LEMMA LedgerStep ==
  ASSUME Operations \cap {"apply", "issueCancel"} = {}
  PROVE  Ledger /\ [Next]_vars => Ledger'
BY TypedStep, GuardedStep, PermittedStep, FaithfulStep, BookedStep, MovingStep DEF Ledger

(* What a cell has left and the live assignments in it add up to the       *)
(* capacity of its factory, and a cell without a capacity row is empty: no *)
(* run, cancellation, deletion, daily tick, manual move or placement, and  *)
(* no failure of one, overbooks a day or loses room on it.                 *)
THEOREM LedgerBalances ==
  ASSUME Operations \cap {"apply", "issueCancel"} = {} PROVE Spec => []CapacityLedger
<1>1. Ledger => CapacityLedger
  <2> SUFFICES ASSUME Ledger, NEW c \in Cells
               PROVE  LET used == Cardinality(RowsAt(Live(rows), c)) IN
                      IF cap[c] = None THEN used = 0
                      ELSE 0 <= cap[c] /\ cap[c] + used = MaxCapacity
    BY DEF CapacityLedger
  <2>1. Entry(c)
    BY DEF Ledger, Booked, Balanced
  <2>2. RowsAt(rows, c) = {} => RowsAt(Live(rows), c) = {}
    BY DEF RowsAt, Live
  <2> QED
    BY <2>1, <2>2, FS_EmptySet DEF Entry, Used
<1> QED
  BY <1>1, InitLedger, LedgerStep, PTL DEF Spec

(* Under the same restriction, no order has two live assignments.          *)
THEOREM NothingAssignedTwice ==
  ASSUME Operations \cap {"apply", "issueCancel"} = {} PROVE Spec => []NoDoubleAssignment
<1>1. Ledger => NoDoubleAssignment
  BY DEF Ledger, Booked
<1> QED
  BY <1>1, InitLedger, LedgerStep, PTL DEF Spec

-------------------------------------------------------------------------------
(***************************************************************************)
(* What the schedule says of an order agrees with its assignments, and     *)
(* what must stay in place does.                                           *)
(***************************************************************************)

(***************************************************************************)
(* The invariant.  An assignment that waits, or is cancelled, belongs to   *)
(* an order that says so; a manual move that is past its checks is about   *)
(* an order that is not fixed.                                             *)
(***************************************************************************)
Agreed ==
  \A r \in rows : /\ r.st = "SCHEDULED" => ord[r.ord] = "SCHEDULED"
                  /\ r.st = "CANCELLED" => ord[r.ord] = "CANCELLED"

Unfixed == \A q \in Requests : pc[q] \in {"capacity", "move"} => job[q].order \notin Fixed

Orderly == Ledger /\ Agreed /\ ScheduledBacked /\ Unfixed

-------------------------------------------------------------------------------
(* What each transaction writes.                                           *)

(* A cancellation relabels the rows of its order.                          *)
LEMMA CancelWrites ==
  ASSUME Typed, NEW q \in Requests, CancelTx(q)
  PROVE  \E g :
           /\ rows' = {g[r] : r \in rows}
           /\ \A r \in rows :
                /\ g[r].ord = r.ord /\ g[r].by = r.by /\ g[r].cell = r.cell
                /\ r.ord # job[q].order \/ r.st # "SCHEDULED" => g[r] = r
                /\ r.ord = job[q].order /\ r.st = "SCHEDULED" => g[r].st = "CANCELLED"
<1> DEFINE mine == {r \in rows : r.ord = job[q].order /\ r.st = "SCHEDULED"}
           g == [r \in rows |-> IF r \in mine THEN [r EXCEPT !.st = "CANCELLED"] ELSE r]
<1>1. rows' = (rows \ mine) \cup {[r EXCEPT !.st = "CANCELLED"] : r \in mine}
  BY DEF CancelTx
<1>2. rows' = {g[r] : r \in rows}
  BY <1>1
<1>3. \A r \in rows :
        /\ g[r].ord = r.ord /\ g[r].by = r.by /\ g[r].cell = r.cell
        /\ r.ord # job[q].order \/ r.st # "SCHEDULED" => g[r] = r
        /\ r.ord = job[q].order /\ r.st = "SCHEDULED" => g[r].st = "CANCELLED"
  BY DEF Typed, TypeOK, Rows
<1> HIDE DEF g
<1> QED
  BY <1>2, <1>3

(* The daily tick relabels the rows that end or start.                     *)
LEMMA DailyWrites ==
  ASSUME Typed, NEW q \in Requests, DailyTx(q)
  PROVE  \E g :
           LET due == Completing(rows, job[q].now) \cup Starting(rows, job[q].now) IN
           /\ rows' = {g[r] : r \in rows}
           /\ \A r \in due : r \in rows /\ r.st # "CANCELLED"
           /\ \A r \in rows :
                /\ g[r].ord = r.ord /\ g[r].by = r.by /\ g[r].cell = r.cell
                /\ r \in due => g[r].st \in {"IN_PRODUCTION", "COMPLETED"}
                /\ r \notin due => g[r] = r
<1> DEFINE ends == Completing(rows, job[q].now)
           starts == Starting(rows, job[q].now)
           g == [r \in rows |-> IF r \in ends THEN [r EXCEPT !.st = "COMPLETED"]
                                ELSE IF r \in starts THEN [r EXCEPT !.st = "IN_PRODUCTION"]
                                ELSE r]
<1>0. rows \in SUBSET Rows /\ job[q].now \in Nat
  BY DailyJob, Fitting DEF DailyTx, Typed, TypeOK, Fits
<1>1. rows' = (rows \ (ends \cup starts)) \cup {[r EXCEPT !.st = "COMPLETED"] : r \in ends}
              \cup {[r EXCEPT !.st = "IN_PRODUCTION"] : r \in starts}
  BY DEF DailyTx
<1>2. ends \subseteq rows /\ starts \subseteq rows /\ ends \cap starts = {}
  <2>1. \A r \in rows : DayOf(r.cell) \in Int
    BY <1>0, CoreAssumption DEF Rows, Cells, Days, DayOf
  <2> QED
    BY <1>0, <2>1, CoreAssumption DEF Completing, Starting
<1>3. \A r \in ends \cup starts : r.st # "CANCELLED"
  BY DEF Completing, Starting
<1> HIDE DEF ends, starts
<1>4. rows' = {g[r] : r \in rows}
  BY <1>1, <1>2
<1>5. \A r \in rows : /\ g[r].ord = r.ord /\ g[r].by = r.by /\ g[r].cell = r.cell
                      /\ r \in ends \cup starts => g[r].st \in {"IN_PRODUCTION", "COMPLETED"}
                      /\ r \notin ends \cup starts => g[r] = r
  BY <1>0 DEF Rows
<1> HIDE DEF g
<1> QED
  BY <1>2, <1>3, <1>4, <1>5 DEF ends, starts

(* A manual move takes away the row it has read, which still waits, and    *)
(* puts it in another cell.                                                *)
LEMMA MoveWrites ==
  ASSUME Ledger, NEW q \in Requests, MoveTx(q)
  PROVE  \E s \in rows : \E t \in Rows :
           /\ rows' = (rows \ {s}) \cup {t}
           /\ s.ord = job[q].order /\ s.st = "SCHEDULED"
           /\ t.ord = s.ord /\ t.by = s.by /\ t.st = s.st
           /\ UNCHANGED ord
<1> DEFINE s == seen[q]
           t == [s EXCEPT !.cell = job[q].to]
<1>0. rows \in SUBSET Rows /\ job[q].to \in Cells
  BY MoveJob, Fitting DEF MoveTx, Ledger, Typed, TypeOK, Fits
<1>1. s \in Movable(q)
  BY DEF Ledger, Moving, MoveTx
<1>2. s \in Rows /\ s \in rows /\ s.st = "SCHEDULED" /\ s.ord = job[q].order
  BY <1>0, <1>1 DEF Movable, Asked
<1>3. Asked(q) = {s}
  BY <1>1 DEF Movable, Asked, Ledger, Booked, Keyed
<1>4. rows' = (rows \ {s}) \cup {t} /\ UNCHANGED ord
  BY <1>3 DEF MoveTx
<1>5. t \in Rows /\ t.ord = s.ord /\ t.by = s.by /\ t.st = s.st
  BY <1>0, <1>2 DEF Rows
<1> HIDE DEF t, s
<1> QED
  BY <1>2, <1>4, <1>5

(* A placing adds a row for an order that had none.                        *)
LEMMA PlaceWrites ==
  ASSUME Ledger, NEW q \in Requests, PlaceTx(q)
  PROVE  \E t \in Rows :
           /\ rows' = rows \cup {t}
           /\ t.ord = job[q].order /\ t.st = "SCHEDULED"
           /\ ord' = [ord EXCEPT ![t.ord] = "SCHEDULED"]
           /\ ord[t.ord] = "PENDING"
           /\ \A r \in rows : r.ord # t.ord
<1> DEFINE t == [ord |-> job[q].order, cell |-> job[q].to, st |-> "SCHEDULED", by |-> q]
<1>0. job[q].to \in Cells /\ job[q].order \in Orders
  BY MoveJob, Fitting DEF PlaceTx, Ledger, Typed, TypeOK, Fits
<1>1. t \in Rows /\ t.ord = job[q].order /\ t.st = "SCHEDULED"
  BY <1>0 DEF Rows, AssignmentStatus
<1>2. rows' = rows \cup {t} /\ ord' = [ord EXCEPT ![t.ord] = "SCHEDULED"]
  BY DEF PlaceTx
<1>3. ord[t.ord] = "PENDING"
  BY DEF Ledger, Moving, PlaceTx
<1>4. \A r \in rows : r.ord # t.ord
  BY <1>3 DEF Ledger, Booked, Unplaced
<1> HIDE DEF t
<1> QED
  BY <1>1, <1>2, <1>3, <1>4

(* The commit of a run takes away the rows it counted as free, and places  *)
(* orders that are then without a row.                                     *)
LEMMA RunWrites ==
  ASSUME Ledger, NEW q \in Requests, Commit(q), job[q].op = "run"
  PROVE  \E ok \in SUBSET Needy(Tables, job[q]) : \E new \in SUBSET Rows :
           LET need == Needy(Tables, job[q])
               freed == Freed(Tables, job[q])
               cand == Candidates(Tables, job[q])
           IN  /\ rows' = (rows \ freed) \cup new
               /\ \A t \in new : t.ord \in ok /\ t.st = "SCHEDULED"
               /\ \A o \in ok : \E t \in new : t.ord = o
               /\ plan[q].failed = need \ ok
               /\ plan[q].sched = ok \cup {o \in cand \ need : ord[o] = "SCHEDULED"}
               /\ ord' = Rescheduled(plan[q])
<1> DEFINE j == job[q]
           p == plan[q]
           need == Needy(Tables, j)
<1>1. p \in Engine(Tables, j)
  BY DEF Ledger, Faithful, Commit
<1>2. PICK at \in UNION {[ok -> Cells] : ok \in SUBSET need} : p = Result(Tables, j, at)
  BY <1>1 DEF Engine
<1>3. PICK ok \in SUBSET need : at \in [ok -> Cells]
  BY <1>2
<1>4. DOMAIN at = ok /\ ok \in SUBSET Orders
  BY <1>3 DEF Needy, Mutables, Candidates
<1> DEFINE new == {[ord |-> e.ord, cell |-> e.cell, st |-> "SCHEDULED", by |-> q] :
                     e \in p.place}
<1>5. /\ p.frees = Frees(j) /\ p.from = FirstDay(j) /\ p.muts = Mutables(Tables, j)
      /\ p.failed = need \ ok
      /\ p.sched = ok \cup {o \in Candidates(Tables, j) \ need : ord[o] = "SCHEDULED"}
      /\ p.place = {[ord |-> o, cell |-> at[o]] : o \in ok}
  BY <1>2, <1>4 DEF Result, Tables
<1>6. Deleted(p) = Freed(Tables, j)
  BY <1>5 DEF Deleted, Freed, Tables
<1>7. rows' = (rows \ Freed(Tables, j)) \cup new /\ ord' = Rescheduled(p)
  BY <1>6 DEF Commit
<1>8. \A e \in p.place : e.ord \in ok /\ e.ord \in Orders /\ e.cell \in Cells
  BY <1>3, <1>4, <1>5
<1>9. ASSUME NEW o \in ok PROVE \E e \in p.place : e.ord = o
  <2> DEFINE e == [ord |-> o, cell |-> at[o]]
  <2>1. e \in p.place /\ e.ord = o
    BY <1>5
  <2> QED
    BY <2>1
<1> HIDE DEF p
<1>10. new \in SUBSET Rows
  BY <1>8 DEF Rows, AssignmentStatus
<1>11. \A t \in new : t.ord \in ok /\ t.st = "SCHEDULED"
  BY <1>8
<1>12. ASSUME NEW o \in ok PROVE \E t \in new : t.ord = o
  <2>1. PICK e \in p.place : e.ord = o
    BY <1>9
  <2> DEFINE t == [ord |-> e.ord, cell |-> e.cell, st |-> "SCHEDULED", by |-> q]
  <2>2. t \in new /\ t.ord = o
    BY <2>1
  <2> QED
    BY <2>2
<1> HIDE DEF new
<1> QED
  BY <1>5, <1>7, <1>10, <1>11, <1>12 DEF p

-------------------------------------------------------------------------------
(* Orders and rows agree, and a scheduled order has a live row.            *)

LEMMA BackedAgain ==
  ASSUME ScheduledBacked, \A o \in Orders : ord'[o] = "SCHEDULED" =>
           /\ ord[o] = "SCHEDULED"
           /\ \A r \in Live(rows) : r.ord = o =>
                \E s \in rows' : s.ord = o /\ s.st # "CANCELLED"
  PROVE  ScheduledBacked'
BY DEF ScheduledBacked, Live

LEMMA CancelOrderly ==
  ASSUME Orderly, NEW q \in Requests, CancelTx(q)
  PROVE  Agreed' /\ ScheduledBacked'
<1> DEFINE o == job[q].order
<1>0. /\ rows \in SUBSET Rows /\ ord \in [Orders -> OrderStatus] /\ o \in Orders
      /\ ord' = [ord EXCEPT ![o] = "CANCELLED"]
  BY CancelJob, Fitting DEF CancelTx, Orderly, Ledger, Typed, TypeOK, Fits
<1>1. PICK g :
        /\ rows' = {g[r] : r \in rows}
        /\ \A r \in rows : /\ g[r].ord = r.ord
                           /\ r.ord # o \/ r.st # "SCHEDULED" => g[r] = r
                           /\ r.ord = o /\ r.st = "SCHEDULED" => g[r].st = "CANCELLED"
  BY CancelWrites DEF Orderly, Ledger
<1>2. Agreed'
  <2> SUFFICES ASSUME NEW r \in rows
               PROVE  /\ g[r].st = "SCHEDULED" => ord'[g[r].ord] = "SCHEDULED"
                      /\ g[r].st = "CANCELLED" => ord'[g[r].ord] = "CANCELLED"
    BY <1>1 DEF Agreed
  <2>1. r.ord \in Orders
    BY <1>0 DEF Rows
  <2>2. CASE r.ord = o
    BY <1>0, <1>1, <2>2
  <2>3. CASE r.ord # o
    BY <1>0, <1>1, <2>1, <2>3 DEF Orderly, Agreed
  <2> QED
    BY <2>2, <2>3
<1>3. ScheduledBacked'
  <2>1. ASSUME NEW u \in Orders, ord'[u] = "SCHEDULED"
        PROVE  /\ ord[u] = "SCHEDULED"
               /\ \A r \in Live(rows) : r.ord = u =>
                    \E s \in rows' : s.ord = u /\ s.st # "CANCELLED"
    <3>1. u # o /\ ord[u] = "SCHEDULED"
      BY <1>0, <2>1
    <3>2. ASSUME NEW r \in Live(rows), r.ord = u PROVE r \in rows' /\ r.st # "CANCELLED"
      BY <1>1, <3>1, <3>2 DEF Live
    <3> QED
      BY <3>1, <3>2
  <2> QED
    BY <2>1, BackedAgain DEF Orderly
<1> QED
  BY <1>2, <1>3

LEMMA DailyOrderly ==
  ASSUME Orderly, NEW q \in Requests, DailyTx(q)
  PROVE  Agreed' /\ ScheduledBacked'
<1> DEFINE now == job[q].now
           ends == Completing(rows, now)
           starts == Starting(rows, now)
           due == ends \cup starts
           affected == {r.ord : r \in due}
           of(o) == {r.st : r \in {s \in rows' : s.ord = o}}
<1>0. rows \in SUBSET Rows /\ ord \in [Orders -> OrderStatus]
  BY DEF Orderly, Ledger, Typed, TypeOK
<1>1. PICK g :
        /\ rows' = {g[r] : r \in rows}
        /\ \A r \in due : r \in rows /\ r.st # "CANCELLED"
        /\ \A r \in rows : /\ g[r].ord = r.ord
                           /\ r \in due => g[r].st \in {"IN_PRODUCTION", "COMPLETED"}
                           /\ r \notin due => g[r] = r
  BY DailyWrites DEF Orderly, Ledger
<1>2. \A o \in Orders :
        ord'[o] = IF o \notin affected THEN ord[o]
                  ELSE IF of(o) = {"COMPLETED"} THEN "COMPLETED"
                  ELSE IF ord[o] = "SCHEDULED" /\ of(o) \cap {"IN_PRODUCTION", "COMPLETED"} # {}
                       THEN "IN_PRODUCTION" ELSE ord[o]
  BY DEF DailyTx
<1> HIDE DEF ends, starts
<1>3. Agreed'
  <2> SUFFICES ASSUME NEW r \in rows
               PROVE  /\ g[r].st = "SCHEDULED" => ord'[g[r].ord] = "SCHEDULED"
                      /\ g[r].st = "CANCELLED" => ord'[g[r].ord] = "CANCELLED"
    BY <1>1 DEF Agreed
  <2>1. r.ord \in Orders
    BY <1>0 DEF Rows
  <2>2. CASE r.st = "SCHEDULED" /\ r \notin due
    <3>1. r \in Live(rows) /\ due \subseteq Live(rows)
      BY <1>1, <2>2 DEF Live
    <3>2. r.ord \notin affected
      BY <2>2, <3>1 DEF Orderly, Ledger, Booked, NoDoubleAssignment
    <3> QED
      BY <1>1, <1>2, <2>1, <2>2, <3>2 DEF Orderly, Agreed
  <2>3. CASE r.st = "CANCELLED"
    <3>1. g[r] = r /\ r \in rows' /\ ord[r.ord] = "CANCELLED"
      BY <1>1, <2>3 DEF Orderly, Agreed
    <3>2. "CANCELLED" \in of(r.ord)
      BY <2>3, <3>1
    <3>3. of(r.ord) # {"COMPLETED"}
      BY <3>2
    <3> HIDE DEF of, affected
    <3> QED
      BY <1>2, <2>1, <2>3, <3>1, <3>3
  <2>4. CASE r \in due
    BY <1>1, <2>4
  <2>5. CASE r.st \notin {"SCHEDULED", "CANCELLED"} /\ r \notin due
    BY <1>1, <2>5
  <2> QED
    BY <2>2, <2>3, <2>4, <2>5
<1>4. ScheduledBacked'
  <2>1. ASSUME NEW u \in Orders, ord'[u] = "SCHEDULED"
        PROVE  /\ ord[u] = "SCHEDULED"
               /\ \A r \in Live(rows) : r.ord = u =>
                    \E s \in rows' : s.ord = u /\ s.st # "CANCELLED"
    <3>1. ord[u] = "SCHEDULED"
      <4> HIDE DEF of, affected
      <4> QED
        BY <1>2, <2>1
    <3>2. ASSUME NEW r \in Live(rows), r.ord = u
          PROVE  g[r] \in rows' /\ g[r].ord = u /\ g[r].st # "CANCELLED"
      BY <1>1, <3>2 DEF Live
    <3> QED
      BY <3>1, <3>2
  <2> QED
    BY <2>1, BackedAgain DEF Orderly
<1> QED
  BY <1>3, <1>4

LEMMA MoveOrderly ==
  ASSUME Orderly, NEW q \in Requests, MoveTx(q)
  PROVE  Agreed' /\ ScheduledBacked'
<1>1. PICK s \in rows : \E t \in Rows :
        /\ rows' = (rows \ {s}) \cup {t}
        /\ t.ord = s.ord /\ t.st = s.st /\ s.st = "SCHEDULED"
        /\ UNCHANGED ord
  BY MoveWrites DEF Orderly
<1>2. PICK t \in Rows :
        /\ rows' = (rows \ {s}) \cup {t}
        /\ t.ord = s.ord /\ t.st = s.st /\ s.st = "SCHEDULED"
        /\ UNCHANGED ord
  BY <1>1
<1>3. Agreed'
  BY <1>2 DEF Orderly, Agreed
<1>4. \A r \in Live(rows) : \E u \in rows' : u.ord = r.ord /\ u.st # "CANCELLED"
  BY <1>2 DEF Live
<1>5. ScheduledBacked'
  BY <1>2, <1>4, BackedAgain DEF Orderly
<1> QED
  BY <1>3, <1>5

LEMMA PlaceOrderly ==
  ASSUME Orderly, NEW q \in Requests, PlaceTx(q)
  PROVE  Agreed' /\ ScheduledBacked'
<1>1. PICK t \in Rows :
        /\ rows' = rows \cup {t}
        /\ t.st = "SCHEDULED"
        /\ ord' = [ord EXCEPT ![t.ord] = "SCHEDULED"]
        /\ \A r \in rows : r.ord # t.ord
  BY PlaceWrites DEF Orderly
<1>2. rows \in SUBSET Rows /\ ord \in [Orders -> OrderStatus] /\ t.ord \in Orders
  BY DEF Orderly, Ledger, Typed, TypeOK, Rows
<1>3. \A r \in rows' : (r \in rows /\ ord'[r.ord] = ord[r.ord]) \/ r = t
  BY <1>1, <1>2 DEF Rows
<1>4. Agreed'
  BY <1>1, <1>2, <1>3 DEF Orderly, Agreed
<1>5. ASSUME NEW o \in Orders, ord'[o] = "SCHEDULED"
      PROVE  \E r \in rows' : r.ord = o /\ r.st # "CANCELLED"
  <2>1. CASE o = t.ord
    BY <1>1, <2>1
  <2>2. CASE o # t.ord
    <3>1. \E r \in Live(rows) : r.ord = o
      BY <1>1, <1>2, <1>5, <2>2 DEF Orderly, ScheduledBacked
    <3> QED
      BY <1>1, <3>1 DEF Live
  <2> QED
    BY <2>1, <2>2
<1>6. ScheduledBacked'
  BY <1>5 DEF ScheduledBacked, Live
<1> QED
  BY <1>4, <1>6

LEMMA CommitOrderly ==
  ASSUME Orderly, NEW q \in Requests, Commit(q), job[q].op = "run"
  PROVE  Agreed' /\ ScheduledBacked'
<1> DEFINE need == Needy(Tables, job[q])
           freed == Freed(Tables, job[q])
           cand == Candidates(Tables, job[q])
           muts == Mutables(Tables, job[q])
<1>1. PICK ok \in SUBSET need : \E new \in SUBSET Rows :
        /\ rows' = (rows \ freed) \cup new
        /\ \A t \in new : t.ord \in ok /\ t.st = "SCHEDULED"
        /\ \A o \in ok : \E t \in new : t.ord = o
        /\ plan[q].failed = need \ ok
        /\ plan[q].sched = ok \cup {o \in cand \ need : ord[o] = "SCHEDULED"}
        /\ ord' = Rescheduled(plan[q])
  BY RunWrites DEF Orderly
<1>2. PICK new \in SUBSET Rows :
        /\ rows' = (rows \ freed) \cup new
        /\ \A t \in new : t.ord \in ok /\ t.st = "SCHEDULED"
        /\ \A o \in ok : \E t \in new : t.ord = o
        /\ plan[q].failed = need \ ok
        /\ plan[q].sched = ok \cup {o \in cand \ need : ord[o] = "SCHEDULED"}
        /\ ord' = Rescheduled(plan[q])
  BY <1>1
<1>3. /\ need \subseteq muts /\ muts \subseteq cand /\ cand \subseteq Orders
      /\ \A o \in need : \A r \in rows \ freed : r.ord # o
      /\ \A o \in muts \ need : \E r \in rows \ freed : r.ord = o
      /\ \A r \in freed : r.ord \in muts
      /\ \A o \in cand : ord[o] \notin {"COMPLETED", "CANCELLED"}
      /\ \A o \in Orders : ord[o] = "SCHEDULED" => o \in cand
  BY DEF Needy, Mutables, Candidates, Freed, Tables
<1>4. rows \in SUBSET Rows
  BY DEF Orderly, Ledger, Typed, TypeOK
<1> HIDE DEF need, freed, cand, muts
<1>5. \A o \in Orders : /\ o \in ok => ord'[o] = "SCHEDULED"
                        /\ o \notin need => ord'[o] = ord[o]
                        /\ ord'[o] = "SCHEDULED" /\ o \notin ok
                             => o \notin need /\ ord[o] = "SCHEDULED"
  BY <1>2, <1>3 DEF Rescheduled
<1>6. Agreed'
  <2> SUFFICES ASSUME NEW r \in rows'
               PROVE  /\ r.st = "SCHEDULED" => ord'[r.ord] = "SCHEDULED"
                      /\ r.st = "CANCELLED" => ord'[r.ord] = "CANCELLED"
    BY DEF Agreed
  <2>1. CASE r \in new
    BY <1>2, <1>3, <1>5, <2>1
  <2>2. CASE r \in rows \ freed
    <3>1. r.ord \notin need /\ r.ord \in Orders
      BY <1>3, <1>4, <2>2 DEF Rows
    <3> QED
      BY <1>5, <2>2, <3>1 DEF Orderly, Agreed
  <2> QED
    BY <1>2, <2>1, <2>2
<1>7. ASSUME NEW o \in Orders, ord'[o] = "SCHEDULED"
      PROVE  \E r \in rows' : r.ord = o /\ r.st # "CANCELLED"
  <2>1. CASE o \in ok
    BY <1>2, <2>1
  <2>2. CASE o \notin ok
    <3>1. o \notin need /\ ord[o] = "SCHEDULED"
      BY <1>5, <1>7, <2>2
    <3>2. PICK r \in Live(rows) : r.ord = o
      BY <3>1 DEF Orderly, ScheduledBacked
    <3>3. CASE r \notin freed
      BY <1>2, <3>2, <3>3 DEF Live
    <3>4. CASE r \in freed
      <4>1. PICK s \in rows \ freed : s.ord = o
        BY <1>3, <3>1, <3>2, <3>4
      <4>2. s.st # "CANCELLED"
        BY <3>1, <4>1 DEF Orderly, Agreed
      <4> QED
        BY <1>2, <4>1, <4>2
    <3> QED
      BY <3>3, <3>4
  <2> QED
    BY <2>1, <2>2
<1>8. ScheduledBacked'
  BY <1>7 DEF ScheduledBacked, Live
<1> QED
  BY <1>6, <1>8

LEMMA UnfixedStep ==
  ASSUME Typed, Unfixed, [Next]_vars PROVE Unfixed'
<1> SUFFICES ASSUME NEW q \in Requests, pc'[q] \in {"capacity", "move"}
             PROVE  job'[q].order \notin Fixed
  BY DEF Unfixed
<1>1. CASE Validate(q)
  BY <1>1 DEF Validate, Goto, Typed, TypeOK
<1>2. CASE CheckRoom(q)
  BY <1>2 DEF CheckRoom, Goto, Typed, TypeOK, Unfixed
<1>3. CASE ~Validate(q) /\ ~CheckRoom(q)
  <2>1. ~(Start(q) \/ Step(q) \/ Crash(q) \/ Fail(q))
    BY <1>3, MoveReaches
  <2>2. pc'[q] = pc[q] /\ job'[q] = job[q]
    <3>1. CASE NewDay \/ Expire \/ UNCHANGED vars
      BY <3>1 DEF NewDay, Expire, vars
    <3> QED
      BY <2>1, <3>1, OthersStay DEF Next
  <2> QED
    BY <2>2 DEF Unfixed
<1> QED
  BY <1>1, <1>2, <1>3

(* A transaction, of an operation that is permitted, or no change at all.  *)
LEMMA WriterCases ==
  ASSUME Operations \cap {"apply", "issueCancel"} = {}, Ledger, [Next]_vars
  PROVE  \/ UNCHANGED <<ord, rows, cap>>
         \/ \E q \in Requests : \/ Commit(q) /\ job[q].op = "run"
                                \/ CancelTx(q) \/ DailyTx(q) \/ MoveTx(q) \/ PlaceTx(q)
<1>1. CASE <<data, edits>>' # <<data, edits>>
  <2>1. PICK q \in Requests : Writes(q)
    BY <1>1, OnlyWritersWrite DEF Ledger
  <2>2. Commit(q) => job[q].op = "run"
    BY Fitting DEF Commit, Fits, Permitted, Ledger
  <2> QED
    BY <2>1, <2>2 DEF Writes
<1>2. CASE <<data, edits>>' = <<data, edits>>
  BY <1>2 DEF data
<1> QED
  BY <1>1, <1>2

LEMMA OrderlyStep ==
  ASSUME Operations \cap {"apply", "issueCancel"} = {}
  PROVE  Orderly /\ [Next]_vars => Orderly'
<1> SUFFICES ASSUME Orderly, [Next]_vars PROVE Orderly'
  OBVIOUS
<1>1. Ledger' /\ Unfixed'
  BY LedgerStep, UnfixedStep DEF Orderly, Ledger
<1>2. CASE UNCHANGED <<ord, rows, cap>>
  BY <1>1, <1>2 DEF Orderly, Agreed, ScheduledBacked
<1>3. ASSUME NEW q \in Requests,
             \/ Commit(q) /\ job[q].op = "run"
             \/ CancelTx(q) \/ DailyTx(q) \/ MoveTx(q) \/ PlaceTx(q)
      PROVE  Orderly'
  BY <1>1, <1>3, CommitOrderly, CancelOrderly, DailyOrderly, MoveOrderly, PlaceOrderly
     DEF Orderly
<1> QED
  BY <1>2, <1>3, WriterCases DEF Orderly

LEMMA InitOrderly == Init => Orderly
<1> SUFFICES ASSUME Init PROVE Orderly
  OBVIOUS
<1>1. PICK booked \in SUBSET Orders : \E at \in [booked -> Cells] :
        /\ ord = [o \in Orders |-> IF o \in booked THEN "SCHEDULED" ELSE "PENDING"]
        /\ rows = {[ord |-> o, cell |-> at[o], st |-> "SCHEDULED", by |-> None] :
                     o \in booked}
  BY DEF Init
<1>2. PICK at \in [booked -> Cells] :
        /\ ord = [o \in Orders |-> IF o \in booked THEN "SCHEDULED" ELSE "PENDING"]
        /\ rows = {New(o, at[o], None) : o \in booked}
  BY <1>1 DEF New
<1>3. \A r \in rows : r.ord \in booked /\ r.st = "SCHEDULED"
  BY <1>2 DEF New
<1>4. ASSUME NEW o \in booked PROVE \E r \in rows : r.ord = o /\ r.st # "CANCELLED"
  <2>1. New(o, at[o], None) \in rows /\ New(o, at[o], None).ord = o
    BY <1>2 DEF New
  <2> QED
    BY <1>3, <2>1
<1>5. Agreed
  BY <1>2, <1>3 DEF Agreed
<1>6. ScheduledBacked
  BY <1>2, <1>4 DEF ScheduledBacked, Live
<1>7. Unfixed
  BY DEF Init, Unfixed
<1> QED
  BY <1>5, <1>6, <1>7, InitLedger DEF Orderly

-------------------------------------------------------------------------------
(***************************************************************************)
(* The theorems.                                                           *)
(***************************************************************************)

(* An order that was cancelled is not produced, and holds no capacity: no  *)
(* run, move, placing or daily tick gives it a place again, and none was   *)
(* under way that could.                                                   *)
THEOREM CancelledAreReleased ==
  ASSUME Operations \cap {"apply", "issueCancel"} = {} PROVE Spec => []CancelledReleased
<1>1. Orderly => CancelledReleased
  BY DEF Orderly, Agreed, CancelledReleased
<1> QED
  BY <1>1, InitOrderly, OrderlyStep, PTL DEF Spec

(* An order shown as scheduled has a place in the schedule.                *)
THEOREM ScheduledAreBacked ==
  ASSUME Operations \cap {"apply", "issueCancel"} = {} PROVE Spec => []ScheduledBacked
<1>1. Orderly => ScheduledBacked
  BY DEF Orderly
<1> QED
  BY <1>1, InitOrderly, OrderlyStep, PTL DEF Spec

(* A fixed order, and one in production or completed, keeps its places,    *)
(* whatever runs, moves or is cancelled.                                   *)
THEOREM ImmutablesAreKept ==
  ASSUME Operations \cap {"apply", "issueCancel"} = {} PROVE Spec => ImmutableKept
<1>1. Orderly /\ [Next]_vars =>
        [\A o \in Orders : o \in Fixed \/ ord[o] \in {"IN_PRODUCTION", "COMPLETED"}
                             => Places(rows', o) = Places(rows, o)]_vars
  <2> SUFFICES ASSUME Orderly, [Next]_vars, NEW o \in Orders,
                      o \in Fixed \/ ord[o] \in {"IN_PRODUCTION", "COMPLETED"}
               PROVE  Places(rows', o) = Places(rows, o)
    OBVIOUS
  <2>0. Typed /\ Ledger
    BY DEF Orderly, Ledger
  <2>1. CASE UNCHANGED <<ord, rows, cap>>
    BY <2>1 DEF Places
  <2>2. ASSUME NEW g, rows' = {g[r] : r \in rows},
               \A r \in rows : g[r].ord = r.ord /\ g[r].by = r.by /\ g[r].cell = r.cell
        PROVE  Places(rows', o) = Places(rows, o)
    BY <2>2 DEF Places
  <2>3. ASSUME NEW q \in Requests, CancelTx(q) PROVE Places(rows', o) = Places(rows, o)
    BY <2>0, <2>2, <2>3, CancelWrites
  <2>4. ASSUME NEW q \in Requests, DailyTx(q) PROVE Places(rows', o) = Places(rows, o)
    BY <2>0, <2>2, <2>4, DailyWrites
  <2>5. ASSUME NEW old, NEW new, rows' = (rows \ old) \cup new,
               \A r \in old \cup new : r.ord # o
        PROVE  Places(rows', o) = Places(rows, o)
    <3>1. {s \in rows' : s.ord = o} = {s \in rows : s.ord = o}
      BY <2>5
    <3> QED
      BY <3>1 DEF Places
  <2>6. ASSUME NEW q \in Requests, MoveTx(q) PROVE Places(rows', o) = Places(rows, o)
    <3>1. PICK s \in rows : \E t \in Rows :
            /\ rows' = (rows \ {s}) \cup {t}
            /\ s.ord = job[q].order /\ s.st = "SCHEDULED" /\ t.ord = s.ord
      BY <2>0, <2>6, MoveWrites
    <3>2. PICK t \in Rows : /\ rows' = (rows \ {s}) \cup {t}
                            /\ s.ord = job[q].order /\ s.st = "SCHEDULED" /\ t.ord = s.ord
      BY <3>1
    <3>3. s.ord # o
      BY <2>6, <3>2 DEF Orderly, Agreed, Unfixed, MoveTx
    <3>4. \A r \in {s} \cup {t} : r.ord # o
      BY <3>2, <3>3
    <3> QED
      BY <2>5, <3>2, <3>4
  <2>7. ASSUME NEW q \in Requests, PlaceTx(q) PROVE Places(rows', o) = Places(rows, o)
    <3>1. PICK t \in Rows : /\ rows' = rows \cup {t}
                            /\ t.ord = job[q].order /\ ord[t.ord] = "PENDING"
      BY <2>0, <2>7, PlaceWrites
    <3>2. t.ord # o
      BY <2>7, <3>1 DEF Orderly, Unfixed, PlaceTx
    <3>3. rows' = (rows \ {}) \cup {t} /\ \A r \in {} \cup {t} : r.ord # o
      BY <3>1, <3>2
    <3> QED
      BY <2>5, <3>3
  <2>8. ASSUME NEW q \in Requests, Commit(q), job[q].op = "run"
        PROVE  Places(rows', o) = Places(rows, o)
    <3>1. PICK ok \in SUBSET Needy(Tables, job[q]) : \E new \in SUBSET Rows :
            /\ rows' = (rows \ Freed(Tables, job[q])) \cup new
            /\ \A t \in new : t.ord \in ok
      BY <2>0, <2>8, RunWrites
    <3>2. o \notin Mutables(Tables, job[q])
      BY DEF Mutables, Candidates, Tables
    <3>3. o \notin ok /\ \A r \in Freed(Tables, job[q]) : r.ord # o
      BY <3>2 DEF Needy, Freed
    <3> QED
      BY <2>5, <3>1, <3>3
  <2> QED
    BY <2>0, <2>1, <2>3, <2>4, <2>6, <2>7, <2>8, WriterCases
<1> QED
  BY <1>1, InitOrderly, OrderlyStep, PTL DEF Spec, ImmutableKept

(* Nobody takes away or moves an assignment in production.                 *)
THEOREM ProductionIsUntouched ==
  ASSUME Operations \cap {"apply", "issueCancel"} = {} PROVE Spec => ProductionUntouched
<1>1. Orderly /\ [Next]_vars =>
        [\A r \in rows : r.st = "IN_PRODUCTION" =>
           \E s \in rows' : s.ord = r.ord /\ s.by = r.by /\ s.cell = r.cell]_vars
  <2> SUFFICES ASSUME Orderly, [Next]_vars, NEW r \in rows, r.st = "IN_PRODUCTION"
               PROVE  \E s \in rows' : s.ord = r.ord /\ s.by = r.by /\ s.cell = r.cell
    OBVIOUS
  <2>0. Typed /\ Ledger
    BY DEF Orderly, Ledger
  <2>1. CASE UNCHANGED <<ord, rows, cap>>
    BY <2>1
  <2>2. ASSUME NEW q \in Requests, CancelTx(q)
        PROVE  \E s \in rows' : s.ord = r.ord /\ s.by = r.by /\ s.cell = r.cell
    BY <2>0, <2>2, CancelWrites
  <2>3. ASSUME NEW q \in Requests, DailyTx(q)
        PROVE  \E s \in rows' : s.ord = r.ord /\ s.by = r.by /\ s.cell = r.cell
    BY <2>0, <2>3, DailyWrites
  <2>4. ASSUME NEW q \in Requests, MoveTx(q) \/ PlaceTx(q) PROVE r \in rows'
    BY <2>0, <2>4, MoveWrites, PlaceWrites
  <2>5. ASSUME NEW q \in Requests, Commit(q), job[q].op = "run" PROVE r \in rows'
    <3>1. r \notin Freed(Tables, job[q])
      BY DEF Freed
    <3> QED
      BY <2>0, <2>5, <3>1, RunWrites
  <2> QED
    BY <2>0, <2>1, <2>2, <2>3, <2>4, <2>5, WriterCases
<1> QED
  BY <1>1, InitOrderly, OrderlyStep, PTL DEF Spec, ProductionUntouched

-------------------------------------------------------------------------------
(***************************************************************************)
(* The optimistic check of a preview in ScheduleCore, for any orders,      *)
(* factories, requests, operations, policies and bounds: what a preview    *)
(* that passes the version check may have missed, how often one is         *)
(* applied, and what the ledger owes to it.                                *)
(***************************************************************************)

(***************************************************************************)
(* The invariant.  An apply compares versions long after the preview read  *)
(* the tables, and OccSound speaks of the moment it commits.  So every     *)
(* copy of a preview, in Redis or in the hands of an apply, is followed    *)
(* through the steps in between: if a transaction came after it, then a    *)
(* silent one was counted, or the version went up, or the increment is     *)
(* still due from a request that has the lock (Outdated).                  *)
(***************************************************************************)
Due(r) == pc[r] = "bump" \/ (pc[r] = "settle" /\ plan[r].upd = {})
Outdated(v, k) == k < quiet \/ v < version \/ \E r \in Requests : Due(r)

Held(q) == job[q].op = "apply" /\ pc[q] \in {"lock", "check", "commit"}
Copy(q) == [plan |-> plan[q], version |-> job[q].expect,
            torn |-> job[q].torn, quiet |-> job[q].quiet]

Valid(c) ==
  /\ c.version <= version /\ c.quiet <= quiet
  /\ c.torn \/ c.plan.basis = edits \/ Outdated(c.version, c.quiet)
Ageing ==
  /\ \A p \in Requests : preview[p] # None => Valid(preview[p])
  /\ \A q \in Requests : Held(q) => Valid(Copy(q))

(* The version of an apply that is past the check does not move.           *)
Checked ==
  \A q \in Requests : Held(q) /\ pc[q] = "commit" => job[q].expect = version

(* A preview is stored once, by a request that then is over.               *)
Stored ==
  /\ \A p \in Requests : preview[p] # None => pc[p] = "done"
  /\ \A q \in Requests : Held(q) => pc[job[q].preview] = "done"
  /\ \A c \in Applied : pc[c.preview] = "done"

(* The other copies of a preview that was applied are outdated.            *)
Spent ==
  \A c \in Applied :
    /\ preview[c.preview] # None =>
         Outdated(preview[c.preview].version, preview[c.preview].quiet)
    /\ \A q \in Requests : Held(q) /\ job[q].preview = c.preview =>
         Outdated(job[q].expect, job[q].quiet)

Dated == Typed /\ Guarded /\ Ageing /\ Checked /\ Stored

-------------------------------------------------------------------------------
(* What one step does to the counters.                                     *)

LEMMA OnlyUpwards ==
  ASSUME Typed, [Next]_vars
  PROVE  /\ version <= version' /\ quiet <= quiet' /\ edits <= edits'
         /\ version \in Nat /\ version' \in Nat /\ quiet \in Nat /\ quiet' \in Nat
         /\ edits \in Nat /\ edits' \in Nat
<1> USE DEF Typed, TypeOK
<1>1. ASSUME NEW q \in Requests, Start(q)
      PROVE  UNCHANGED <<version, quiet, edits>>
  BY <1>1 DEF Start, StartRun, StartPreview, StartApply, StartCancel, StartDelete,
              StartIssueCancel, StartDaily, StartMove, StartPlace, Submit, ghosts
<1>2. ASSUME NEW q \in Requests, Step(q)
      PROVE  /\ version' \in {version, version + 1} /\ quiet' \in {quiet, quiet + 1}
             /\ edits' \in {edits, edits + 1}
  <2>1. CASE Writes(q)
    BY <2>1 DEF Writes, Commit, CancelTx, DailyTx, MoveTx, PlaceTx, Committed, ghosts
  <2>2. CASE ~Writes(q)
    BY <1>2, <2>2 DEF Writes, Step, TakeLock, Refused, Unlock, ReadOrders, Plan,
       StorePreview, CheckVersion, Precheck, Validate, CheckRoom, Bump, Settle,
       ForgetPreview, ghosts
  <2> QED
    BY <2>1, <2>2
<1>3. ASSUME NEW q \in Requests, Crash(q) \/ Fail(q)
      PROVE  version' = version /\ edits' = edits /\ quiet' \in {quiet, quiet + 1}
  BY <1>3 DEF Crash, Fail, Stops
<1>4. CASE NewDay \/ Expire \/ UNCHANGED vars
  BY <1>4 DEF NewDay, Expire, vars, ghosts
<1> QED
  BY <1>1, <1>2, <1>3, <1>4 DEF Next

(* An increment that is due stays due until the version moves, or whoever  *)
(* owes it fails and the transaction turns out to have been silent.        *)
LEMMA DueStays ==
  ASSUME Typed, [Next]_vars, NEW r \in Requests, Due(r)
  PROVE  Due(r)' \/ version < version' \/ quiet < quiet'
<1> USE DEF Typed, TypeOK, Goto
<1>1. CASE Start(r) \/ Step(r) \/ Crash(r) \/ Fail(r)
  <2>1. ~Start(r)
    BY DEF Due, Start, StartRun, StartPreview, StartApply, StartCancel, StartDelete,
           StartIssueCancel, StartDaily, StartMove, StartPlace, Submit
  <2>2. CASE Crash(r) \/ Fail(r)
    <3>1. quiet' = quiet + 1
      BY <2>2 DEF Crash, Fail, Stops, Due
    <3> QED
      BY <3>1
  <2>3. CASE Step(r)
    <3>1. Bump(r) \/ Settle(r)
      BY <2>3 DEF Due, Step, TakeLock, Refused, Unlock, ReadOrders, Plan, StorePreview,
                  CheckVersion, Commit, CancelTx, DailyTx, Precheck, Validate, CheckRoom,
                  MoveTx, PlaceTx, ForgetPreview
    <3>2. version' = version + 1
      BY <3>1 DEF Bump, Settle
    <3> QED
      BY <3>2
  <2> QED
    BY <1>1, <2>1, <2>2, <2>3
<1>2. ASSUME NEW q \in Requests \ {r}, Start(q) \/ Step(q) \/ Crash(q) \/ Fail(q)
      PROVE  Due(r)'
  <2>1. pc'[r] = pc[r] /\ plan'[r] = plan[r]
    BY <1>2, OthersStay
  <2> QED
    BY <2>1 DEF Due
<1>3. CASE NewDay \/ Expire \/ UNCHANGED vars
  BY <1>3 DEF NewDay, Expire, vars, Due
<1> QED
  BY <1>1, <1>2, <1>3 DEF Next

(* A transaction that counts as silent, or an increment that is due.       *)
LEMMA CommitIsDue ==
  ASSUME Typed, NEW q \in Requests, Commit(q), job[q].op = "apply"
  PROVE  Due(q)'
<1>1. /\ plan' = plan
      /\ pc'[q] = IF plan[q].upd # {} THEN "bump" ELSE "settle"
  BY DEF Commit, Goto, Typed, TypeOK
<1> QED
  BY <1>1 DEF Due

LEMMA EditsShow ==
  ASSUME Typed, [Next]_vars, edits' # edits
  PROVE  quiet < quiet' \/ \E r \in Requests : Due(r)'
<1> USE DEF Typed, TypeOK, Goto
<1>1. <<data, edits>>' # <<data, edits>>
  OBVIOUS
<1>2. PICK q \in Requests : Writes(q)
  BY <1>1, OnlyWritersWrite
<1>3. CASE Commit(q)
  <2>1. CASE job[q].op = "apply"
    BY <1>3, <2>1, CommitIsDue
  <2>2. CASE job[q].op # "apply" /\ plan[q].upd # {}
    BY <1>3, <2>2 DEF Commit, Due
  <2>3. CASE job[q].op # "apply" /\ plan[q].upd = {}
    <3>1. quiet' = quiet + 1
      BY <1>3, <2>3 DEF Commit, Committed
    <3> QED
      BY <3>1
  <2> QED
    BY <2>1, <2>2, <2>3
<1>4. CASE CancelTx(q)
  <2>1. IF job[q].op = "issueCancel" THEN quiet' = quiet + 1 ELSE pc'[q] = "bump"
    BY <1>4 DEF CancelTx, Committed
  <2> QED
    BY <2>1 DEF Due
<1>5. CASE DailyTx(q)
  <2>1. quiet' = quiet + 1
    BY <1>5 DEF DailyTx, Committed
  <2> QED
    BY <2>1
<1>6. CASE MoveTx(q) \/ PlaceTx(q)
  <2>1. pc'[q] = "bump"
    BY <1>6 DEF MoveTx, PlaceTx, ghosts
  <2> QED
    BY <2>1 DEF Due
<1> QED
  BY <1>2, <1>3, <1>4, <1>5, <1>6 DEF Writes

(* What is outdated stays outdated, and what is valid stays valid.         *)
LEMMA OutdatedStays ==
  ASSUME Typed, [Next]_vars, NEW v \in Int, NEW k \in Int, v <= version, k <= quiet,
         Outdated(v, k)
  PROVE  Outdated(v, k)'
<1>1. version <= version' /\ quiet <= quiet' /\ version \in Nat /\ version' \in Nat
      /\ quiet \in Nat /\ quiet' \in Nat
  BY OnlyUpwards
<1>2. ASSUME NEW r \in Requests, Due(r) PROVE Due(r)' \/ version < version' \/ quiet < quiet'
  BY <1>2, DueStays
<1> QED
  BY <1>1, <1>2 DEF Outdated

LEMMA ValidStays ==
  ASSUME Typed, [Next]_vars, NEW c, c.version \in Int, c.quiet \in Int, Valid(c)
  PROVE  Valid(c)'
<1>1. /\ version <= version' /\ quiet <= quiet' /\ version \in Nat /\ version' \in Nat
      /\ quiet \in Nat /\ quiet' \in Nat
  BY OnlyUpwards
<1>2. c.version \in Int /\ c.quiet \in Int
  OBVIOUS
<1>3. c.version <= version' /\ c.quiet <= quiet'
  BY <1>1, <1>2 DEF Valid
<1>4. CASE Outdated(c.version, c.quiet)
  BY <1>2, <1>3, <1>4, OutdatedStays DEF Valid
<1>5. CASE c.torn
  BY <1>3, <1>5 DEF Valid
<1>6. CASE c.plan.basis = edits
  <2>1. CASE edits' = edits
    BY <1>3, <1>6, <2>1 DEF Valid
  <2>2. CASE edits' # edits
    <3>1. quiet < quiet' \/ \E r \in Requests : Due(r)'
      BY <2>2, EditsShow
    <3>2. c.quiet < quiet' \/ \E r \in Requests : Due(r)'
      BY <1>1, <1>2, <3>1 DEF Valid
    <3> QED
      BY <1>3, <3>2 DEF Valid, Outdated
  <2> QED
    BY <2>1, <2>2
<1> QED
  BY <1>4, <1>5, <1>6 DEF Valid

-------------------------------------------------------------------------------
(* Where the copies of a preview come from.                                *)

LEMMA HeldReaches ==
  ASSUME Typed, [Next]_vars, NEW q \in Requests, Held(q)'
  PROVE  \/ /\ Held(q) /\ plan'[q] = plan[q] /\ job'[q] = job[q]
            /\ \/ pc'[q] = pc[q]
               \/ pc'[q] = "check"
               \/ CheckVersion(q) /\ pc'[q] = "commit"
         \/ \E p \in Requests : StartApply(q, p)
<1> USE DEF Typed, TypeOK, Goto
<1>0. Fits(pc[q], job[q], seen[q], plan[q])
  BY Fitting
<1>1. ASSUME NEW r \in Requests \ {q}, Start(r) \/ Step(r) \/ Crash(r) \/ Fail(r)
      PROVE  Held(q) /\ plan'[q] = plan[q] /\ job'[q] = job[q] /\ pc'[q] = pc[q]
  <2>1. plan'[q] = plan[q] /\ job'[q] = job[q] /\ pc'[q] = pc[q]
    BY <1>1, OthersStay
  <2> QED
    BY <2>1 DEF Held
<1>2. CASE NewDay \/ Expire \/ UNCHANGED vars
  BY <1>2 DEF NewDay, Expire, vars, Held
<1>3. CASE Start(q)
  BY <1>3 DEF Start, StartRun, StartPreview, StartCancel, StartDelete,
              StartIssueCancel, StartDaily, StartMove, StartPlace, Submit, Held
<1>4. ~Crash(q) /\ ~Fail(q)
  BY DEF Crash, Fail, Forgets, Held, NoJob
<1>5. CASE Step(q)
  <2>1. CASE TakeLock(q)
    BY <1>0, <2>1 DEF TakeLock, AfterLock, Held, Fits
  <2>2. CASE CheckVersion(q)
    BY <1>0, <2>2 DEF CheckVersion, Held, Fits
  <2>3. /\ ~Refused(q) /\ ~Unlock(q) /\ ~ReadOrders(q) /\ ~StorePreview(q)
        /\ ~Commit(q) /\ ~CancelTx(q) /\ ~DailyTx(q) /\ ~Validate(q) /\ ~CheckRoom(q)
    BY DEF Refused, Unlock, ReadOrders, StorePreview, Commit, CancelTx, DailyTx, Validate,
           CheckRoom, Held
  <2>4. ~Plan(q) /\ ~Precheck(q)
    BY <1>0 DEF Plan, Precheck, Held, Fits, Forgets
  <2>5. ~MoveTx(q) /\ ~PlaceTx(q) /\ ~Bump(q) /\ ~Settle(q) /\ ~ForgetPreview(q)
    BY DEF MoveTx, PlaceTx, Bump, Settle, ForgetPreview, Held
  <2> QED
    BY <1>5, <2>1, <2>2, <2>3, <2>4, <2>5 DEF Step
<1> QED
  BY <1>1, <1>2, <1>3, <1>4, <1>5 DEF Next

(* What an apply is started with.                                          *)
LEMMA ApplyCopies ==
  ASSUME Typed, NEW q \in Requests, NEW p \in Requests, StartApply(q, p)
  PROVE  /\ preview[p] \in Previews /\ preview[p] # None
         /\ pc'[q] = "lock" /\ job'[q].preview = p
         /\ job'[q].expect = preview[p].version /\ job'[q].torn = preview[p].torn
         /\ job'[q].quiet = preview[p].quiet /\ plan'[q] = preview[p].plan
         /\ UNCHANGED <<data, version, ghosts, preview>>
BY DEF StartApply, Submit, Goto, Typed, TypeOK

(* A stored preview was there before, or has just been stored.             *)
LEMMA PreviewReaches ==
  ASSUME Typed, [Next]_vars, NEW p \in Requests, preview'[p] # None
  PROVE  preview'[p] = preview[p] \/ StorePreview(p)
<1> USE DEF Typed, TypeOK
<1>1. ASSUME NEW q \in Requests, Start(q) \/ Crash(q) \/ Fail(q) PROVE preview' = preview
  BY <1>1 DEF Start, StartRun, StartPreview, StartApply, StartCancel, StartDelete, Crash,
              Fail, Stops, StartIssueCancel, StartDaily, StartMove, StartPlace, Submit
<1>2. ASSUME NEW q \in Requests, ForgetPreview(q) PROVE preview'[p] = preview[p]
  BY <1>2 DEF ForgetPreview
<1>3. ASSUME NEW q \in Requests, StorePreview(q) PROVE preview'[p] = preview[p] \/ p = q
  BY <1>3 DEF StorePreview
<1>4. ASSUME NEW q \in Requests, Step(q), ~StorePreview(q), ~ForgetPreview(q)
      PROVE  preview' = preview
  BY <1>4 DEF Step, TakeLock, Refused, Unlock, ReadOrders, Plan, CheckVersion, Commit,
              CancelTx, DailyTx, Precheck, Validate, CheckRoom, MoveTx, PlaceTx, Bump, Settle
<1>5. CASE NewDay \/ Expire \/ UNCHANGED vars
  BY <1>5 DEF NewDay, Expire, vars
<1> QED
  BY <1>1, <1>2, <1>3, <1>4, <1>5 DEF Next

(* The commits of the engine.                                              *)
LEMMA OnlyTheEngineCommits ==
  ASSUME Typed, [Next]_vars, commits' # commits PROVE \E q \in Requests : Commit(q)
<1>1. ASSUME NEW q \in Requests, Start(q) \/ Crash(q) \/ Fail(q) PROVE commits' = commits
  BY <1>1 DEF Start, StartRun, StartPreview, StartApply, StartCancel, StartDelete, Crash,
              Fail, Stops, StartIssueCancel, StartDaily, StartMove, StartPlace, Submit,
              ghosts
<1>2. ASSUME NEW q \in Requests, CancelTx(q) \/ DailyTx(q) \/ MoveTx(q) \/ PlaceTx(q)
      PROVE  commits' = commits
  BY <1>2 DEF CancelTx, DailyTx, MoveTx, PlaceTx, ghosts
<1>3. ASSUME NEW q \in Requests, Step(q), ~Writes(q) PROVE commits' = commits
  BY <1>3 DEF Writes, Step, TakeLock, Refused, Unlock, ReadOrders, Plan, StorePreview,
              CheckVersion, Precheck, Validate, CheckRoom, Bump, Settle, ForgetPreview,
              ghosts
<1>4. CASE NewDay \/ Expire \/ UNCHANGED vars
  BY <1>4 DEF NewDay, Expire, vars, ghosts
<1> QED
  BY <1>1, <1>2, <1>3, <1>4 DEF Next, Writes

LEMMA CommitsReach ==
  ASSUME Typed, [Next]_vars, NEW c \in commits', c \notin commits
  PROVE  \E q \in Requests :
           /\ Commit(q)
           /\ c = [by |-> q,
                   preview |-> IF job[q].op = "apply" THEN job[q].preview ELSE None,
                   fresh |-> plan[q].basis = edits,
                   torn |-> job[q].op = "apply" /\ job[q].torn,
                   quiet |-> job[q].op = "apply" /\ quiet # job[q].quiet]
<1>1. PICK q \in Requests : Commit(q)
  BY OnlyTheEngineCommits
<1> QED
  BY <1>1 DEF Commit

LEMMA CommitsStay ==
  ASSUME Typed, [Next]_vars PROVE commits \subseteq commits'
<1>1. CASE commits' = commits
  BY <1>1
<1>2. CASE commits' # commits
  <2>1. PICK q \in Requests : Commit(q)
    BY <1>2, OnlyTheEngineCommits
  <2> QED
    BY <2>1 DEF Commit
<1> QED
  BY <1>1, <1>2

LEMMA DoneStays ==
  ASSUME Typed, [Next]_vars, NEW p \in Requests, pc[p] = "done" PROVE pc'[p] = "done"
<1> USE DEF Typed, TypeOK, Goto
<1>1. ASSUME NEW r \in Requests \ {p}, Start(r) \/ Step(r) \/ Crash(r) \/ Fail(r)
      PROVE  pc'[p] = pc[p]
  BY <1>1, OthersStay
<1>2. ~Start(p) /\ ~Crash(p) /\ ~Fail(p)
  BY DEF Start, StartRun, StartPreview, StartApply, StartCancel, StartDelete, Crash, Fail,
         Stops, StartIssueCancel, StartDaily, StartMove, StartPlace, Submit
<1>3. ~Step(p)
  BY DEF Step, TakeLock, Refused, Unlock, ReadOrders, Plan, StorePreview, CheckVersion,
         Commit, CancelTx, DailyTx, Precheck, Validate, CheckRoom, MoveTx, PlaceTx, Bump,
         Settle, ForgetPreview
<1>4. CASE NewDay \/ Expire \/ UNCHANGED vars
  BY <1>4 DEF NewDay, Expire, vars
<1> QED
  BY <1>1, <1>2, <1>3, <1>4 DEF Next

-------------------------------------------------------------------------------
(* The steps of the invariant.                                             *)

LEMMA HeldTyped ==
  ASSUME Typed, NEW q \in Requests, Held(q)
  PROVE  /\ job[q].expect \in Int /\ job[q].quiet \in Nat /\ job[q].torn \in BOOLEAN
         /\ job[q].preview \in Requests /\ plan[q] \in Plans
<1>1. job[q] \in Jobs /\ job[q].op = "apply"
  BY DEF Held, Typed, TypeOK
<1>2. plan[q] \in Plans
  BY Fitting DEF Held, Fits
<1> QED
  BY <1>1, <1>2 DEF Jobs

LEMMA AgeingStep == Typed /\ Ageing /\ [Next]_vars => Ageing'
<1> SUFFICES ASSUME Typed, Ageing, [Next]_vars PROVE Ageing'
  OBVIOUS
<1>1. ASSUME NEW p \in Requests, preview'[p] # None PROVE Valid(preview[p])'
  <2>1. CASE preview'[p] = preview[p]
    <3>1. PICK c : c = preview[p]
      OBVIOUS
    <3>2. c.version \in Int /\ c.quiet \in Int /\ Valid(c)
      BY <1>1, <2>1, <3>1 DEF Ageing, Typed, TypeOK, Previews
    <3>3. Valid(c)'
      BY <3>2, ValidStays
    <3> QED
      BY <2>1, <3>1, <3>3 DEF Valid, Outdated
  <2>2. CASE StorePreview(p)
    <3>1. /\ preview'[p] = [plan |-> plan[p], version |-> version,
                            torn |-> edits # plan[p].basis, quiet |-> quiet]
          /\ version' = version /\ quiet' = quiet /\ edits' = edits
      BY <2>2 DEF StorePreview, Typed, TypeOK, ghosts
    <3>2. version \in Nat /\ quiet \in Nat
      BY DEF Typed, TypeOK
    <3>3. preview'[p].version <= version' /\ preview'[p].quiet <= quiet'
      BY <3>1, <3>2
    <3>4. preview'[p].plan = plan[p] /\ preview'[p].torn = (edits # plan[p].basis)
      BY <3>1
    <3>5. preview'[p].torn \/ preview'[p].plan.basis = edits'
      BY <3>1, <3>4
    <3> QED
      BY <3>3, <3>5 DEF Valid
  <2> QED
    BY <1>1, <2>1, <2>2, PreviewReaches
<1>2. ASSUME NEW q \in Requests, Held(q)' PROVE Valid(Copy(q))'
  <2>1. CASE Held(q) /\ plan'[q] = plan[q] /\ job'[q] = job[q]
    <3>1. Valid(Copy(q)) /\ Copy(q)' = Copy(q)
      BY <2>1 DEF Ageing, Copy
    <3>2. Copy(q).version \in Int /\ Copy(q).quiet \in Int
      BY <2>1, HeldTyped DEF Copy
    <3> QED
      BY <3>1, <3>2, ValidStays
  <2>2. ASSUME NEW p \in Requests, StartApply(q, p) PROVE Valid(Copy(q))'
    <3>1. PICK c : c = preview[p]
      OBVIOUS
    <3>2. c.version \in Int /\ c.quiet \in Int /\ Valid(c)
      BY <2>2, <3>1, ApplyCopies DEF Ageing, Previews
    <3>3. Valid(c)'
      BY <3>2, ValidStays
    <3>4. /\ Copy(q)'.version = c.version /\ Copy(q)'.quiet = c.quiet
          /\ Copy(q)'.torn = c.torn /\ Copy(q)'.plan = c.plan
      BY <2>2, <3>1, ApplyCopies DEF Copy
    <3> QED
      BY <3>3, <3>4 DEF Valid, Outdated
  <2> QED
    BY <1>2, <2>1, <2>2, HeldReaches
<1> QED
  BY <1>1, <1>2 DEF Ageing

(* Only the holder of the lock owes an increment, or makes one.            *)
LEMMA DueHolds ==
  ASSUME Typed, Guarded, NEW r \in Requests, Due(r) \/ Bump(r) \/ Settle(r)
  PROVE  holder[Type] = r /\ pc[r] \in {"bump", "settle"}
BY DEF Guarded, Locked, Due, Bump, Settle

LEMMA VersionMoves ==
  ASSUME Typed, [Next]_vars, version' # version
  PROVE  \E r \in Requests : Bump(r) \/ Settle(r)
<1>1. ASSUME NEW q \in Requests, Start(q) \/ Crash(q) \/ Fail(q) PROVE version' = version
  BY <1>1 DEF Start, StartRun, StartPreview, StartApply, StartCancel, StartDelete, Crash,
              Fail, Stops, StartIssueCancel, StartDaily, StartMove, StartPlace, Submit
<1>2. ASSUME NEW q \in Requests, Step(q), ~Bump(q), ~Settle(q) PROVE version' = version
  BY <1>2 DEF Step, TakeLock, Refused, Unlock, ReadOrders, Plan, StorePreview,
              CheckVersion, Commit, CancelTx, DailyTx, Precheck, Validate, CheckRoom,
              MoveTx, PlaceTx, ForgetPreview
<1>3. CASE NewDay \/ Expire \/ UNCHANGED vars
  BY <1>3 DEF NewDay, Expire, vars
<1> QED
  BY <1>1, <1>2, <1>3 DEF Next

LEMMA CheckedStep ==
  ASSUME Typed, Guarded, Checked, [Next]_vars PROVE Checked'
<1> SUFFICES ASSUME NEW q \in Requests, Held(q)', pc'[q] = "commit"
             PROVE  job'[q].expect = version'
  BY DEF Checked
<1>1. CASE CheckVersion(q)
  <2>1. /\ Held(q) /\ job'[q] = job[q] /\ version' = version
        /\ job[q].expect \in Expectations
    BY <1>1 DEF CheckVersion, Held, Goto, Typed, TypeOK
  <2>2. job[q].expect \in Int
    BY <2>1, HeldTyped
  <2> QED
    BY <2>1, <2>2, CoreAssumption DEF Expectations
<1>2. CASE Held(q) /\ job'[q] = job[q] /\ pc'[q] = pc[q]
  <2>1. job[q].expect = version /\ pc[q] = "commit" /\ Locked(q)
    BY <1>2 DEF Checked, Locked
  <2>2. holder[Type] = q
    BY <2>1 DEF Guarded
  <2>3. ASSUME NEW r \in Requests PROVE ~Bump(r) /\ ~Settle(r)
    BY <2>1, <2>2, DueHolds
  <2>4. version' = version
    BY <2>3, VersionMoves
  <2> QED
    BY <1>2, <2>1, <2>4
<1>3. ASSUME NEW p \in Requests, StartApply(q, p) PROVE FALSE
  BY <1>3, ApplyCopies
<1> QED
  BY <1>1, <1>2, <1>3, HeldReaches

LEMMA StoredStep ==
  ASSUME Typed, Stored, [Next]_vars PROVE Stored'
<1>1. ASSUME NEW p \in Requests, preview'[p] # None PROVE pc'[p] = "done"
  <2>1. CASE preview'[p] = preview[p]
    BY <1>1, <2>1, DoneStays DEF Stored
  <2>2. CASE StorePreview(p)
    BY <2>2 DEF StorePreview, Goto, Typed, TypeOK
  <2> QED
    BY <1>1, <2>1, <2>2, PreviewReaches
<1>2. ASSUME NEW q \in Requests, Held(q)' PROVE pc'[job'[q].preview] = "done"
  <2>1. CASE Held(q) /\ job'[q] = job[q]
    <3>1. job[q].preview \in Requests /\ pc[job[q].preview] = "done"
      BY <2>1, HeldTyped DEF Stored
    <3> QED
      BY <2>1, <3>1, DoneStays
  <2>2. ASSUME NEW p \in Requests, StartApply(q, p) PROVE pc'[job'[q].preview] = "done"
    <3>1. preview[p] # None /\ job'[q].preview = p
      BY <2>2, ApplyCopies
    <3> QED
      BY <3>1, DoneStays DEF Stored
  <2> QED
    BY <1>2, <2>1, <2>2, HeldReaches
<1>3. ASSUME NEW c \in Applied' PROVE pc'[c.preview] = "done"
  <2>1. c \in commits' /\ c.preview # None
    BY <1>3 DEF Applied
  <2>2. CASE c \in commits
    <3>1. c \in Applied /\ c.preview \in Requests
      BY <2>1, <2>2 DEF Applied, Typed, TypeOK, Commits
    <3> QED
      BY <3>1, DoneStays DEF Stored
  <2>3. CASE c \notin commits
    <3>1. PICK q \in Requests :
            /\ Commit(q)
            /\ c.preview = IF job[q].op = "apply" THEN job[q].preview ELSE None
      BY <2>1, <2>3, CommitsReach
    <3>2. Held(q) /\ c.preview = job[q].preview
      BY <2>1, <3>1 DEF Held, Commit
    <3>3. c.preview \in Requests /\ pc[c.preview] = "done"
      BY <3>2, HeldTyped DEF Stored
    <3> QED
      BY <3>3, DoneStays
  <2> QED
    BY <2>2, <2>3
<1> QED
  BY <1>1, <1>2, <1>3 DEF Stored

LEMMA DatedStep == Dated /\ [Next]_vars => Dated'
BY TypedStep, GuardedStep, AgeingStep, CheckedStep, StoredStep DEF Dated

LEMMA InitDated == Init => Dated
BY InitTyped, InitGuarded, CoreAssumption
   DEF Init, Dated, Ageing, Checked, Stored, Held, Applied, NoJob

-------------------------------------------------------------------------------
(* The commit of an apply: what it may have missed.                        *)

LEMMA ApplyCommits ==
  ASSUME Dated, NEW q \in Requests, Commit(q), job[q].op = "apply"
  PROVE  /\ Held(q)
         /\ job[q].torn \/ plan[q].basis = edits \/ quiet # job[q].quiet
         /\ Outdated(job[q].expect, job[q].quiet) => quiet # job[q].quiet
<1> USE DEF Dated
<1>1. Held(q) /\ pc[q] = "commit" /\ Locked(q)
  BY DEF Commit, Held, Locked
<1>2. job[q].expect = version /\ version \in Nat /\ quiet \in Nat /\ job[q].quiet \in Nat
  BY <1>1, HeldTyped DEF Checked, Typed, TypeOK
<1>3. ASSUME NEW r \in Requests PROVE ~Due(r)
  BY <1>1, DueHolds DEF Guarded
<1>4. Outdated(job[q].expect, job[q].quiet) => quiet # job[q].quiet
  BY <1>2, <1>3 DEF Outdated
<1>5. job[q].torn \/ plan[q].basis = edits \/ Outdated(job[q].expect, job[q].quiet)
  BY <1>1 DEF Ageing, Valid, Copy
<1> QED
  BY <1>1, <1>4, <1>5

(* What the history has of a new commit.                                   *)
LEMMA AppliedReaches ==
  ASSUME Dated, [Next]_vars, NEW c \in Applied', c \notin Applied
  PROVE  \E q \in Requests :
           /\ Commit(q) /\ job[q].op = "apply"
           /\ c.by = q /\ c.preview = job[q].preview
           /\ c.fresh <=> plan[q].basis = edits
           /\ c.torn <=> job[q].torn
           /\ c.quiet <=> quiet # job[q].quiet
           /\ \A d \in Applied' \ Applied : d = c
<1>1. c \in commits' /\ c \notin commits /\ c.preview # None
  BY DEF Applied
<1> DEFINE made(q) == [by |-> q,
                       preview |-> IF job[q].op = "apply" THEN job[q].preview ELSE None,
                       fresh |-> plan[q].basis = edits,
                       torn |-> job[q].op = "apply" /\ job[q].torn,
                       quiet |-> job[q].op = "apply" /\ quiet # job[q].quiet]
<1>2. PICK q \in Requests : Commit(q) /\ c = made(q)
  BY <1>1, CommitsReach, Zenon DEF Dated
<1>3. job[q].op = "apply"
  BY <1>1, <1>2
<1>4. c.by = q /\ c.preview = job[q].preview
  BY <1>2, <1>3
<1>5. /\ c.fresh = (plan[q].basis = edits)
      /\ c.torn = (job[q].op = "apply" /\ job[q].torn)
      /\ c.quiet = (job[q].op = "apply" /\ quiet # job[q].quiet)
  BY <1>2
<1>6. ASSUME NEW d \in Applied', d \notin Applied PROVE d = c
  <2>1. commits' = commits \cup {made(q)}
    BY <1>2 DEF Commit
  <2>2. d \in commits' /\ d \notin commits
    BY <1>6 DEF Applied
  <2> HIDE DEF made
  <2> QED
    BY <1>2, <2>1, <2>2
<1> QED
  BY <1>2, <1>3, <1>4, <1>5, <1>6

LEMMA SpentStep ==
  ASSUME Dated, Spent, [Next]_vars PROVE Spent'
<1> USE DEF Dated
<1>0. ASSUME NEW p \in Requests, preview[p] # None
      PROVE  /\ preview[p].version \in Int /\ preview[p].quiet \in Int
             /\ preview[p].version <= version /\ preview[p].quiet <= quiet
  <2>1. preview[p] \in Previews /\ Valid(preview[p])
    BY <1>0 DEF Ageing, Typed, TypeOK
  <2> QED
    BY <2>1 DEF Previews, Valid
<1> SUFFICES ASSUME NEW c \in Applied'
             PROVE  /\ preview'[c.preview] # None =>
                         Outdated(preview[c.preview].version, preview[c.preview].quiet)'
                    /\ \A q \in Requests : Held(q)' /\ job'[q].preview = c.preview =>
                         Outdated(job[q].expect, job[q].quiet)'
  BY DEF Spent
<1>1. CASE c \notin Applied
  <2>1. PICK q \in Requests : Commit(q) /\ job[q].op = "apply"
    BY <1>1, AppliedReaches
  <2>2. Due(q)'
    BY <2>1, CommitIsDue
  <2> QED
    BY <2>2 DEF Outdated
<1>2. CASE c \in Applied
  <2>1. c.preview \in Requests /\ pc[c.preview] = "done"
    BY <1>2 DEF Stored, Applied, Typed, TypeOK, Commits
  <2>2. ASSUME preview'[c.preview] # None
        PROVE  Outdated(preview[c.preview].version, preview[c.preview].quiet)'
    <3>1. preview'[c.preview] = preview[c.preview]
      BY <2>1, <2>2, PreviewReaches DEF StorePreview
    <3>2. PICK v, k : v = preview[c.preview].version /\ k = preview[c.preview].quiet
      OBVIOUS
    <3>3. v \in Int /\ k \in Int /\ v <= version /\ k <= quiet /\ Outdated(v, k)
      BY <1>0, <1>2, <2>1, <2>2, <3>1, <3>2 DEF Spent
    <3>4. Outdated(v, k)'
      BY <3>3, OutdatedStays
    <3> QED
      BY <3>1, <3>2, <3>4 DEF Outdated
  <2>3. ASSUME NEW q \in Requests, Held(q)', job'[q].preview = c.preview
        PROVE  Outdated(job[q].expect, job[q].quiet)'
    <3>1. CASE Held(q) /\ job'[q] = job[q]
      <4>1. PICK v, k : v = job[q].expect /\ k = job[q].quiet
        OBVIOUS
      <4>2. Outdated(v, k)
        BY <1>2, <2>3, <3>1, <4>1 DEF Spent
      <4>3. v \in Int /\ k \in Int /\ v <= version /\ k <= quiet
        BY <3>1, <4>1, HeldTyped DEF Ageing, Valid, Copy
      <4>4. Outdated(v, k)'
        BY <4>2, <4>3, OutdatedStays
      <4> QED
        BY <3>1, <4>1, <4>4 DEF Outdated
    <3>2. ASSUME NEW p \in Requests, StartApply(q, p)
          PROVE  Outdated(job[q].expect, job[q].quiet)'
      <4>1. /\ p = c.preview /\ preview[p] # None
            /\ job'[q].expect = preview[p].version /\ job'[q].quiet = preview[p].quiet
        BY <2>3, <3>2, ApplyCopies
      <4>2. PICK v, k : v = preview[p].version /\ k = preview[p].quiet
        OBVIOUS
      <4>3. v \in Int /\ k \in Int /\ v <= version /\ k <= quiet /\ Outdated(v, k)
        BY <1>0, <1>2, <4>1, <4>2 DEF Spent
      <4>4. Outdated(v, k)'
        BY <4>3, OutdatedStays
      <4> QED
        BY <4>1, <4>2, <4>4 DEF Outdated
    <3> QED
      BY <2>3, <3>1, <3>2, HeldReaches
  <2> QED
    BY <2>2, <2>3
<1> QED
  BY <1>1, <1>2

-------------------------------------------------------------------------------
(***************************************************************************)
(* The theorems on the version check.                                      *)
(***************************************************************************)

(* A preview that passes the version check and commits was computed from   *)
(* the very state it changes, unless a transaction committed while it was  *)
(* being computed or one that does not increment the version came after    *)
(* it: nothing else gets past the optimistic check of apply, for any       *)
(* number of requests of every kind, and wherever processes die.           *)
THEOREM VersionCheckSound == Spec => []OccSound
<1>1. Init => Dated /\ OccSound
  BY InitDated DEF Init, OccSound, Applied
<1>2. Dated /\ OccSound /\ [Next]_vars => Dated' /\ OccSound'
  <2> SUFFICES ASSUME Dated, OccSound, [Next]_vars, NEW c \in Applied'
               PROVE  c.fresh \/ c.torn \/ c.quiet
    BY DatedStep DEF OccSound
  <2>1. CASE c \in Applied
    BY <2>1 DEF OccSound
  <2>2. CASE c \notin Applied
    <3>1. PICK q \in Requests :
            /\ Commit(q) /\ job[q].op = "apply"
            /\ c.fresh <=> plan[q].basis = edits
            /\ c.torn <=> job[q].torn
            /\ c.quiet <=> quiet # job[q].quiet
      BY <2>2, AppliedReaches
    <3> QED
      BY <3>1, ApplyCommits
  <2> QED
    BY <2>1, <2>2
<1> QED
  BY <1>1, <1>2, PTL DEF Spec

(* A stored preview is applied once, however many applies are started from *)
(* it: a second commit needs a process that died, or a call that failed,   *)
(* between the first transaction and the increment that closes it, or some *)
(* other transaction that nothing announced.                               *)
THEOREM AppliedOnce == Spec => []ApplyOnce
<1> DEFINE Inv == Dated /\ Spent /\ ApplyOnce
<1>1. Init => Inv
  BY InitDated DEF Init, Spent, ApplyOnce, Applied
<1>2. Inv /\ [Next]_vars => Inv'
  <2> SUFFICES ASSUME Dated, Spent, ApplyOnce, [Next]_vars PROVE ApplyOnce'
    BY DatedStep, SpentStep
  <2>1. ASSUME NEW c \in Applied, NEW d \in Applied' \ Applied, c.preview = d.preview
        PROVE  d.quiet
    <3>1. PICK q \in Requests :
            /\ Commit(q) /\ job[q].op = "apply" /\ d.preview = job[q].preview
            /\ d.quiet <=> quiet # job[q].quiet
      BY AppliedReaches
    <3>2. Held(q)
      BY <3>1, ApplyCommits
    <3>3. Outdated(job[q].expect, job[q].quiet)
      BY <2>1, <3>1, <3>2 DEF Spent
    <3> QED
      BY <3>1, <3>3, ApplyCommits
  <2>2. ASSUME NEW c \in Applied' \ Applied, NEW d \in Applied' \ Applied PROVE c = d
    BY AppliedReaches
  <2> QED
    BY <2>1, <2>2 DEF ApplyOnce
<1>3. Inv => ApplyOnce
  OBVIOUS
<1> QED
  BY <1>1, <1>2, <1>3, PTL DEF Spec

-------------------------------------------------------------------------------
(***************************************************************************)
(* What the ledger owes to the check.  With previews applied, Faithful is  *)
(* too much to ask: a plan waits in Redis while the tables move on.  But a *)
(* plan whose basis is the last transaction was computed from the tables   *)
(* as they are, whoever holds it and since when, and a view with that      *)
(* basis is what is in the tables.                                         *)
(***************************************************************************)
EngineJobs == {j \in Jobs : j.op \in {"run", "preview"}}

Sees(v) == v.basis <= edits /\ (v.basis = edits => v = Tables)
Based(p) ==
  /\ p.basis <= edits
  /\ p.basis = edits => \E j \in EngineJobs : p \in Engine(Tables, j)

HasPlan(q) == pc[q] \in {"version", "commit"} \/ Held(q)

Knowing ==
  /\ \A q \in Requests : pc[q] = "plan" => Sees(seen[q])
  /\ \A q \in Requests : HasPlan(q) => Based(plan[q])
  /\ \A p \in Requests : preview[p] # None => Based(preview[p].plan)

(* The tables are those of the last transaction.                           *)
LEMMA EditsTell ==
  ASSUME Typed, [Next]_vars, edits' = edits PROVE UNCHANGED <<ord, rows, cap>>
<1>1. CASE <<data, edits>>' = <<data, edits>>
  BY <1>1 DEF data
<1>2. CASE <<data, edits>>' # <<data, edits>>
  <2>1. PICK q \in Requests : Writes(q)
    BY <1>2, OnlyWritersWrite
  <2>2. edits' = edits + 1 \/ UNCHANGED data
    BY <2>1 DEF Writes, Commit, CancelTx, DailyTx, MoveTx, PlaceTx, Committed
  <2>3. edits \in Nat
    BY DEF Typed, TypeOK
  <2> QED
    BY <2>2, <2>3 DEF data
<1> QED
  BY <1>1, <1>2

LEMMA SeesStays ==
  ASSUME Typed, [Next]_vars, NEW v, v.basis \in Nat, Sees(v) PROVE Sees(v)'
<1>1. edits <= edits' /\ edits \in Nat /\ edits' \in Nat
  BY OnlyUpwards
<1>2. edits' = edits => UNCHANGED <<ord, rows, cap>>
  BY EditsTell
<1> QED
  BY <1>1, <1>2 DEF Sees, Tables

LEMMA BasedStays ==
  ASSUME Typed, [Next]_vars, NEW p, p.basis \in Nat, Based(p) PROVE Based(p)'
<1>1. edits <= edits' /\ edits \in Nat /\ edits' \in Nat
  BY OnlyUpwards
<1>2. p.basis <= edits'
  BY <1>1 DEF Based
<1>3. ASSUME p.basis = edits' PROVE \E j \in EngineJobs : p \in Engine(Tables, j)'
  <2>1. edits' = edits
    BY <1>1, <1>3 DEF Based
  <2>2. UNCHANGED <<ord, rows, cap>>
    BY <2>1, EditsTell
  <2>3. PICK j \in EngineJobs : p \in Engine(Tables, j)
    BY <1>3, <2>1 DEF Based
  <2>4. Engine(Tables, j)' = Engine(Tables, j)
    BY <2>1, <2>2 DEF Engine, FirstFit, Result, Left, Base, Known, Tables
  <2> QED
    BY <2>3, <2>4
<1> QED
  BY <1>2, <1>3 DEF Based

(* The ways a request gets a view, or a plan.                              *)
LEMMA ViewReaches ==
  ASSUME Typed, [Next]_vars, NEW q \in Requests, pc'[q] = "plan"
  PROVE  ReadOrders(q) \/ (pc[q] = "plan" /\ seen'[q] = seen[q])
<1> USE DEF Typed, TypeOK, Goto
<1>0. Fits(pc[q], job[q], seen[q], plan[q])
  BY Fitting
<1>1. ASSUME NEW r \in Requests \ {q}, Start(r) \/ Step(r) \/ Crash(r) \/ Fail(r)
      PROVE  pc'[q] = pc[q] /\ seen'[q] = seen[q]
  BY <1>1, OthersStay
<1>2. CASE NewDay \/ Expire \/ UNCHANGED vars
  BY <1>2 DEF NewDay, Expire, vars
<1>3. ~Start(q) /\ ~Crash(q) /\ ~Fail(q)
  BY DEF Start, StartRun, StartPreview, StartApply, StartCancel, StartDelete, Crash, Fail,
         StartIssueCancel, StartDaily, StartMove, StartPlace, Submit
<1>4. ~TakeLock(q)
  BY <1>0 DEF TakeLock, AfterLock, Fits
<1>5. Step(q) => ReadOrders(q)
  BY <1>4 DEF Step, Refused, Unlock, Plan, StorePreview, CheckVersion, Commit, CancelTx,
              DailyTx, Precheck, Validate, CheckRoom, MoveTx, PlaceTx, Bump, Settle,
              ForgetPreview
<1> QED
  BY <1>1, <1>2, <1>3, <1>5 DEF Next

LEMMA PlanReaches ==
  ASSUME Typed, [Next]_vars, NEW q \in Requests, HasPlan(q)'
  PROVE  \/ Plan(q)
         \/ HasPlan(q) /\ plan'[q] = plan[q]
         \/ \E p \in Requests : StartApply(q, p)
<1> USE DEF Typed, TypeOK, Goto
<1>0. Fits(pc[q], job[q], seen[q], plan[q])
  BY Fitting
<1>1. CASE Held(q)'
  BY <1>1, HeldReaches DEF HasPlan
<1>2. CASE pc'[q] \in {"version", "commit"}
  <2>1. ASSUME NEW r \in Requests \ {q}, Start(r) \/ Step(r) \/ Crash(r) \/ Fail(r)
        PROVE  pc'[q] = pc[q] /\ plan'[q] = plan[q]
    BY <2>1, OthersStay
  <2>2. CASE NewDay \/ Expire \/ UNCHANGED vars
    BY <1>2, <2>2 DEF NewDay, Expire, vars, HasPlan
  <2>3. ~Start(q) /\ ~Crash(q) /\ ~Fail(q)
    BY <1>2 DEF Start, StartRun, StartPreview, StartApply, StartCancel, StartDelete,
                Crash, Fail, StartIssueCancel, StartDaily, StartMove, StartPlace, Submit
  <2>4. ~TakeLock(q)
    BY <1>0, <1>2 DEF TakeLock, AfterLock, Fits
  <2>5. CASE CheckVersion(q)
    <3>1. pc[q] = "check" /\ job[q].op = "apply" /\ plan'[q] = plan[q]
      BY <1>0, <1>2, <2>5 DEF CheckVersion, Fits
    <3> QED
      BY <3>1 DEF HasPlan, Held
  <2>6. Step(q) => Plan(q) \/ CheckVersion(q)
    BY <1>2, <2>4 DEF Step, Refused, Unlock, ReadOrders, StorePreview, Commit, CancelTx,
              DailyTx, Precheck, Validate, CheckRoom, MoveTx, PlaceTx, Bump, Settle,
              ForgetPreview
  <2> QED
    BY <1>2, <2>1, <2>2, <2>3, <2>5, <2>6 DEF Next, HasPlan
<1> QED
  BY <1>1, <1>2 DEF HasPlan

LEMMA KnowingStep ==
  ASSUME Typed, Knowing, [Next]_vars PROVE Knowing'
<1>1. ASSUME NEW q \in Requests, pc'[q] = "plan" PROVE Sees(seen[q])'
  <2>1. CASE ReadOrders(q)
    <3>1. /\ seen'[q] = Tables /\ UNCHANGED <<ord, rows, edits>> /\ edits \in Nat
      BY <2>1 DEF ReadOrders, Tables, data, ghosts, Typed, TypeOK
    <3> QED
      BY <3>1 DEF Sees, Tables
  <2>2. CASE pc[q] = "plan" /\ seen'[q] = seen[q]
    <3>1. PICK v : v = seen[q]
      OBVIOUS
    <3>2. v \in Views
      BY <2>2, <3>1, Fitting DEF Fits
    <3>3. v.basis \in Nat /\ Sees(v)
      BY <2>2, <3>1, <3>2 DEF Knowing, Views
    <3>4. Sees(v)'
      BY <3>3, SeesStays
    <3> QED
      BY <2>2, <3>1, <3>4 DEF Sees
  <2> QED
    BY <1>1, <2>1, <2>2, ViewReaches
<1>2. ASSUME NEW q \in Requests, HasPlan(q)' PROVE Based(plan[q])'
  <2>1. CASE Plan(q)
    <3>1. /\ pc[q] = "plan" /\ UNCHANGED <<ord, rows, cap, edits>>
          /\ seen[q] \in Views /\ job[q] \in EngineJobs
      BY <2>1, Fitting DEF Plan, Fits, EngineJobs, data, ghosts, Typed, TypeOK
    <3>2. PICK p \in Engine(seen[q], job[q]) : plan'[q] = p
      BY <2>1 DEF Plan, Typed, TypeOK
    <3>3. p.basis = seen[q].basis
      BY <3>1, <3>2, EngineType DEF EngineJobs, Typed, TypeOK
    <3>4. Sees(seen[q])
      BY <3>1 DEF Knowing
    <3>5. p.basis <= edits'
      BY <3>1, <3>3, <3>4 DEF Sees
    <3>6. p.basis = edits' => p \in Engine(Tables, job[q])
      BY <3>1, <3>2, <3>3, <3>4 DEF Sees
    <3>7. PICK j \in EngineJobs : j = job[q]
      BY <3>1
    <3>8. Engine(Tables, j)' = Engine(Tables, j)
      BY <3>1 DEF Engine, FirstFit, Result, Left, Base, Known, Tables
    <3> QED
      BY <3>2, <3>5, <3>6, <3>7, <3>8 DEF Based
  <2>2. CASE HasPlan(q) /\ plan'[q] = plan[q]
    <3>1. PICK p : p = plan[q]
      OBVIOUS
    <3>2. p \in Plans
      BY <2>2, <3>1, HeldTyped, Fitting DEF HasPlan, Fits
    <3>3. p.basis \in Nat /\ Based(p)
      BY <2>2, <3>1, <3>2 DEF Knowing, Plans
    <3>4. Based(p)'
      BY <3>3, BasedStays
    <3> QED
      BY <2>2, <3>1, <3>4 DEF Based
  <2>3. ASSUME NEW r \in Requests, StartApply(q, r) PROVE Based(plan[q])'
    <3>1. PICK p : p = preview[r].plan
      OBVIOUS
    <3>2. plan'[q] = p /\ preview[r] # None /\ preview[r] \in Previews
      BY <2>3, <3>1, ApplyCopies
    <3>3. p.basis \in Nat /\ Based(p)
      BY <3>1, <3>2 DEF Knowing, Previews, Plans
    <3>4. Based(p)'
      BY <3>3, BasedStays
    <3> QED
      BY <3>2, <3>4 DEF Based
  <2> QED
    BY <1>2, <2>1, <2>2, <2>3, PlanReaches
<1>3. ASSUME NEW r \in Requests, preview'[r] # None PROVE Based(preview[r].plan)'
  <2>1. CASE preview'[r] = preview[r]
    <3>1. PICK p : p = preview[r].plan
      OBVIOUS
    <3>2. preview[r] # None /\ preview[r] \in Previews
      BY <1>3, <2>1 DEF Typed, TypeOK
    <3>3. p.basis \in Nat /\ Based(p)
      BY <3>1, <3>2 DEF Knowing, Previews, Plans
    <3>4. Based(p)'
      BY <3>3, BasedStays
    <3> QED
      BY <2>1, <3>1, <3>4 DEF Based
  <2>2. CASE StorePreview(r)
    <3>1. PICK p : p = plan[r]
      OBVIOUS
    <3>2. preview'[r].plan = p /\ pc[r] = "version"
      BY <2>2, <3>1 DEF StorePreview, Typed, TypeOK
    <3>3. p \in Plans
      BY <3>1, <3>2, Fitting DEF Fits
    <3>4. p.basis \in Nat /\ Based(p)
      BY <3>1, <3>2, <3>3 DEF Knowing, HasPlan, Plans
    <3>5. Based(p)'
      BY <3>4, BasedStays
    <3> QED
      BY <3>2, <3>5 DEF Based
  <2> QED
    BY <1>3, <2>1, <2>2, PreviewReaches
<1> QED
  BY <1>1, <1>2, <1>3 DEF Knowing

(* A commit of the engine on the state it has read keeps the books.        *)
Fresh == \A c \in commits : c.fresh

LEMMA FreshBooked ==
  ASSUME Typed, Knowing, Booked, Moving, [Next]_vars, Fresh' PROVE Booked'
<1>1. CASE <<data, edits>>' # <<data, edits>>
  <2>1. PICK q \in Requests : Writes(q)
    BY <1>1, OnlyWritersWrite
  <2>2. CASE Commit(q)
    <3> DEFINE made == [by |-> q, preview |-> IF job[q].op = "apply" THEN job[q].preview
                                              ELSE None,
                        fresh |-> plan[q].basis = edits,
                        torn |-> job[q].op = "apply" /\ job[q].torn,
                        quiet |-> job[q].op = "apply" /\ quiet # job[q].quiet]
    <3>1. commits' = commits \cup {made}
      BY <2>2 DEF Commit
    <3>2. made.fresh = (plan[q].basis = edits)
      OBVIOUS
    <3>3. made.fresh
      <4> HIDE DEF made
      <4> QED
        BY <3>1 DEF Fresh
    <3>4. plan[q].basis = edits /\ Based(plan[q])
      BY <2>2, <3>2, <3>3 DEF Commit, Knowing, HasPlan
    <3>5. PICK j \in EngineJobs : plan[q] \in Engine(Tables, j)
      BY <3>4 DEF Based
    <3> QED
      BY <2>2, <3>5, CommitBooked DEF EngineJobs
  <2> QED
    BY <2>1, <2>2, CancelBooked, DailyBooked, MoveBooked, PlaceBooked DEF Writes
<1>2. CASE <<data, edits>>' = <<data, edits>>
  <2>1. UNCHANGED <<ord, rows, cap>>
    BY <1>2 DEF data
  <2>2. Signed'
    BY <2>1, AfterStays DEF Booked, Signed
  <2> QED
    BY <2>1, <2>2 DEF Booked, Keyed, Unplaced, Balanced, Entry, Used, NoDoubleAssignment
<1> QED
  BY <1>1, <1>2

(* What a manual move has read is still so when it writes: nobody gets in  *)
(* between, or there are no manual moves.                                  *)
Undisturbed ==
  "issueCancel" \notin Operations \/ Operations \cap {"move", "place"} = {}

LEMMA StillMoving ==
  ASSUME Undisturbed, Typed, Guarded, Permitted, Moving, [Next]_vars PROVE Moving'
<1>1. CASE "issueCancel" \notin Operations
  BY <1>1, MovingStep
<1>2. CASE Operations \cap {"move", "place"} = {}
  <2>1. Typed' /\ Permitted'
    BY TypedStep, PermittedStep
  <2>2. ASSUME NEW q \in Requests, pc'[q] \in {"capacity", "move"} PROVE FALSE
    <3>1. job'[q].op \in {"move", "place"}
      BY <2>1, <2>2 DEF Typed, Control, Fits
    <3>2. job'[q].op \in Operations \cup {"none"}
      BY <2>1 DEF Permitted
    <3> QED
      BY <1>2, <3>1, <3>2
  <2> QED
    BY <2>2 DEF Moving
<1> QED
  BY <1>1, <1>2 DEF Undisturbed

(* As long as the engine commits on the state it has read, capacities and  *)
(* assignments add up, although previews are computed and wait outside of  *)
(* the lock, and orders are cancelled from their issues without it, while  *)
(* days go by and processes die: only a commit that is not fresh, which    *)
(* VersionCheckSound narrows down to two ways, can break the ledger.       *)
(* Cancelling from an issue is left out where assignments are also moved   *)
(* by hand: a move does not look at the assignment again.                  *)
THEOREM FreshCommitsBalance ==
  ASSUME Undisturbed PROVE Spec => []FreshCommitsKeepLedger
<1> DEFINE Books == Fresh => Booked
           Inv == Typed /\ Guarded /\ Permitted /\ Knowing /\ Moving /\ Books
<1>1. Init => Inv
  <2>1. Init => Knowing
    BY DEF Init, Knowing, HasPlan, Held, NoJob
  <2> QED
    BY <2>1, InitTyped, InitGuarded, InitPermitted, InitBooked
<1>2. Inv /\ [Next]_vars => Inv'
  <2> SUFFICES ASSUME Inv, [Next]_vars PROVE Inv'
    OBVIOUS
  <2>1. Fresh' => Fresh
    BY CommitsStay DEF Fresh
  <2>2. Fresh' => Booked'
    BY <2>1, FreshBooked
  <2> QED
    BY <2>2, TypedStep, GuardedStep, PermittedStep, KnowingStep, StillMoving
<1>3. Inv => FreshCommitsKeepLedger
  <2> SUFFICES ASSUME Inv, Fresh, NEW c \in Cells
               PROVE  LET used == Cardinality(RowsAt(Live(rows), c)) IN
                      IF cap[c] = None THEN used = 0
                      ELSE 0 <= cap[c] /\ cap[c] + used = MaxCapacity
    BY DEF FreshCommitsKeepLedger, CapacityLedger, Fresh
  <2>1. Entry(c)
    BY DEF Booked, Balanced
  <2>2. RowsAt(rows, c) = {} => RowsAt(Live(rows), c) = {}
    BY DEF RowsAt, Live
  <2> QED
    BY <2>1, <2>2, FS_EmptySet DEF Entry, Used
<1> QED
  BY <1>1, <1>2, <1>3, PTL DEF Spec

===============================================================================
