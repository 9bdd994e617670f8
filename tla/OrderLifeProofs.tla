---------------------------- MODULE OrderLifeProofs ----------------------------
(***************************************************************************)
(* Theorems about the life of orders (OrderLife, with the page of IssuePage *)
(* beside it), for any scenes, bounds and lengths of the calendar.         *)
(***************************************************************************)
EXTENDS IssuePage, StrategyProofs, FiniteSetTheorems, TLAPS

-------------------------------------------------------------------------------
(* The tables, with their foreign keys; the clock; the history.            *)
StoredWork == [order : Orders, factory : Factories, day : Calendar, qty : Int,
               status : WorkStatus]

TablesOK ==
  /\ ord \in [Orders -> OrderRow \cup {None}]
  /\ work \in [Works -> StoredWork \cup {None}]
  /\ issue \in [Issues -> IssueRow \cup {None}]
  /\ proposal \in [Proposals -> ProposalRow \cup {None}]
KeysOK ==
  /\ \A i \in Works : work[i] # None => Exists(work[i].order)
  /\ \A i \in Issues : issue[i] # None => Exists(issue[i].order)
  /\ \A c \in Proposals : proposal[c] # None => issue[proposal[c].issue] # None
ClockOK ==
  /\ today \in Int /\ scene \in Scene
  /\ sim \in [on : BOOLEAN, date : Int \cup {None}]
HistoryRow ==
  [made : Nat, deaths : Nat, applied : [Proposals -> Nat],
   overlapped : SUBSET Proposals, crossed : SUBSET Orders,
   astray : SUBSET Orders, skewed : BOOLEAN]
HistoryOK == hist \in HistoryRow

(* What a request has, by its operation and the step it has reached.       *)
CommentReq == [op : {"comment"}, at : {"create", "discuss"}, issue : Issues,
               kind : ProposalKinds, value : Nat, expected : Nat,
               fresh : BOOLEAN]
AcceptReq == [op : {"accept"},
              at : {"order", "stale", "mark", "others", "outdate", "resolve"},
              proposal : Proposals, order : Orders, others : SUBSET Proposals]
RejectReq == [op : {"reject"}, at : {"write"}, proposal : Proposals]
StatusReq == [op : {"close", "reopen", "cancel"}, at : {"status", "cancel"},
              issue : Issues]
FlagReq == [op : {"flag"}, at : {"look", "create"}, order : Orders]
DeleteReq == [op : {"delete"}, at : {"cancel"}, order : Orders]
RunReq == [op : {"run", "auto"}, at : {"plan"}, date : Int, cfg : Configs]
TickReq == [op : {"auto", "daily"}, at : {"date"}]
DailyReq == [op : {"daily"}, at : {"advance"}, date : Int, patch : {None}]
PlainReq == [op : {"patch"}, at : {"plain"}, date : Int \cup {None},
             patch : Switches]
SwitchReq == [op : {"patch"}, at : {"advance", "revert"}, date : Int,
              patch : Switches]
Requested ==
  CommentReq \cup AcceptReq \cup RejectReq \cup StatusReq \cup FlagReq
  \cup DeleteReq \cup RunReq \cup TickReq \cup DailyReq \cup PlainReq
  \cup SwitchReq \cup {Idle}

Editing(r) ==
  /\ r = [op |-> r.op, at |-> r.at, order |-> r.order, patch |-> r.patch]
  /\ r.op \in {"sales", "admin"} /\ r.at \in {"write", "cancel"}
  /\ r.order \in Orders /\ PatchFits(r.patch)
Committing(r) ==
  /\ r = [op |-> r.op, at |-> "commit", in |-> r.in, plan |-> r.plan]
  /\ r.op \in {"run", "auto"} /\ r.at = "commit"
  /\ DOMAIN r.in.rows \subseteq Orders
  /\ r.in.start \in Int /\ r.in.splittable \in BOOLEAN
Shape(r) == r \in Requested \/ Editing(r) \/ Committing(r)

(* What a request has read is still there.                                 *)
Linked(r) ==
  /\ r.op \in {"comment", "close", "reopen", "cancel"} => issue[r.issue] # None
  /\ r.op \in {"accept", "reject"} => proposal[r.proposal] # None
  /\ r.op = "accept" =>
       /\ r.order = issue[proposal[r.proposal].issue].order
       /\ \A c \in r.others : proposal[c] # None
  /\ r.op \in {"flag", "sales", "admin", "delete"} => Exists(r.order)
  /\ r.op \in {"run", "auto"} /\ r.at = "commit" =>
       \A o \in DOMAIN r.in.rows : Exists(o)

RequestsOK ==
  /\ DOMAIN req = Requests
  /\ \A q \in Requests : Shape(req[q]) /\ Linked(req[q])

TypeOK == TablesOK /\ KeysOK /\ ClockOK /\ HistoryOK /\ RequestsOK

LEMMA ShapeByOp ==
  ASSUME NEW r, Shape(r)
  PROVE  /\ r.op = "comment" => r \in CommentReq
         /\ r.op = "accept" => r \in AcceptReq
         /\ r.op = "reject" => r \in RejectReq
         /\ r.op \in {"close", "reopen", "cancel"} => r \in StatusReq
         /\ r.op = "flag" => r \in FlagReq
         /\ r.op = "delete" => r \in DeleteReq
         /\ r.op \in {"sales", "admin"} => Editing(r)
         /\ r.op \in {"run", "auto"} /\ r.at = "plan" => r \in RunReq
         /\ r.op \in {"run", "auto"} /\ r.at = "commit" => Committing(r)
         /\ r.op = "daily" /\ r.at = "advance" => r \in DailyReq
         /\ r.op = "patch" /\ r.at = "plain" => r \in PlainReq
         /\ r.op = "patch" /\ r.at # "plain" => r \in SwitchReq
<1>1. CASE r \in Requested
  <2> USE DEF Requested, CommentReq, AcceptReq, RejectReq, StatusReq, FlagReq,
              DeleteReq, RunReq, TickReq, DailyReq, PlainReq, SwitchReq, Idle
  <2>1. r.op = "comment" => r \in CommentReq
    BY <1>1
  <2>2. r.op = "accept" => r \in AcceptReq
    BY <1>1
  <2>3. r.op = "reject" => r \in RejectReq
    BY <1>1
  <2>4. r.op \in {"close", "reopen", "cancel"} => r \in StatusReq
    BY <1>1
  <2>5. /\ r.op = "flag" => r \in FlagReq
        /\ r.op = "delete" => r \in DeleteReq
    BY <1>1
  <2>6. r.op \notin {"sales", "admin"}
    BY <1>1
  <2>7. /\ r.op \in {"run", "auto"} /\ r.at = "plan" => r \in RunReq
        /\ ~(r.op \in {"run", "auto"} /\ r.at = "commit")
    BY <1>1
  <2>8. r.op = "daily" /\ r.at = "advance" => r \in DailyReq
    BY <1>1
  <2>9. /\ r.op = "patch" /\ r.at = "plain" => r \in PlainReq
        /\ r.op = "patch" /\ r.at # "plain" => r \in SwitchReq
    BY <1>1
  <2> QED
    BY <2>1, <2>2, <2>3, <2>4, <2>5, <2>6, <2>7, <2>8, <2>9
<1>2. CASE Editing(r)
  BY <1>2 DEF Editing
<1>3. CASE Committing(r)
  BY <1>3 DEF Committing
<1> QED
  BY <1>1, <1>2, <1>3 DEF Shape

LEMMA InitTyped == Init => TypeOK
<1> SUFFICES ASSUME Init PROVE TypeOK
  OBVIOUS
<1>1. PICK s \in Scenes[scene].starts :
        ord = s.ord /\ work = s.work /\ cap = s.cap /\ issue = s.issue
  BY DEF Init
<1>2. scene \in Scene
  BY DEF Init
<1>3. /\ s.ord \in [Orders -> OrderRow \cup {None}]
      /\ s.work \in [Works -> WorkRow \cup {None}]
      /\ s.issue \in [Issues -> IssueRow \cup {None}]
      /\ \A i \in Works : s.work[i] # None => s.ord[s.work[i].order] # None
      /\ \A i \in Issues : s.issue[i] # None => s.ord[s.issue[i].order] # None
  BY <1>1, <1>2, StartsAssumption
<1>4. WorkRow \subseteq StoredWork
  BY DEF WorkRow, StoredWork
<1>5. TablesOK /\ KeysOK
  BY <1>1, <1>3, <1>4 DEF TablesOK, KeysOK, Exists, Init
<1>6. ClockOK /\ HistoryOK
  BY <1>2 DEF ClockOK, HistoryOK, HistoryRow, Init
<1>7. RequestsOK
  BY DEF RequestsOK, Shape, Requested, Linked, Idle, Init
<1> QED
  BY <1>5, <1>6, <1>7 DEF TypeOK

-------------------------------------------------------------------------------
(* What a step of a request does to each table: rows stay, with what they  *)
(* are about, and a new version of an order is a later one.                *)
OrdersGo ==
  /\ ord' \in [Orders -> OrderRow \cup {None}]
  /\ \A o \in Orders : ord[o] # None =>
       ord'[o] # None /\ ord'[o].rev >= ord[o].rev
WorkGoes ==
  /\ work' \in [Works -> StoredWork \cup {None}]
  /\ \A i \in Works : work'[i] # None => ord[work'[i].order] # None
IssuesGo ==
  /\ issue' \in [Issues -> IssueRow \cup {None}]
  /\ \A i \in Issues : issue[i] # None =>
       issue'[i] # None /\ issue'[i].order = issue[i].order
  /\ \A i \in Issues : issue'[i] # None => ord[issue'[i].order] # None
ProposalsGo ==
  /\ proposal' \in [Proposals -> ProposalRow \cup {None}]
  /\ \A c \in Proposals : proposal[c] # None =>
       /\ proposal'[c] # None
       /\ proposal'[c].issue = proposal[c].issue
       /\ proposal'[c].expected = proposal[c].expected
  /\ \A c \in Proposals : proposal'[c] # None =>
       issue[proposal'[c].issue] # None
Alone(q) ==
  /\ DOMAIN req' = Requests
  /\ \A p \in Requests \ {q} : req'[p] = req[p]
Moved(q) ==
  /\ OrdersGo /\ WorkGoes /\ IssuesGo /\ ProposalsGo /\ ClockOK' /\ HistoryOK'
  /\ Alone(q) /\ Shape(req[q])' /\ Linked(req[q])'

LEMMA OrdersStay == ASSUME TypeOK, UNCHANGED ord PROVE OrdersGo
  BY DEF TypeOK, TablesOK, OrdersGo, OrderRow

LEMMA WorkStays == ASSUME TypeOK, UNCHANGED work PROVE WorkGoes
  BY DEF TypeOK, TablesOK, KeysOK, Exists, WorkGoes

LEMMA IssuesStay == ASSUME TypeOK, UNCHANGED issue PROVE IssuesGo
  BY DEF TypeOK, TablesOK, KeysOK, Exists, IssuesGo

LEMMA ProposalsStay == ASSUME TypeOK, UNCHANGED proposal PROVE ProposalsGo
  BY DEF TypeOK, TablesOK, KeysOK, ProposalsGo

LEMMA ClockStays == ASSUME TypeOK, UNCHANGED <<clock, scene>> PROVE ClockOK'
  BY DEF TypeOK, ClockOK, clock

(* What is linked stays linked, whatever another request does.             *)
LEMMA LinkedStays ==
  ASSUME TypeOK, OrdersGo, IssuesGo, ProposalsGo,
         NEW r, Shape(r), Linked(r)
  PROVE  Linked(r)'
<1>1. CASE r.op \in {"comment", "close", "reopen", "cancel"}
  <2>1. r.issue \in Issues
    BY <1>1, ShapeByOp DEF CommentReq, StatusReq
  <2> QED
    BY <1>1, <2>1 DEF Linked, IssuesGo
<1>2. CASE r.op = "accept"
  <2>1. r.proposal \in Proposals /\ r.others \subseteq Proposals
    BY <1>2, ShapeByOp DEF AcceptReq
  <2>2. proposal[r.proposal] # None /\ \A c \in r.others : proposal[c] # None
    BY <1>2 DEF Linked
  <2>3. /\ proposal'[r.proposal] # None
        /\ \A c \in r.others : proposal'[c] # None
        /\ proposal'[r.proposal].issue = proposal[r.proposal].issue
    BY <2>1, <2>2 DEF ProposalsGo
  <2>4. /\ issue[proposal[r.proposal].issue] # None
        /\ proposal[r.proposal].issue \in Issues
    BY <2>1, <2>2 DEF TypeOK, TablesOK, KeysOK, ProposalRow
  <2>5. issue'[proposal[r.proposal].issue].order
          = issue[proposal[r.proposal].issue].order
    BY <2>4 DEF IssuesGo
  <2> QED
    BY <1>2, <2>3, <2>5 DEF Linked
<1>3. CASE r.op = "reject"
  <2>1. r.proposal \in Proposals
    BY <1>3, ShapeByOp DEF RejectReq
  <2> QED
    BY <1>3, <2>1 DEF Linked, ProposalsGo
<1>4. CASE r.op \in {"flag", "sales", "admin", "delete"}
  <2>1. r.order \in Orders
    BY <1>4, ShapeByOp DEF FlagReq, Editing, DeleteReq
  <2> QED
    BY <1>4, <2>1 DEF Linked, OrdersGo, Exists
<1>5. CASE r.op \in {"run", "auto"} /\ r.at = "commit"
  <2>1. DOMAIN r.in.rows \subseteq Orders
    BY <1>5, ShapeByOp DEF Committing
  <2> QED
    BY <1>5, <2>1 DEF Linked, OrdersGo, Exists
<1> QED
  BY <1>1, <1>2, <1>3, <1>4, <1>5 DEF Linked

LEMMA MovedTyped ==
  ASSUME TypeOK, NEW q \in Requests, Moved(q) PROVE TypeOK'
<1>1. TablesOK'
  BY DEF Moved, TablesOK, OrdersGo, WorkGoes, IssuesGo, ProposalsGo
<1>2. KeysOK'
  <2>1. \A i \in Works : work'[i] # None => ord'[work'[i].order] # None
    BY <1>1 DEF Moved, TablesOK, OrdersGo, WorkGoes, StoredWork
  <2>2. \A i \in Issues : issue'[i] # None => ord'[issue'[i].order] # None
    BY <1>1 DEF Moved, TablesOK, OrdersGo, IssuesGo, IssueRow
  <2>3. \A c \in Proposals : proposal'[c] # None =>
          issue'[proposal'[c].issue] # None
    BY <1>1 DEF Moved, TablesOK, IssuesGo, ProposalsGo, ProposalRow
  <2> QED
    BY <2>1, <2>2, <2>3 DEF KeysOK, Exists
<1>3. RequestsOK'
  <2> SUFFICES ASSUME NEW p \in Requests PROVE Shape(req[p])' /\ Linked(req[p])'
    BY DEF RequestsOK, Moved, Alone
  <2>1. CASE p = q
    BY <2>1 DEF Moved
  <2>2. CASE p # q
    <3>1. PICK r : r = req[p]
      OBVIOUS
    <3>2. r = req'[p]
      BY <2>2, <3>1 DEF Moved, Alone
    <3>3. Shape(r) /\ Linked(r)
      BY <3>1 DEF TypeOK, RequestsOK
    <3>4. Linked(r)'
      BY <3>3, LinkedStays DEF Moved
    <3> QED
      BY <3>2, <3>3, <3>4
  <2> QED
    BY <2>1, <2>2
<1> QED
  BY <1>1, <1>2, <1>3 DEF TypeOK, Moved

(* Steps that leave the tables and the clock alone.                        *)
LEMMA MovedQuietly ==
  ASSUME TypeOK, NEW q \in Requests, UNCHANGED <<ord, work, desk, clock, scene>>,
         HistoryOK', Alone(q), Shape(req[q])', Linked(req[q])'
  PROVE  Moved(q)
<1>1. OrdersGo /\ WorkGoes /\ IssuesGo /\ ProposalsGo /\ ClockOK'
  BY OrdersStay, WorkStays, IssuesStay, ProposalsStay, ClockStays DEF desk
<1> QED
  BY <1>1 DEF Moved

LEMMA Ending ==
  ASSUME TypeOK, NEW q \in Requests, End(q)
  PROVE  Alone(q) /\ Shape(req[q])' /\ Linked(req[q])'
  BY DEF TypeOK, RequestsOK, End, Alone, Shape, Requested, Linked, Idle

LEMMA Beginning ==
  ASSUME TypeOK, NEW q \in Requests, NEW r, Begin(q, r), Shape(r), Linked(r),
         hist' \in {hist, Count(hist)},
         UNCHANGED <<ord, schedule, desk, clock, scene>>
  PROVE  Moved(q)
<1>1. HistoryOK'
  BY DEF TypeOK, HistoryOK, HistoryRow, Count
<1>2. Alone(q) /\ req'[q] = r
  BY DEF TypeOK, RequestsOK, Begin, Alone
<1>3. Linked(r)'
  BY DEF Linked, Exists, desk
<1> QED
  BY <1>1, <1>2, <1>3, MovedQuietly DEF schedule


-------------------------------------------------------------------------------
(* The reads that begin a request.                                         *)
LEMMA CommentReadTyped ==
  ASSUME TypeOK, NEW q \in Requests, NEW i \in Issues, NEW kind \in ProposalKinds,
         NEW value \in Nat, NEW expected \in Nat,
         CommentRead(q, i, kind, value, expected)
  PROVE  Moved(q)
<1> DEFINE r == [op |-> "comment", at |-> "create", issue |-> i, kind |-> kind,
                 value |-> value, expected |-> expected,
                 fresh |-> issue[i].status = "OPEN"]
<1>1. r \in CommentReq
  BY DEF CommentReq
<1>2. Shape(r)
  BY <1>1 DEF Shape, Requested
<1>3. Linked(r)
  BY DEF Linked, CommentRead
<1>4. Begin(q, r) /\ hist' = Count(hist)
      /\ UNCHANGED <<ord, schedule, desk, clock, scene>>
  BY DEF CommentRead
<1> HIDE DEF r
<1> QED
  BY <1>2, <1>3, <1>4, Beginning

LEMMA AcceptReadTyped ==
  ASSUME TypeOK, NEW q \in Requests, NEW c \in Proposals, AcceptRead(q, c)
  PROVE  Moved(q)
<1> DEFINE o == issue[proposal[c].issue].order
<1>0. PICK r : r = [op |-> "accept",
                    at |-> IF Applies(c) THEN "order" ELSE "stale",
                    proposal |-> c, order |-> o, others |-> {}]
  OBVIOUS
<1>1. proposal[c] # None /\ proposal[c] \in ProposalRow
  BY DEF AcceptRead, TypeOK, TablesOK
<1>2. issue[proposal[c].issue] # None /\ proposal[c].issue \in Issues
  BY <1>1 DEF TypeOK, KeysOK, ProposalRow
<1>3. o \in Orders
  BY <1>2 DEF TypeOK, TablesOK, IssueRow
<1>4. r \in AcceptReq
  BY <1>0, <1>3 DEF AcceptReq
<1>5. Shape(r)
  BY <1>4 DEF Shape, Requested
<1>6. Linked(r)
  BY <1>0, <1>1 DEF Linked
<1>7. Begin(q, r) /\ UNCHANGED <<ord, schedule, desk, clock, scene>>
  BY <1>0 DEF AcceptRead
<1>8. \/ hist' = Count(hist)
      \/ hist' = [Count(hist) EXCEPT !.overlapped = @ \cup {c}]
  BY DEF AcceptRead
<1>9. HistoryOK'
  <2>1. Count(hist) \in HistoryRow
    BY DEF TypeOK, HistoryOK, HistoryRow, Count
  <2> QED
    BY <1>8, <2>1 DEF HistoryOK, HistoryRow
<1>10. Alone(q) /\ req'[q] = r
  BY <1>7 DEF TypeOK, RequestsOK, Begin, Alone
<1>11. Linked(r)'
  BY <1>6, <1>7 DEF Linked, Exists, desk
<1> QED
  BY <1>5, <1>7, <1>9, <1>10, <1>11, MovedQuietly DEF schedule

LEMMA RejectReadTyped ==
  ASSUME TypeOK, NEW q \in Requests, NEW c \in Proposals, RejectRead(q, c)
  PROVE  Moved(q)
<1> DEFINE r == [op |-> "reject", at |-> "write", proposal |-> c]
<1>1. Shape(r)
  BY DEF Shape, Requested, RejectReq
<1>2. Linked(r)
  BY DEF Linked, RejectRead
<1>3. Begin(q, r) /\ hist' = Count(hist)
      /\ UNCHANGED <<ord, schedule, desk, clock, scene>>
  BY DEF RejectRead
<1> HIDE DEF r
<1> QED
  BY <1>1, <1>2, <1>3, Beginning

LEMMA StatusReadTyped ==
  ASSUME TypeOK, NEW q \in Requests, NEW i \in Issues,
         NEW op \in {"close", "reopen", "cancel"}, StatusRead(q, i, op)
  PROVE  Moved(q)
<1> DEFINE r == [op |-> op, at |-> IF op = "cancel" THEN "cancel" ELSE "status",
                 issue |-> i]
<1>1. r \in StatusReq
  BY DEF StatusReq
<1>2. Shape(r)
  BY <1>1 DEF Shape, Requested
<1>3. Linked(r)
  BY DEF Linked, StatusRead
<1>4. Begin(q, r) /\ hist' = Count(hist)
      /\ UNCHANGED <<ord, schedule, desk, clock, scene>>
  BY DEF StatusRead
<1> HIDE DEF r
<1> QED
  BY <1>2, <1>3, <1>4, Beginning

LEMMA FlagReadTyped ==
  ASSUME TypeOK, NEW q \in Requests, NEW o \in Orders, FlagRead(q, o)
  PROVE  Moved(q)
<1> DEFINE r == [op |-> "flag", at |-> "look", order |-> o]
<1>1. Shape(r)
  BY DEF Shape, Requested, FlagReq
<1>2. Linked(r)
  BY DEF Linked, FlagRead
<1>3. Begin(q, r) /\ hist' = Count(hist)
      /\ UNCHANGED <<ord, schedule, desk, clock, scene>>
  BY DEF FlagRead
<1> HIDE DEF r
<1> QED
  BY <1>1, <1>2, <1>3, Beginning

LEMMA EditReadTyped ==
  ASSUME TypeOK, NEW q \in Requests, NEW o \in Orders,
         NEW patch \in Values("patches"),
         SalesRead(q, o, patch) \/ AdminRead(q, o, patch)
  PROVE  Moved(q)
<1>1. PatchFits(patch)
  BY ValuesAssumption DEF Values, TypeOK, ClockOK
<1>2. PICK op \in {"sales", "admin"}, at \in {"write", "cancel"} :
        Begin(q, [op |-> op, at |-> at, order |-> o, patch |-> patch])
  <2>1. CASE SalesRead(q, o, patch)
    BY <2>1 DEF SalesRead
  <2>2. CASE AdminRead(q, o, patch)
    <3>1. [op |-> "admin", order |-> o, patch |-> patch,
           at |-> IF "status" \in DOMAIN patch /\ patch.status = "CANCELLED"
                  THEN "cancel" ELSE "write"]
          = [op |-> "admin",
             at |-> IF "status" \in DOMAIN patch /\ patch.status = "CANCELLED"
                    THEN "cancel" ELSE "write",
             order |-> o, patch |-> patch]
      OBVIOUS
    <3> QED
      BY <2>2, <3>1 DEF AdminRead
  <2> QED
    BY <2>1, <2>2
<1> DEFINE r == [op |-> op, at |-> at, order |-> o, patch |-> patch]
<1>3. Shape(r)
  BY <1>1 DEF Shape, Editing
<1>4. Linked(r)
  BY DEF Linked, SalesRead, AdminRead
<1>5. Begin(q, r) /\ hist' = Count(hist)
      /\ UNCHANGED <<ord, schedule, desk, clock, scene>>
  BY <1>2 DEF SalesRead, AdminRead
<1> HIDE DEF r
<1> QED
  BY <1>3, <1>4, <1>5, Beginning

LEMMA DeleteReadTyped ==
  ASSUME TypeOK, NEW q \in Requests, NEW o \in Orders, DeleteRead(q, o)
  PROVE  Moved(q)
<1> DEFINE r == [op |-> "delete", at |-> "cancel", order |-> o]
<1>1. Shape(r)
  BY DEF Shape, Requested, DeleteReq
<1>2. Linked(r)
  BY DEF Linked, DeleteRead
<1>3. Begin(q, r) /\ hist' = Count(hist)
      /\ UNCHANGED <<ord, schedule, desk, clock, scene>>
  BY DEF DeleteRead
<1> HIDE DEF r
<1> QED
  BY <1>1, <1>2, <1>3, Beginning

LEMMA NowTyped == ASSUME TypeOK PROVE Now \in Int
  BY DEF TypeOK, ClockOK, Now

LEMMA RunBeginTyped ==
  ASSUME TypeOK, NEW q \in Requests, NEW cfg \in Values("runs"), RunBegin(q, cfg)
  PROVE  Moved(q)
<1> DEFINE r == [op |-> "run", at |-> "plan", date |-> Now, cfg |-> cfg]
<1>1. cfg \in Configs
  BY ValuesAssumption DEF Values, TypeOK, ClockOK
<1>2. r \in RunReq
  BY <1>1, NowTyped DEF RunReq
<1>3. Shape(r) /\ Linked(r)
  BY <1>2 DEF Shape, Requested, Linked
<1>4. Begin(q, r) /\ hist' = Count(hist)
      /\ UNCHANGED <<ord, schedule, desk, clock, scene>>
  BY DEF RunBegin
<1> HIDE DEF r
<1> QED
  BY <1>3, <1>4, Beginning

LEMMA CronBeginTyped ==
  ASSUME TypeOK, NEW q \in Requests, AutoBegin(q) \/ DailyBegin(q)
  PROVE  Moved(q)
<1>1. PICK job \in {"auto", "daily"} : CronBegin(q, job)
  BY DEF AutoBegin, DailyBegin
<1> DEFINE r == [op |-> job, at |-> "date"]
<1>2. Shape(r) /\ Linked(r)
  BY DEF Shape, Requested, TickReq, Linked
<1>3. hist' \in {hist, Count(hist)}
      /\ UNCHANGED <<ord, schedule, desk, clock, scene>>
  BY DEF AutoBegin, DailyBegin
<1>4. HistoryOK'
  BY <1>3 DEF TypeOK, HistoryOK, HistoryRow, Count
<1>5. Alone(q) /\ req'[q] = r
  BY <1>1 DEF TypeOK, RequestsOK, CronBegin, Alone
<1>6. Linked(r)'
  BY <1>2 DEF Linked
<1> QED
  BY <1>2, <1>3, <1>4, <1>5, <1>6, MovedQuietly DEF schedule

LEMMA PatchReadTyped ==
  ASSUME TypeOK, NEW q \in Requests, NEW asked \in Values("switches"),
         PatchRead(q, asked)
  PROVE  Moved(q)
<1>1. asked \in Switches
  BY ValuesAssumption DEF Values, TypeOK, ClockOK
<1>2. PICK at \in {"advance", "revert", "plain"}, date \in Int \cup {None},
           patch \in Switches :
        /\ Begin(q, [op |-> "patch", at |-> at, date |-> date, patch |-> patch])
        /\ at # "plain" => date \in Int
  BY <1>1, StrategyAssumption DEF PatchRead, TypeOK, ClockOK, Switches
<1> DEFINE r == [op |-> "patch", at |-> at, date |-> date, patch |-> patch]
<1>3. r \in PlainReq \/ r \in SwitchReq
  BY <1>2 DEF PlainReq, SwitchReq
<1>4. Shape(r) /\ Linked(r)
  BY <1>3 DEF Shape, Requested, Linked
<1>5. Begin(q, r) /\ hist' = Count(hist)
      /\ UNCHANGED <<ord, schedule, desk, clock, scene>>
  BY <1>2 DEF PatchRead
<1> HIDE DEF r
<1> QED
  BY <1>4, <1>5, Beginning

-------------------------------------------------------------------------------
(* What the operators do to the tables.                                    *)
LEMMA RewrittenGoes ==
  ASSUME TypeOK, NEW S \in SUBSET Orders, NEW row,
         \A o \in S : /\ Exists(o) /\ row[o] \in OrderRow
                      /\ row[o].rev = ord[o].rev,
         ord' = Rewritten(S, row)
  PROVE  /\ OrdersGo
         /\ \A o \in S : ord'[o].rev = ord[o].rev + 1
<1>1. \A o \in S : [row[o] EXCEPT !.rev = @ + 1] \in OrderRow
                   /\ [row[o] EXCEPT !.rev = @ + 1].rev = ord[o].rev + 1
  BY DEF OrderRow
<1>2. ord' \in [Orders -> OrderRow \cup {None}]
  BY <1>1 DEF Rewritten, TypeOK, TablesOK
<1>3. \A o \in S : ord'[o].rev = ord[o].rev + 1 /\ ord'[o] # None
  BY <1>1, StoreAssumption DEF Rewritten
<1>4. \A o \in Orders \ S : ord'[o] = ord[o]
  BY DEF Rewritten
<1>5. \A o \in Orders : ord[o] # None => ord[o].rev \in Nat
  BY DEF TypeOK, TablesOK, OrderRow
<1> QED
  BY <1>2, <1>3, <1>4, <1>5 DEF OrdersGo, Exists

LEMMA WithStatusGoes ==
  ASSUME TypeOK, NEW S \in SUBSET Orders, \A o \in S : Exists(o),
         NEW status \in OrderStatus, ord' = WithStatus(S, status)
  PROVE  OrdersGo
<1> DEFINE row == [o \in S |-> [ord[o] EXCEPT !.status = status]]
<1>1. \A o \in S : row[o] \in OrderRow /\ row[o].rev = ord[o].rev
  BY DEF TypeOK, TablesOK, Exists, OrderRow
<1>2. ord' = Rewritten(S, row)
  BY DEF WithStatus
<1> HIDE DEF row
<1> QED
  BY <1>1, <1>2, RewrittenGoes

LEMMA CancelTxGoes ==
  ASSUME TypeOK, NEW o \in Orders, Exists(o), CancelTx({o})
  PROVE  OrdersGo /\ WorkGoes
<1>1. OrdersGo
  BY WithStatusGoes DEF CancelTx, OrderStatus
<1>2. \A i \in Works :
        \/ work'[i] = work[i]
        \/ work[i] # None /\ work'[i] = [work[i] EXCEPT !.status = "CANCELLED"]
  BY DEF CancelTx
<1>3. \A i \in Works : work[i] # None => work[i] \in StoredWork
  BY DEF TypeOK, TablesOK
<1>4. \A i \in Works : work[i] # None =>
        /\ [work[i] EXCEPT !.status = "CANCELLED"] \in StoredWork
        /\ [work[i] EXCEPT !.status = "CANCELLED"].order = work[i].order
  BY <1>3 DEF StoredWork, WorkStatus
<1>5. work' = [i \in Works |-> work'[i]]
  BY DEF CancelTx
<1>6. \A i \in Works : /\ work'[i] \in StoredWork \cup {None}
                       /\ work'[i] # None => ord[work'[i].order] # None
  BY <1>2, <1>3, <1>4 DEF TypeOK, KeysOK, Exists
<1>7. work' \in [Works -> StoredWork \cup {None}]
  BY <1>5, <1>6
<1> QED
  BY <1>1, <1>6, <1>7 DEF WorkGoes

LEMMA JudgeGoes ==
  ASSUME TypeOK, NEW S \in SUBSET Proposals, \A c \in S : proposal[c] # None,
         NEW status \in {"ACCEPTED", "REJECTED", "STALE"}, Judge(S, status)
  PROVE  ProposalsGo
<1>1. \A c \in Proposals : proposal[c] # None => proposal[c] \in ProposalRow
  BY DEF TypeOK, TablesOK
<1>2. \A c \in Proposals : proposal[c] # None =>
        LET row == [proposal[c] EXCEPT !.status = status] IN
        /\ row \in ProposalRow /\ row # None
        /\ row.issue = proposal[c].issue
        /\ row.expected = proposal[c].expected
  BY <1>1, StoreAssumption DEF ProposalRow
<1>3. proposal' \in [Proposals -> ProposalRow \cup {None}]
  BY <1>2 DEF Judge, TypeOK, TablesOK
<1>4. \A c \in Proposals :
        \/ proposal'[c] = proposal[c]
        \/ proposal[c] # None
           /\ proposal'[c] = [proposal[c] EXCEPT !.status = status]
  BY DEF Judge
<1>5. \A c \in Proposals : proposal[c] # None =>
        /\ proposal'[c] # None
        /\ proposal'[c].issue = proposal[c].issue
        /\ proposal'[c].expected = proposal[c].expected
  BY <1>2, <1>4
<1>6. \A c \in Proposals : proposal'[c] # None =>
        issue[proposal'[c].issue] # None
  BY <1>4, <1>5 DEF TypeOK, KeysOK
<1> QED
  BY <1>3, <1>5, <1>6 DEF ProposalsGo

LEMMA IssueStatusGoes ==
  ASSUME TypeOK, NEW i \in Issues, issue[i] # None, NEW status \in IssueStatus,
         issue' = [issue EXCEPT ![i].status = status]
  PROVE  IssuesGo
<1>1. issue[i] \in IssueRow
  BY DEF TypeOK, TablesOK
<1>2. [issue[i] EXCEPT !.status = status] \in IssueRow
      /\ [issue[i] EXCEPT !.status = status].order = issue[i].order
  BY <1>1 DEF IssueRow
<1>3. issue' = [issue EXCEPT ![i] = [issue[i] EXCEPT !.status = status]]
  OBVIOUS
<1>4. issue' \in [Issues -> IssueRow \cup {None}]
  BY <1>2, <1>3 DEF TypeOK, TablesOK
<1>5. /\ \A j \in Issues \ {i} : issue'[j] = issue[j]
      /\ issue'[i] \in IssueRow /\ issue'[i].order = issue[i].order
  BY <1>2, <1>3 DEF TypeOK, TablesOK
<1> QED
  BY <1>4, <1>5, StoreAssumption DEF IssuesGo, TypeOK, KeysOK, Exists

LEMMA IssuesForGoes ==
  ASSUME TypeOK, NEW S \in SUBSET Orders, \A o \in S : Exists(o), NEW snap,
         \A o \in S : snap[o] \in SnapshotRow \cup {None},
         issue' = IssuesFor(S, snap)
  PROVE  /\ IssuesGo
         /\ \A i \in Issues : issue[i] # None => issue'[i] = issue[i]
         /\ \A i \in Issues : issue'[i] # issue[i] =>
              issue[i] = None /\ issue'[i].order \in S /\ issue'[i].status = "OPEN"
<1>1. \A i \in Issues :
        \/ issue'[i] = issue[i]
        \/ /\ issue[i] = None
           /\ \E o \in S : issue'[i] = [order |-> o, status |-> "OPEN",
                                        snap |-> snap[o]]
  BY DEF IssuesFor, FreeIssues
<1>2. \A o \in S : [order |-> o, status |-> "OPEN", snap |-> snap[o]] \in IssueRow
  BY DEF IssueRow, IssueStatus
<1>3. issue' = [i \in Issues |-> issue'[i]]
  BY DEF IssuesFor
<1>4. \A i \in Issues : issue'[i] \in IssueRow \cup {None}
  BY <1>1, <1>2 DEF TypeOK, TablesOK
<1>5. issue' \in [Issues -> IssueRow \cup {None}]
  BY <1>3, <1>4
<1>6. \A i \in Issues : issue'[i] # None => ord[issue'[i].order] # None
  <2> SUFFICES ASSUME NEW i \in Issues, issue'[i] # None
               PROVE  ord[issue'[i].order] # None
    OBVIOUS
  <2>1. CASE issue'[i] = issue[i]
    BY <2>1 DEF TypeOK, KeysOK, Exists
  <2>2. CASE issue'[i] # issue[i]
    <3>1. PICK o \in S : issue'[i] = [order |-> o, status |-> "OPEN",
                                      snap |-> snap[o]]
      BY <1>1, <2>2
    <3>2. issue'[i].order = o
      BY <3>1
    <3> QED
      BY <3>2 DEF Exists
  <2> QED
    BY <2>1, <2>2
<1>7. \A i \in Issues : issue[i] # None => issue'[i] = issue[i]
  BY <1>1
<1> QED
  BY <1>1, <1>5, <1>6, <1>7 DEF IssuesGo

-------------------------------------------------------------------------------
(* The steps of IssueDesk.                                                 *)
LEMMA RequestOK ==
  ASSUME TypeOK, NEW q \in Requests PROVE Shape(req[q]) /\ Linked(req[q])
  BY DEF TypeOK, RequestsOK

(* A request that goes on, with what it has.                               *)
LEMMA GoingOn ==
  ASSUME TypeOK, NEW q \in Requests, NEW at, Goto(q, at),
         OrdersGo, IssuesGo, ProposalsGo,
         \/ req[q].op = "comment" /\ at = "discuss"
         \/ req[q].op = "accept" /\ at \in {"mark", "others", "outdate", "resolve"}
         \/ req[q].op = "flag" /\ at = "create"
         \/ req[q].op = "cancel" /\ at = "status"
  PROVE  Alone(q) /\ Shape(req[q])' /\ Linked(req[q])'
<1>1. PICK r : r = [req[q] EXCEPT !.at = at]
  OBVIOUS
<1>2. Alone(q) /\ req'[q] = r
  BY <1>1 DEF Goto, TypeOK, RequestsOK, Alone
<1>3. Shape(req[q]) /\ Linked(req[q])
  BY RequestOK
<1>4. CASE req[q].op = "comment"
  <2>1. req[q] \in CommentReq
    BY <1>3, <1>4, ShapeByOp
  <2>2. r \in CommentReq /\ r.issue = req[q].issue /\ r.op = req[q].op
    BY <1>1, <1>4, <2>1 DEF CommentReq
  <2>3. Shape(r) /\ Linked(r)
    BY <1>3, <1>4, <2>2 DEF Shape, Requested, Linked
  <2> QED
    BY <1>2, <2>3, LinkedStays
<1>5. CASE req[q].op = "accept"
  <2>1. req[q] \in AcceptReq
    BY <1>3, <1>5, ShapeByOp
  <2>2. /\ r \in AcceptReq /\ r.op = req[q].op
        /\ r.proposal = req[q].proposal /\ r.order = req[q].order
        /\ r.others = req[q].others
    BY <1>1, <1>5, <2>1 DEF AcceptReq
  <2>3. Shape(r) /\ Linked(r)
    BY <1>3, <1>5, <2>2 DEF Shape, Requested, Linked
  <2> QED
    BY <1>2, <2>3, LinkedStays
<1>6. CASE req[q].op = "flag"
  <2>1. req[q] \in FlagReq
    BY <1>3, <1>6, ShapeByOp
  <2>2. r \in FlagReq /\ r.op = req[q].op /\ r.order = req[q].order
    BY <1>1, <1>6, <2>1 DEF FlagReq
  <2>3. Shape(r) /\ Linked(r)
    BY <1>3, <1>6, <2>2 DEF Shape, Requested, Linked
  <2> QED
    BY <1>2, <2>3, LinkedStays
<1>7. CASE req[q].op = "cancel"
  <2>1. req[q] \in StatusReq
    BY <1>3, <1>7, ShapeByOp
  <2>2. r \in StatusReq /\ r.op = req[q].op /\ r.issue = req[q].issue
    BY <1>1, <1>7, <2>1 DEF StatusReq
  <2>3. Shape(r) /\ Linked(r)
    BY <1>3, <1>7, <2>2 DEF Shape, Requested, Linked
  <2> QED
    BY <1>2, <2>3, LinkedStays
<1> QED
  BY <1>4, <1>5, <1>6, <1>7

LEMMA HistoryStays ==
  ASSUME TypeOK, hist' = hist PROVE HistoryOK'
  BY DEF TypeOK, HistoryOK

LEMMA HistoryCrossed ==
  ASSUME TypeOK, NEW S \in SUBSET Orders, hist' = Crossed(hist, S) PROVE HistoryOK'
  BY DEF TypeOK, HistoryOK, HistoryRow, Crossed

LEMMA HistoryAstray ==
  ASSUME TypeOK, NEW S \in SUBSET Orders, hist' = Astray(hist, S) PROVE HistoryOK'
  BY DEF TypeOK, HistoryOK, HistoryRow, Astray

LEMMA CommentCreateTyped ==
  ASSUME TypeOK, NEW q \in Requests, CommentCreate(q) PROVE Moved(q)
<1>1. req[q] \in CommentReq /\ issue[req[q].issue] # None
  BY RequestOK, ShapeByOp DEF CommentCreate, Doing, Linked
<1>2. PICK c \in Proposals :
        /\ proposal[c] = None
        /\ proposal' = [proposal EXCEPT ![c] =
             [issue |-> req[q].issue, kind |-> req[q].kind,
              value |-> req[q].value, expected |-> req[q].expected,
              status |-> "PENDING"]]
  BY DEF CommentCreate
<1>3. [issue |-> req[q].issue, kind |-> req[q].kind, value |-> req[q].value,
       expected |-> req[q].expected, status |-> "PENDING"] \in ProposalRow
  BY <1>1 DEF CommentReq, ProposalRow
<1>4. proposal' \in [Proposals -> ProposalRow \cup {None}]
  BY <1>2, <1>3 DEF TypeOK, TablesOK
<1>5. /\ \A d \in Proposals \ {c} : proposal'[d] = proposal[d]
      /\ proposal'[c].issue = req[q].issue
  BY <1>2 DEF TypeOK, TablesOK
<1>6. ProposalsGo
  BY <1>1, <1>2, <1>4, <1>5 DEF ProposalsGo, TypeOK, KeysOK
<1>7. OrdersGo /\ WorkGoes /\ IssuesGo /\ ClockOK' /\ HistoryOK'
  BY OrdersStay, WorkStays, IssuesStay, ClockStays, HistoryStays
     DEF CommentCreate, schedule
<1>8. Goto(q, "discuss") \/ End(q)
  BY DEF CommentCreate
<1>9. Alone(q) /\ Shape(req[q])' /\ Linked(req[q])'
  BY <1>1, <1>6, <1>7, <1>8, GoingOn, Ending DEF CommentReq
<1> QED
  BY <1>6, <1>7, <1>9 DEF Moved

LEMMA CommentDiscussTyped ==
  ASSUME TypeOK, NEW q \in Requests, CommentDiscuss(q) PROVE Moved(q)
<1> DEFINE i == req[q].issue
<1>1. i \in Issues /\ issue[i] # None
  BY RequestOK, ShapeByOp DEF CommentDiscuss, Doing, Linked, CommentReq
<1>2. IssuesGo
  BY <1>1, IssueStatusGoes DEF CommentDiscuss, IssueStatus
<1>3. issue[i].order \in Orders
  BY <1>1 DEF TypeOK, TablesOK, IssueRow
<1>4. HistoryOK'
  BY <1>3, HistoryStays, HistoryCrossed DEF CommentDiscuss
<1>5. OrdersGo /\ WorkGoes /\ ProposalsGo /\ ClockOK'
  BY OrdersStay, WorkStays, ProposalsStay, ClockStays DEF CommentDiscuss, schedule
<1>6. Alone(q) /\ Shape(req[q])' /\ Linked(req[q])'
  BY Ending DEF CommentDiscuss
<1> QED
  BY <1>2, <1>4, <1>5, <1>6 DEF Moved

LEMMA JudgingTyped ==
  ASSUME TypeOK, NEW q \in Requests,
         AcceptStale(q) \/ AcceptMark(q) \/ AcceptOthersWrite(q) \/ RejectWrite(q)
  PROVE  Moved(q)
<1>1. OrdersGo /\ WorkGoes /\ IssuesGo /\ ClockOK' /\ HistoryOK'
  BY OrdersStay, WorkStays, IssuesStay, ClockStays, HistoryStays
     DEF AcceptStale, AcceptMark, AcceptOthersWrite, RejectWrite, schedule
<1>2. CASE AcceptStale(q) \/ AcceptMark(q) \/ AcceptOthersWrite(q)
  <2>1. req[q].op = "accept" /\ req[q] \in AcceptReq
    BY <1>2, RequestOK, ShapeByOp
       DEF AcceptStale, AcceptMark, AcceptOthersWrite, Doing
  <2>2. /\ req[q].proposal \in Proposals /\ proposal[req[q].proposal] # None
        /\ req[q].others \in SUBSET Proposals
        /\ \A c \in req[q].others : proposal[c] # None
    BY <2>1, RequestOK DEF Linked, AcceptReq
  <2>3. ProposalsGo
    BY <1>2, <2>2, JudgeGoes DEF AcceptStale, AcceptMark, AcceptOthersWrite
  <2>4. End(q) \/ Goto(q, "others") \/ Goto(q, "resolve")
    BY <1>2 DEF AcceptStale, AcceptMark, AcceptOthersWrite
  <2>5. Alone(q) /\ Shape(req[q])' /\ Linked(req[q])'
    BY <1>1, <2>1, <2>3, <2>4, GoingOn, Ending
  <2> QED
    BY <1>1, <2>3, <2>5 DEF Moved
<1>3. CASE RejectWrite(q)
  <2>1. req[q].proposal \in Proposals /\ proposal[req[q].proposal] # None
    BY <1>3, RequestOK, ShapeByOp DEF RejectWrite, Doing, Linked, RejectReq
  <2>2. ProposalsGo
    BY <1>3, <2>1, JudgeGoes DEF RejectWrite
  <2>3. Alone(q) /\ Shape(req[q])' /\ Linked(req[q])'
    BY <1>3, Ending DEF RejectWrite
  <2> QED
    BY <1>1, <2>2, <2>3 DEF Moved
<1> QED
  BY <1>2, <1>3

LEMMA AcceptOrderTyped ==
  ASSUME TypeOK, NEW q \in Requests, AcceptOrder(q)
  PROVE  Moved(q) /\ ord'[req[q].order].rev = ord[req[q].order].rev + 1
<1> DEFINE c == req[q].proposal
           o == req[q].order
           row == [p \in {o} |-> Applied(ord[p], proposal[c])]
<1>1. req[q].op = "accept" /\ req[q] \in AcceptReq
  BY RequestOK, ShapeByOp DEF AcceptOrder, Doing
<1>2. c \in Proposals /\ o \in Orders
  BY <1>1 DEF AcceptReq
<1>3. proposal[c] # None /\ proposal[c] \in ProposalRow
      /\ o = issue[proposal[c].issue].order
  BY <1>1, <1>2, RequestOK DEF Linked, TypeOK, TablesOK
<1>4. Exists(o) /\ ord[o] \in OrderRow
  <2>1. proposal[c].issue \in Issues /\ issue[proposal[c].issue] # None
    BY <1>2, <1>3 DEF TypeOK, KeysOK, ProposalRow
  <2> QED
    BY <1>2, <1>3, <2>1 DEF TypeOK, KeysOK, TablesOK, Exists
<1>5. Applied(ord[o], proposal[c]) \in OrderRow
      /\ Applied(ord[o], proposal[c]).rev = ord[o].rev
  <2>1. /\ proposal[c].value \in Nat /\ proposal[c].value \in Int
        /\ proposal[c].kind \in ProposalKinds
    BY <1>3 DEF ProposalRow
  <2>2. CASE proposal[c].kind = "REDUCE_QUANTITY"
    BY <1>4, <2>1, <2>2 DEF Applied, OrderRow, OrderStatus
  <2>3. CASE proposal[c].kind = "DELAY_DUE_DATE"
    BY <1>4, <2>1, <2>3 DEF Applied, OrderRow, OrderStatus
  <2>4. CASE proposal[c].kind = "CANCEL"
    BY <1>4, <2>1, <2>4 DEF Applied, OrderRow, OrderStatus
  <2> QED
    BY <2>1, <2>2, <2>3, <2>4 DEF ProposalKinds
<1>6. row[o] = Applied(ord[o], proposal[c])
  OBVIOUS
<1>7. ord' = Rewritten({o}, row)
  BY DEF AcceptOrder
<1> HIDE DEF row
<1>8. OrdersGo /\ ord'[o].rev = ord[o].rev + 1
  <2>1. {o} \in SUBSET Orders
    BY <1>2
  <2>2. \A p \in {o} : /\ Exists(p) /\ row[p] \in OrderRow
                       /\ row[p].rev = ord[p].rev
    BY <1>4, <1>5, <1>6
  <2> QED
    BY <1>7, <2>1, <2>2, RewrittenGoes
<1>9. WorkGoes /\ IssuesGo /\ ProposalsGo /\ ClockOK'
  BY WorkStays, IssuesStay, ProposalsStay, ClockStays DEF AcceptOrder, schedule, desk
<1>10. HistoryOK'
  <2>1. [hist EXCEPT !.applied[c] = @ + 1] \in HistoryRow
    BY <1>2 DEF TypeOK, HistoryOK, HistoryRow
  <2> QED
    BY <1>2, <2>1 DEF AcceptOrder, Astray, HistoryOK, HistoryRow
<1>11. Alone(q) /\ Shape(req[q])' /\ Linked(req[q])'
  BY <1>1, <1>8, <1>9, GoingOn DEF AcceptOrder
<1> QED
  BY <1>8, <1>9, <1>10, <1>11 DEF Moved

LEMMA AcceptOthersReadTyped ==
  ASSUME TypeOK, NEW q \in Requests, AcceptOthersRead(q) PROVE Moved(q)
<1>1. PICK S : S = {d \in Proposals \ {req[q].proposal} :
                      /\ proposal[d] # None /\ proposal[d].status = "PENDING"
                      /\ proposal[d].issue = proposal[req[q].proposal].issue}
  OBVIOUS
<1>2. req[q].op = "accept" /\ req[q] \in AcceptReq
  BY RequestOK, ShapeByOp DEF AcceptOthersRead, Doing
<1>3. PICK r : r = [[req[q] EXCEPT !.others = S] EXCEPT !.at = "outdate"]
  OBVIOUS
<1>4. Alone(q) /\ req'[q] = r
  BY <1>1, <1>3 DEF AcceptOthersRead, TypeOK, RequestsOK, Alone
<1>5. /\ r \in AcceptReq /\ r.op = "accept" /\ r.others = S
      /\ r.proposal = req[q].proposal /\ r.order = req[q].order
  BY <1>1, <1>2, <1>3 DEF AcceptReq
<1>6. Shape(r)
  BY <1>5 DEF Shape, Requested
<1>7. Linked(r)
  BY <1>1, <1>2, <1>5, RequestOK DEF Linked
<1>8. OrdersGo /\ IssuesGo /\ ProposalsGo /\ HistoryOK'
      /\ UNCHANGED <<ord, work, desk, clock, scene>>
  BY OrdersStay, IssuesStay, ProposalsStay, HistoryStays
     DEF AcceptOthersRead, schedule, desk
<1>9. Linked(r)'
  BY <1>6, <1>7, <1>8, LinkedStays
<1> QED
  BY <1>4, <1>6, <1>8, <1>9, MovedQuietly

LEMMA AcceptResolveTyped ==
  ASSUME TypeOK, NEW q \in Requests, AcceptResolve(q) PROVE Moved(q)
<1> DEFINE i == proposal[req[q].proposal].issue
<1>1. req[q].proposal \in Proposals /\ proposal[req[q].proposal] # None
  BY RequestOK, ShapeByOp DEF AcceptResolve, Doing, Linked, AcceptReq
<1>2. i \in Issues /\ issue[i] # None
  BY <1>1 DEF TypeOK, TablesOK, KeysOK, ProposalRow
<1>3. IssuesGo
  BY <1>2, IssueStatusGoes DEF AcceptResolve, IssueStatus
<1>4. OrdersGo /\ WorkGoes /\ ProposalsGo /\ ClockOK' /\ HistoryOK'
  BY OrdersStay, WorkStays, ProposalsStay, ClockStays, HistoryStays
     DEF AcceptResolve, schedule
<1>5. Alone(q) /\ Shape(req[q])' /\ Linked(req[q])'
  BY Ending DEF AcceptResolve
<1> QED
  BY <1>3, <1>4, <1>5 DEF Moved

LEMMA CancelFromIssueTyped ==
  ASSUME TypeOK, NEW q \in Requests, CancelFromIssue(q) PROVE Moved(q)
<1> DEFINE o == issue[req[q].issue].order
<1>1. req[q].op = "cancel" /\ req[q].issue \in Issues /\ issue[req[q].issue] # None
  BY RequestOK, ShapeByOp DEF CancelFromIssue, Doing, Linked, StatusReq
<1>2. o \in Orders /\ Exists(o)
  BY <1>1 DEF TypeOK, TablesOK, KeysOK, IssueRow
<1>3. OrdersGo /\ WorkGoes
  BY <1>2, CancelTxGoes DEF CancelFromIssue
<1>4. IssuesGo /\ ProposalsGo /\ ClockOK'
  BY IssuesStay, ProposalsStay, ClockStays DEF CancelFromIssue, desk
<1>5. HistoryOK'
  BY <1>2, HistoryAstray DEF CancelFromIssue
<1>6. Alone(q) /\ Shape(req[q])' /\ Linked(req[q])'
  BY <1>1, <1>3, <1>4, GoingOn DEF CancelFromIssue
<1> QED
  BY <1>3, <1>4, <1>5, <1>6 DEF Moved

LEMMA StatusWriteTyped ==
  ASSUME TypeOK, NEW q \in Requests, StatusWrite(q) PROVE Moved(q)
<1> DEFINE i == req[q].issue
<1>1. i \in Issues /\ issue[i] # None
  BY RequestOK, ShapeByOp DEF StatusWrite, Linked, StatusReq
<1>2. PICK status \in {"IN_DISCUSSION", "CLOSED"} :
        issue' = [issue EXCEPT ![i].status = status]
  BY DEF StatusWrite
<1>3. IssuesGo
  BY <1>1, <1>2, IssueStatusGoes DEF IssueStatus
<1>4. issue[i].order \in Orders
  BY <1>1 DEF TypeOK, TablesOK, IssueRow
<1>5. HistoryOK'
  BY <1>4, HistoryStays, HistoryCrossed DEF StatusWrite
<1>6. OrdersGo /\ WorkGoes /\ ProposalsGo /\ ClockOK'
  BY OrdersStay, WorkStays, ProposalsStay, ClockStays DEF StatusWrite, schedule
<1>7. Alone(q) /\ Shape(req[q])' /\ Linked(req[q])'
  BY Ending DEF StatusWrite
<1> QED
  BY <1>3, <1>5, <1>6, <1>7 DEF Moved

LEMMA FlagLookTyped ==
  ASSUME TypeOK, NEW q \in Requests, FlagLook(q) PROVE Moved(q)
<1>1. req[q].op = "flag" /\ req[q].order \in Orders
  BY RequestOK, ShapeByOp DEF FlagLook, Doing, FlagReq
<1>2. HistoryOK'
  BY <1>1, HistoryStays, HistoryCrossed DEF FlagLook
<1>3. OrdersGo /\ IssuesGo /\ ProposalsGo
      /\ UNCHANGED <<ord, work, desk, clock, scene>>
  BY OrdersStay, IssuesStay, ProposalsStay DEF FlagLook, schedule, desk
<1>4. Goto(q, "create") \/ End(q)
  BY DEF FlagLook
<1>5. Alone(q) /\ Shape(req[q])' /\ Linked(req[q])'
  BY <1>1, <1>3, <1>4, GoingOn, Ending
<1> QED
  BY <1>2, <1>3, <1>5, MovedQuietly

LEMMA FlagCreateTyped ==
  ASSUME TypeOK, NEW q \in Requests, FlagCreate(q) PROVE Moved(q)
<1>1. req[q].order \in Orders /\ Exists(req[q].order)
  BY RequestOK, ShapeByOp DEF FlagCreate, Doing, Linked, FlagReq
<1>2. IssuesGo
  BY <1>1, IssuesForGoes DEF FlagCreate
<1>3. OrdersGo /\ WorkGoes /\ ProposalsGo /\ ClockOK' /\ HistoryOK'
  BY OrdersStay, WorkStays, ProposalsStay, ClockStays, HistoryStays
     DEF FlagCreate, schedule
<1>4. Alone(q) /\ Shape(req[q])' /\ Linked(req[q])'
  BY Ending DEF FlagCreate
<1> QED
  BY <1>2, <1>3, <1>4 DEF Moved

-------------------------------------------------------------------------------
(* The steps of OrderDesk.                                                 *)
LEMMA CreateOrderTyped ==
  ASSUME TypeOK, NEW q \in Requests, NEW o \in Orders, NEW n \in Values("new"),
         CreateOrder(q, o, n.qty, n.due)
  PROVE  Moved(q)
<1> DEFINE row == [status |-> "PENDING", qty |-> n.qty, due |-> n.due,
                   fixed |-> FALSE, prio |-> FALSE, rev |-> 0]
<1>1. n \in [qty : Nat, due : Int]
  BY ValuesAssumption DEF Values, TypeOK, ClockOK
<1>2. row \in OrderRow
  BY <1>1 DEF OrderRow, OrderStatus
<1>3. ord[o] = None /\ ord' = [ord EXCEPT ![o] = row]
  BY DEF CreateOrder, Exists
<1> HIDE DEF row
<1>4. OrdersGo
  BY <1>2, <1>3 DEF OrdersGo, TypeOK, TablesOK, OrderRow
<1>5. WorkGoes /\ IssuesGo /\ ProposalsGo /\ ClockOK'
  BY WorkStays, IssuesStay, ProposalsStay, ClockStays DEF CreateOrder, schedule, desk
<1>6. HistoryOK'
  BY DEF CreateOrder, TypeOK, HistoryOK, HistoryRow, Count
<1>7. PICK r : r = req[q]
  OBVIOUS
<1>8. r = req'[q] /\ Alone(q)
  BY <1>7 DEF CreateOrder, Alone, TypeOK, RequestsOK
<1>9. Shape(r) /\ Linked(r)
  BY <1>7, RequestOK
<1>10. Linked(r)'
  BY <1>4, <1>5, <1>9, LinkedStays
<1> QED
  BY <1>4, <1>5, <1>6, <1>8, <1>9, <1>10 DEF Moved

LEMMA PatchedTyped ==
  ASSUME NEW row \in OrderRow, NEW patch, PatchFits(patch)
  PROVE  Patched(row, patch) \in OrderRow /\ Patched(row, patch).rev = row.rev
<1> DEFINE new == Patched(row, patch)
<1>1. DOMAIN row = {"status", "qty", "due", "fixed", "prio", "rev"}
  BY DEF OrderRow
<1>2. new = [status |-> new.status, qty |-> new.qty, due |-> new.due,
             fixed |-> new.fixed, prio |-> new.prio, rev |-> new.rev]
  BY <1>1 DEF Patched
<1>3. /\ new.status \in OrderStatus /\ new.qty \in Nat /\ new.due \in Int
      /\ new.fixed \in BOOLEAN /\ new.prio \in BOOLEAN /\ new.rev = row.rev
  BY <1>1 DEF Patched, PatchFits, OrderRow
<1>4. row.rev \in Nat
  BY DEF OrderRow
<1> HIDE DEF new
<1>5. new \in OrderRow
  BY <1>2, <1>3, <1>4 DEF OrderRow
<1> QED
  BY <1>3, <1>5 DEF new

LEMMA UpdateOrderTyped ==
  ASSUME TypeOK, NEW q \in Requests, UpdateOrder(q) PROVE Moved(q)
<1> DEFINE o == req[q].order
           patch == req[q].patch
           row == [p \in {o} |-> Patched(ord[p], patch)]
<1>1. Editing(req[q]) /\ Exists(o)
  BY RequestOK, ShapeByOp DEF UpdateOrder, Linked
<1>2. o \in Orders /\ PatchFits(patch)
  BY <1>1 DEF Editing
<1>3. ord[o] \in OrderRow
  BY <1>1, <1>2 DEF TypeOK, TablesOK, Exists
<1>4. row[o] \in OrderRow /\ row[o].rev = ord[o].rev
  BY <1>2, <1>3, PatchedTyped
<1>5. \/ /\ ord' = Rewritten({o}, row)
         /\ hist' \in {[hist EXCEPT !.astray = @ \cup {o}], hist}
      \/ UNCHANGED <<ord, hist>>
  BY DEF UpdateOrder, Locked
<1> HIDE DEF row
<1>6. OrdersGo
  <2>1. CASE UNCHANGED ord
    BY <2>1, OrdersStay
  <2>2. CASE ord' = Rewritten({o}, row)
    <3>1. {o} \in SUBSET Orders
      BY <1>2
    <3>2. \A p \in {o} : /\ Exists(p) /\ row[p] \in OrderRow
                         /\ row[p].rev = ord[p].rev
      BY <1>1, <1>4
    <3> QED
      BY <2>2, <3>1, <3>2, RewrittenGoes
  <2> QED
    BY <1>5, <2>1, <2>2
<1>7. HistoryOK'
  BY <1>2, <1>5 DEF TypeOK, HistoryOK, HistoryRow
<1>8. WorkGoes /\ IssuesGo /\ ProposalsGo /\ ClockOK'
  BY WorkStays, IssuesStay, ProposalsStay, ClockStays DEF UpdateOrder, schedule, desk
<1>9. Alone(q) /\ Shape(req[q])' /\ Linked(req[q])'
  BY Ending DEF UpdateOrder
<1> QED
  BY <1>6, <1>7, <1>8, <1>9 DEF Moved

LEMMA CancelOrderTyped ==
  ASSUME TypeOK, NEW q \in Requests, CancelOrder(q) PROVE Moved(q)
<1>1. req[q].order \in Orders /\ Exists(req[q].order)
  BY RequestOK, ShapeByOp DEF CancelOrder, Linked, Editing, DeleteReq
<1>2. OrdersGo /\ WorkGoes
  BY <1>1, CancelTxGoes, OrdersStay, WorkStays DEF CancelOrder, schedule
<1>3. IssuesGo /\ ProposalsGo /\ ClockOK' /\ HistoryOK'
  BY IssuesStay, ProposalsStay, ClockStays, HistoryStays DEF CancelOrder, desk
<1>4. Alone(q) /\ Shape(req[q])' /\ Linked(req[q])'
  BY Ending DEF CancelOrder
<1> QED
  BY <1>2, <1>3, <1>4 DEF Moved

-------------------------------------------------------------------------------
(* The steps of ProductionLine.                                            *)
LEMMA PrepareTyped ==
  ASSUME NEW date \in Int, NEW asked \in Configs
  PROVE  LET in == Prepare(date, asked) IN
         /\ DOMAIN in.rows \subseteq {o \in Orders : Exists(o)}
         /\ in.start \in Int /\ in.splittable \in BOOLEAN
<1>1. Earliest(date) \in Int
  BY StoreAssumption DEF Earliest
<1> DEFINE cfg == [asked EXCEPT !.start = IF @ = None THEN Earliest(date)
                                          ELSE Larger(@, Earliest(date))]
<1>2. cfg.start \in Int /\ cfg.splittable \in BOOLEAN
  BY <1>1 DEF Configs, Larger
<1>3. /\ Prepare(date, asked).start = cfg.start
      /\ Prepare(date, asked).splittable = cfg.splittable
  BY DEF Prepare
<1>4. DOMAIN Prepare(date, asked).rows
        = {o \in Orders : Exists(o) /\ ord[o].status \in
             {"PENDING", "SCHEDULED", "IN_PRODUCTION"}}
  BY DEF Prepare
<1> HIDE DEF cfg
<1> QED
  BY <1>2, <1>3, <1>4

LEMMA RunPlanTyped ==
  ASSUME TypeOK, NEW q \in Requests, RunPlan(q) PROVE Moved(q)
<1>1. req[q] \in RunReq
  BY RequestOK, ShapeByOp DEF RunPlan
<1>2. PICK in : in = Prepare(req[q].date, req[q].cfg)
  OBVIOUS
<1>3. /\ DOMAIN in.rows \subseteq {o \in Orders : Exists(o)}
      /\ in.start \in Int /\ in.splittable \in BOOLEAN
  BY <1>1, <1>2, PrepareTyped DEF RunReq
<1>4. \/ /\ req' = [req EXCEPT ![q] = [op |-> req[q].op, at |-> "commit",
                                       in |-> in, plan |-> PlanOf(in)]]
         /\ hist' = [hist EXCEPT !.astray = @ \cup CountsCancelled(in)]
      \/ End(q) /\ hist' = hist
  BY <1>2 DEF RunPlan
<1>5. UNCHANGED <<ord, work, desk, clock, scene>>
  BY DEF RunPlan, schedule
<1>6. CASE End(q) /\ hist' = hist
  BY <1>5, <1>6, Ending, HistoryStays, MovedQuietly
<1>7. CASE /\ req' = [req EXCEPT ![q] = [op |-> req[q].op, at |-> "commit",
                                       in |-> in, plan |-> PlanOf(in)]]
           /\ hist' = [hist EXCEPT !.astray = @ \cup CountsCancelled(in)]
  <2>1. CountsCancelled(in) \subseteq Orders
    BY <1>3 DEF CountsCancelled
  <2>2. HistoryOK'
    BY <1>7, <2>1 DEF TypeOK, HistoryOK, HistoryRow
  <2>3. PICK r : r = [op |-> req[q].op, at |-> "commit", in |-> in,
                      plan |-> PlanOf(in)]
    OBVIOUS
  <2>4. Alone(q) /\ req'[q] = r
    BY <1>7, <2>3 DEF TypeOK, RequestsOK, Alone
  <2>5. req[q].op \in {"run", "auto"}
    BY DEF RunPlan
  <2>6. Committing(r)
    BY <1>3, <2>3, <2>5 DEF Committing
  <2>7. Shape(r)
    BY <2>6 DEF Shape
  <2>8. Linked(r)
    BY <1>3, <2>3, <2>5 DEF Linked
  <2>9. Linked(r)'
    BY <1>5, <2>7, <2>8, OrdersStay, IssuesStay, ProposalsStay, LinkedStays DEF desk
  <2> QED
    BY <1>5, <2>2, <2>4, <2>7, <2>9, MovedQuietly
<1> QED
  BY <1>4, <1>6, <1>7

(* The rows of the table after a commit.                                   *)
LEMMA WorkWithoutRows ==
  ASSUME NEW deleted, NEW new, NEW i \in Works
  PROVE  LET row == WorkWithout(deleted, new)[i] IN
         \/ row = work[i]
         \/ row = None
         \/ \E d \in new :
              row = [order |-> d.order, factory |-> d.factory, day |-> d.day,
                     qty |-> d.qty, status |-> "SCHEDULED"]
<1> DEFINE free == {j \in Works : work[j] = None} \cup deleted
           before(a, b) == \/ a.order < b.order
                           \/ a.order = b.order /\ a.day < b.day
                           \/ a.order = b.order /\ a.day = b.day
                              /\ a.factory < b.factory
           nth(d) == Cardinality({e \in new : before(e, d)})
           at == {d \in new : nth(d) = Cardinality({j \in free : j < i})}
           row(d) == [order |-> d.order, factory |-> d.factory, day |-> d.day,
                      qty |-> d.qty, status |-> "SCHEDULED"]
<1>1. WorkWithout(deleted, new)[i]
        = IF i \in free /\ at # {} THEN row(CHOOSE d \in at : TRUE)
          ELSE IF i \in deleted THEN None ELSE work[i]
  BY DEF WorkWithout
<1>2. at # {} => (CHOOSE d \in at : TRUE) \in new
  OBVIOUS
<1> HIDE DEF free, at
<1> QED
  BY <1>1, <1>2

LEMMA RunCommitTyped ==
  ASSUME TypeOK, NEW q \in Requests, RunCommit(q) PROVE Moved(q)
<1> DEFINE in == req[q].in
           plan == req[q].plan
           orders(status) == {o \in DOMAIN in.rows : plan.status[o] = status}
           settled == {o \in orders("SCHEDULED") \cup orders("FAILED") :
                         ord[o].status \notin {"COMPLETED", "CANCELLED"}}
           row == [o \in settled |-> [ord[o] EXCEPT !.status = plan.status[o]]]
           issueless == {o \in orders("FAILED") : OpenIssues(o) = {}}
           snap == [o \in issueless |-> Snapshot(in, ord[o])]
<1>1. Committing(req[q]) /\ \A o \in DOMAIN in.rows : Exists(o)
  BY RequestOK, ShapeByOp DEF RunCommit, Linked
<1>2. DOMAIN in.rows \subseteq Orders /\ in.start \in Int /\ in.splittable \in BOOLEAN
  BY <1>1 DEF Committing
<1>3. \A o \in DOMAIN in.rows : ord[o] \in OrderRow
  BY <1>1, <1>2 DEF TypeOK, TablesOK, Exists
<1>4. OrdersGo
  <2>1. settled \in SUBSET Orders
    BY <1>2
  <2>2. \A o \in settled : /\ Exists(o) /\ row[o] \in OrderRow
                           /\ row[o].rev = ord[o].rev
    BY <1>1, <1>3 DEF OrderRow, OrderStatus
  <2>3. ord' = Rewritten(settled, row)
    BY DEF RunCommit
  <2> HIDE DEF settled, row
  <2> QED
    BY <2>1, <2>2, <2>3, RewrittenGoes
<1>5. IssuesGo
  <2>1. issueless \in SUBSET Orders /\ \A o \in issueless : Exists(o)
    BY <1>1, <1>2
  <2>2. \A o \in issueless : snap[o] \in SnapshotRow \cup {None}
    <3>1. ASSUME NEW o \in issueless PROVE Snapshot(in, ord[o]) \in SnapshotRow
      <4>1. ord[o].due \in Int /\ ord[o].qty \in Nat
        BY <1>3 DEF OrderRow
      <4> QED
        BY <1>2, <4>1, StrategyAssumption DEF Snapshot, SnapshotRow
    <3> QED
      BY <3>1
  <2>3. issue' = IssuesFor(issueless, snap)
    BY DEF RunCommit
  <2> HIDE DEF issueless, snap
  <2> QED
    BY <2>1, <2>2, <2>3, IssuesForGoes
<1>6. WorkGoes
  <2>1. PICK deleted : work' = WorkWithout(deleted, plan.new)
    BY DEF RunCommit
  <2>2. plan.new \subseteq [order : {o \in Orders : Exists(o)},
                            factory : Factories, day : Calendar, qty : Int]
    BY DEF RunCommit
  <2>3. ASSUME NEW i \in Works
        PROVE  /\ work'[i] \in StoredWork \cup {None}
               /\ work'[i] # None => ord[work'[i].order] # None
    <3>1. CASE work'[i] = work[i]
      BY <3>1 DEF TypeOK, TablesOK, KeysOK, Exists
    <3>2. CASE work'[i] = None
      BY <3>2
    <3>3. ASSUME NEW d \in plan.new,
                 work'[i] = [order |-> d.order, factory |-> d.factory,
                             day |-> d.day, qty |-> d.qty,
                             status |-> "SCHEDULED"]
          PROVE  work'[i] \in StoredWork /\ ord[work'[i].order] # None
      <4>1. /\ d.order \in Orders /\ ord[d.order] # None
            /\ d.factory \in Factories /\ d.day \in Calendar /\ d.qty \in Int
        BY <2>2 DEF Exists
      <4>2. work'[i].order = d.order
        BY <3>3
      <4> QED
        BY <3>3, <4>1, <4>2 DEF StoredWork, WorkStatus
    <3> QED
      BY <2>1, <3>1, <3>2, <3>3, WorkWithoutRows
  <2>4. work' = [i \in Works |-> work'[i]]
    BY <2>1 DEF WorkWithout
  <2>5. work' \in [Works -> StoredWork \cup {None}]
    BY <2>3, <2>4
  <2> QED
    BY <2>3, <2>5 DEF WorkGoes
<1>7. HistoryOK'
  <2>1. {o \in issueless : Flagging(o)} \in SUBSET Orders
    BY <1>2
  <2>2. hist' = Crossed(hist, {o \in issueless : Flagging(o)})
    BY DEF RunCommit
  <2> QED
    BY <2>1, <2>2, HistoryCrossed
<1>8. ProposalsGo /\ ClockOK'
  BY ProposalsStay, ClockStays DEF RunCommit
<1>9. Alone(q) /\ Shape(req[q])' /\ Linked(req[q])'
  BY Ending DEF RunCommit
<1> QED
  BY <1>4, <1>5, <1>6, <1>7, <1>8, <1>9 DEF Moved

LEMMA DatesTyped ==
  ASSUME TypeOK, NEW q \in Requests, AutoDate(q) \/ DailyDate(q) PROVE Moved(q)
<1>1. UNCHANGED <<ord, work, desk, clock, scene>> /\ HistoryOK'
  BY HistoryStays DEF AutoDate, DailyDate, schedule
<1>2. CASE End(q)
  BY <1>1, <1>2, Ending, MovedQuietly
<1>3. ASSUME NEW r, r \in RunReq \cup DailyReq, req' = [req EXCEPT ![q] = r]
      PROVE  Moved(q)
  <2>1. Shape(r) /\ Linked(r)'
    BY <1>3 DEF Shape, Requested, Linked, RunReq, DailyReq
  <2>2. Alone(q) /\ req'[q] = r
    BY <1>3 DEF TypeOK, RequestsOK, Alone
  <2> QED
    BY <1>1, <2>1, <2>2, MovedQuietly
<1>4. CASE AutoDate(q)
  <2>1. PICK splittable \in Values("auto") :
          \/ req' = [req EXCEPT ![q] =
               [op |-> "auto", at |-> "plan", date |-> Now,
                cfg |-> [policy |-> "GAP_FILLING", splittable |-> splittable,
                         start |-> Now + 1, end |-> None]]]
          \/ End(q)
    BY <1>4 DEF AutoDate
  <2>2. splittable \in BOOLEAN
    BY ValuesAssumption DEF Values, TypeOK, ClockOK
  <2>3. [op |-> "auto", at |-> "plan", date |-> Now,
         cfg |-> [policy |-> "GAP_FILLING", splittable |-> splittable,
                  start |-> Now + 1, end |-> None]] \in RunReq
    BY <2>2, NowTyped DEF RunReq, Configs, Policies
  <2> QED
    BY <1>2, <1>3, <2>1, <2>3
<1>5. CASE DailyDate(q)
  <2>1. [op |-> "daily", at |-> "advance", date |-> Now, patch |-> None]
          \in DailyReq
    BY NowTyped DEF DailyReq
  <2> QED
    BY <1>3, <1>5, <2>1 DEF DailyDate
<1> QED
  BY <1>4, <1>5

LEMMA MergedTyped ==
  ASSUME TypeOK, NEW patch \in Switches \cup {None}, sim' = Merged(patch),
         UNCHANGED <<today, scene>>
  PROVE  ClockOK'
  BY StrategyAssumption DEF TypeOK, ClockOK, Merged, Switches

LEMMA PatchPlainTyped ==
  ASSUME TypeOK, NEW q \in Requests, PatchPlain(q) PROVE Moved(q)
<1>1. req[q].patch \in Switches
  BY RequestOK, ShapeByOp DEF PatchPlain, Doing, PlainReq
<1>2. ClockOK'
  BY <1>1, MergedTyped DEF PatchPlain
<1>3. HistoryOK'
  BY DEF PatchPlain, TypeOK, HistoryOK, HistoryRow
<1>4. OrdersGo /\ WorkGoes /\ IssuesGo /\ ProposalsGo
  BY OrdersStay, WorkStays, IssuesStay, ProposalsStay DEF PatchPlain, schedule, desk
<1>5. Alone(q) /\ Shape(req[q])' /\ Linked(req[q])'
  BY Ending DEF PatchPlain
<1> QED
  BY <1>2, <1>3, <1>4, <1>5 DEF Moved

LEMMA TouchedOrders ==
  ASSUME TypeOK, NEW I \in SUBSET Works, \A i \in I : work[i] # None
  PROVE  \A o \in Touched(I) : o \in Orders /\ Exists(o)
<1> SUFFICES ASSUME NEW i \in I PROVE work[i].order \in Orders /\ Exists(work[i].order)
  BY DEF Touched
<1>1. work[i] \in StoredWork
  BY DEF TypeOK, TablesOK
<1> QED
  BY <1>1 DEF StoredWork, TypeOK, KeysOK

(* The daily job and the revert change the status of work and nothing else.*)
LEMMA WorkStatusGoes ==
  ASSUME TypeOK, NEW w, w = [i \in Works |-> w[i]],
         \A i \in Works :
           \/ w[i] = work[i]
           \/ work[i] # None /\ \E status \in WorkStatus :
                w[i] = [work[i] EXCEPT !.status = status],
         work' = w
  PROVE  WorkGoes
<1>1. \A i \in Works : work[i] # None => work[i] \in StoredWork
  BY DEF TypeOK, TablesOK
<1>2. \A i \in Works, status \in WorkStatus : work[i] # None =>
        /\ [work[i] EXCEPT !.status = status] \in StoredWork
        /\ [work[i] EXCEPT !.status = status].order = work[i].order
  BY <1>1 DEF StoredWork
<1>3. \A i \in Works : /\ w[i] \in StoredWork \cup {None}
                       /\ w[i] # None => ord[w[i].order] # None
  <2> SUFFICES ASSUME NEW i \in Works
               PROVE  /\ w[i] \in StoredWork \cup {None}
                      /\ w[i] # None => ord[w[i].order] # None
    OBVIOUS
  <2>1. CASE w[i] = work[i]
    BY <2>1 DEF TypeOK, TablesOK, KeysOK, Exists
  <2>2. CASE work[i] # None /\ \E status \in WorkStatus :
               w[i] = [work[i] EXCEPT !.status = status]
    BY <1>2, <2>2 DEF TypeOK, KeysOK, Exists
  <2> QED
    BY <2>1, <2>2
<1>4. w \in [Works -> StoredWork \cup {None}]
  BY <1>3
<1> QED
  BY <1>3, <1>4 DEF WorkGoes

LEMMA AdvanceTyped ==
  ASSUME TypeOK, NEW q \in Requests, Advance(q) PROVE Moved(q)
<1> DEFINE date == req[q].date
           moved == Completing(date) \cup Starting(date)
           done == {o \in Touched(moved) : /\ AllDone(Advanced(date), o)
                                           /\ ord[o].status # "COMPLETED"}
           begun == {o \in Touched(moved) \ done :
                       /\ AnyStarted(Advanced(date), o)
                       /\ ord[o].status = "SCHEDULED"}
           row == [o \in done \cup begun |->
                     [ord[o] EXCEPT !.status =
                        IF o \in done THEN "COMPLETED" ELSE "IN_PRODUCTION"]]
<1>1. req[q].patch \in Switches \cup {None}
  <2>1. CASE req[q].op = "daily"
    BY <2>1, RequestOK, ShapeByOp DEF Advance, DailyReq
  <2>2. CASE req[q].op = "patch"
    BY <2>2, RequestOK, ShapeByOp DEF Advance, SwitchReq
  <2> QED
    BY <2>1, <2>2 DEF Advance
<1>2. IssuesGo /\ ProposalsGo
  BY IssuesStay, ProposalsStay DEF Advance, desk
<1>3. Alone(q) /\ Shape(req[q])' /\ Linked(req[q])'
  BY Ending DEF Advance
<1>4. UNCHANGED <<today, scene>>
  BY DEF Advance
<1>5. CASE UNCHANGED <<ord, work, sim, hist>>
  BY <1>2, <1>3, <1>4, <1>5, OrdersStay, WorkStays, ClockStays, HistoryStays
     DEF Moved, clock
<1>6. CASE ~UNCHANGED <<ord, work, sim, hist>>
  <2>1. /\ sim' = Merged(req[q].patch)
        /\ work' = Advanced(date)
        /\ ord' = Rewritten(done \cup begun, row)
        /\ hist' = [hist EXCEPT
             !.astray = @ \cup {o \in done : ord[o].status \notin
                                  {"SCHEDULED", "IN_PRODUCTION"}},
             !.skewed = @ \/ (~sim'.on /\ (sim.on \/ date > today))]
    BY <1>6 DEF Advance
  <2>2. ClockOK'
    BY <1>1, <1>4, <2>1, MergedTyped
  <2>3. moved \in SUBSET Works /\ \A i \in moved : work[i] # None
    BY DEF Completing, Starting
  <2>4. WorkGoes
    <3>1. \A i \in Works :
            \/ Advanced(date)[i] = work[i]
            \/ work[i] # None /\ \E status \in WorkStatus :
                 Advanced(date)[i] = [work[i] EXCEPT !.status = status]
      BY DEF Advanced, Completing, Starting, WorkStatus
    <3>2. Advanced(date) = [i \in Works |-> Advanced(date)[i]]
      BY DEF Advanced
    <3> QED
      BY <2>1, <3>1, <3>2, WorkStatusGoes
  <2> HIDE DEF moved
  <2>5. \A o \in done \cup begun : o \in Orders /\ Exists(o)
    BY <2>3, TouchedOrders
  <2>6. OrdersGo
    <3>1. done \cup begun \in SUBSET Orders
      BY <2>5
    <3>2. \A o \in done \cup begun : ord[o] \in OrderRow
      BY <2>5 DEF TypeOK, TablesOK, Exists
    <3>3. \A o \in done \cup begun : /\ Exists(o) /\ row[o] \in OrderRow
                                     /\ row[o].rev = ord[o].rev
      BY <2>5, <3>2 DEF OrderRow, OrderStatus
    <3> HIDE DEF row, done, begun
    <3> QED
      BY <2>1, <3>1, <3>3, RewrittenGoes
  <2>7. HistoryOK'
    BY <2>1, <2>5 DEF TypeOK, HistoryOK, HistoryRow
  <2> QED
    BY <1>2, <1>3, <2>2, <2>4, <2>6, <2>7 DEF Moved
<1> QED
  BY <1>5, <1>6

LEMMA PatchRevertTyped ==
  ASSUME TypeOK, NEW q \in Requests, PatchRevert(q) PROVE Moved(q)
<1> DEFINE date == req[q].date
           back == Reverted(date)
           touched == Touched({i \in Works : back[i] # work[i]})
           target(o) == IF AllDone(back, o) THEN "COMPLETED"
                        ELSE IF AnyStarted(back, o) THEN "IN_PRODUCTION"
                        ELSE "SCHEDULED"
           changed == {o \in touched : ord[o].status # target(o)}
           odd == {o \in touched : ord[o].status \notin
                     {"SCHEDULED", "IN_PRODUCTION", "COMPLETED"}}
           row == [o \in changed |-> [ord[o] EXCEPT !.status = target(o)]]
<1>1. req[q].patch \in Switches
  BY RequestOK, ShapeByOp DEF PatchRevert, Doing, SwitchReq
<1>2. ClockOK'
  BY <1>1, MergedTyped DEF PatchRevert
<1>3. \A i \in Works :
        \/ back[i] = work[i]
        \/ work[i] # None /\ \E status \in WorkStatus :
             back[i] = [work[i] EXCEPT !.status = status]
  BY DEF Reverted, WorkStatus
<1>4. back = [i \in Works |-> back[i]]
  BY DEF Reverted
<1>5. work' = back /\ ord' = Rewritten(changed, row)
      /\ hist' = Astray([hist EXCEPT !.astray = @ \cup odd], touched)
  BY DEF PatchRevert
<1>6. IssuesGo /\ ProposalsGo
  BY IssuesStay, ProposalsStay DEF PatchRevert, desk
<1>7. Alone(q) /\ Shape(req[q])' /\ Linked(req[q])'
  BY Ending DEF PatchRevert
<1> HIDE DEF back
<1>8. WorkGoes
  BY <1>3, <1>4, <1>5, WorkStatusGoes
<1>9. \A o \in touched : o \in Orders /\ Exists(o)
  BY <1>3, TouchedOrders
<1>10. \A o \in touched : target(o) \in OrderStatus
  BY DEF OrderStatus
<1> HIDE DEF touched, target
<1>11. OrdersGo
  <2>1. changed \in SUBSET Orders
    BY <1>9
  <2>2. \A o \in changed : ord[o] \in OrderRow
    BY <1>9 DEF TypeOK, TablesOK, Exists
  <2>3. \A o \in changed : /\ Exists(o) /\ row[o] \in OrderRow
                           /\ row[o].rev = ord[o].rev
    BY <1>9, <1>10, <2>2 DEF OrderRow
  <2> HIDE DEF row, changed
  <2> QED
    BY <1>5, <2>1, <2>3, RewrittenGoes
<1>12. HistoryOK'
  <2>1. [hist EXCEPT !.astray = @ \cup odd] \in HistoryRow
    BY <1>9 DEF TypeOK, HistoryOK, HistoryRow
  <2>2. touched \subseteq Orders
    BY <1>9
  <2> QED
    BY <1>5, <2>1, <2>2 DEF Astray, HistoryOK, HistoryRow
<1> QED
  BY <1>2, <1>6, <1>7, <1>8, <1>11, <1>12 DEF Moved

LEMMA DieTyped ==
  ASSUME TypeOK, NEW q \in Requests, Die(q) PROVE Moved(q)
<1>1. HistoryOK'
  BY DEF Die, TypeOK, HistoryOK, HistoryRow
<1>2. UNCHANGED <<ord, work, desk, clock, scene>>
  BY DEF Die, schedule
<1> QED
  BY <1>1, <1>2, Ending, MovedQuietly DEF Die

-------------------------------------------------------------------------------
(* The page names issues that are in the table, and proposals.             *)
ViewOK(v) == v.issue \in Issues /\ v.pending \subseteq Proposals
             /\ v.rev \in Nat
FetchOK(f) ==
  /\ f = [issue |-> f.issue, view |-> f.view]
  /\ f.issue \in Issues /\ issue[f.issue] # None
  /\ f.view # None => ViewOK(f.view)
CallOK(r) ==
  /\ r.q \in Requests /\ r.issue \in Issues
  /\ r.then \in Issues /\ issue[r.then] # None
PageFits(p) ==
  /\ DOMAIN p = {"sel", "shown", "fetches", "calls", "choice", "mine",
                 "acts", "own", "clicked", "mixed"}
  /\ p.sel \in Issues
  /\ Has("page") => issue[p.sel] # None
  /\ p.shown # None => ViewOK(p.shown)
  /\ \A f \in p.fetches : FetchOK(f)
  /\ p.choice \in {None, "close", "reopen"}
  /\ \A r \in p.calls : CallOK(r)
PageOK == PageFits(page)

LEMMA ViewTyped ==
  ASSUME TypeOK, NEW i \in Issues, issue[i] # None, NEW p
  PROVE  ViewOK(View(p, i))
<1>1. issue[i] \in IssueRow /\ Exists(issue[i].order)
  BY DEF TypeOK, TablesOK, KeysOK
<1>2. ord[issue[i].order] \in OrderRow
  BY <1>1 DEF TypeOK, TablesOK, Exists, IssueRow
<1> QED
  BY <1>2 DEF ViewOK, View, OrderRow

LEMMA InitPage == PageInit => TypeOK /\ PageOK
<1> SUFFICES ASSUME PageInit PROVE TypeOK /\ PageOK
  OBVIOUS
<1>1. TypeOK
  BY InitTyped DEF PageInit
<1>2. 1 \in Issues
  BY StoreAssumption DEF Issues
<1>3. Has("page") => issue[1] # None
  BY PageAssumption DEF PageInit, Init, Has
<1> DEFINE opened == [sel |-> 1, shown |-> None, fetches |-> {}, calls |-> {},
                      choice |-> None, mine |-> {}, acts |-> 0,
                      own |-> [i \in Issues |-> 0], clicked |-> {},
                      mixed |-> FALSE]
<1>4. page = IF Has("page") THEN [opened EXCEPT !.shown = View(opened, 1)]
             ELSE opened
  BY DEF PageInit
<1>5. Has("page") => ViewOK(View(opened, 1))
  BY <1>1, <1>2, <1>3, ViewTyped
<1>6. PageOK
  <2>1. PICK v : v = View(opened, 1)
    OBVIOUS
  <2>2. CASE Has("page")
    <3>1. page = [opened EXCEPT !.shown = v]
      BY <1>4, <2>1, <2>2
    <3>2. ViewOK(v)
      BY <1>5, <2>1, <2>2
    <3> QED
      BY <1>2, <1>3, <3>1, <3>2 DEF PageOK, PageFits
  <2>3. CASE ~Has("page")
    BY <1>2, <1>4, <2>3 DEF PageOK, PageFits
  <2> QED
    BY <2>2, <2>3
<1> QED
  BY <1>1, <1>6

(* The requests that come from a page, this one or another.                *)
PageRead(q) ==
  \/ \E i \in Issues, op \in {"close", "reopen", "cancel"} : StatusRead(q, i, op)
  \/ \E c \in Proposals : AcceptRead(q, c) \/ RejectRead(q, c)
  \/ \E i \in Issues, v \in Values("proposals"), n \in Nat :
       CommentRead(q, i, v.kind, v.value, n)
Act(q) ==
  \/ PageRead(q) \/ \E o \in Orders : FlagRead(q, o)
  \/ OrderBegin(q) \/ ProductionBegin(q) \/ Step(q) \/ Die(q)

LEMMA IssueBeginReads ==
  ASSUME TypeOK, NEW q \in Requests, IssueBegin(q) PROVE Act(q)
<1>1. ASSUME NEW i \in Issues, issue[i] # None
      PROVE  ord[issue[i].order].rev \in Nat
  <2>1. issue[i] \in IssueRow /\ Exists(issue[i].order)
    BY <1>1 DEF TypeOK, TablesOK, KeysOK
  <2> QED
    BY <2>1 DEF TypeOK, TablesOK, Exists, IssueRow, OrderRow
<1>2. ASSUME NEW i \in Issues, NEW v \in Values("proposals"), issue[i] # None,
             CommentRead(q, i, v.kind, v.value, ord[issue[i].order].rev)
      PROVE  PageRead(q)
  BY <1>1, <1>2 DEF PageRead
<1> QED
  BY <1>2 DEF IssueBegin, Act, PageRead

LEMMA PageStepReads ==
  ASSUME TypeOK, PageOK, PageStep
  PROVE  UNCHANGED vars \/ \E q \in Requests : PageRead(q)
<1>1. ASSUME NEW i \in Issues, Select(i) PROVE UNCHANGED vars
  BY <1>1 DEF Select
<1>2. ASSUME NEW f \in page.fetches, FetchRead(f) \/ FetchAnswer(f) \/ FetchFails(f)
      PROVE  UNCHANGED vars
  BY <1>2 DEF FetchRead, FetchAnswer, FetchFails
<1>3. page.shown # None =>
        /\ page.shown.issue \in Issues /\ page.shown.rev \in Nat
  BY DEF PageOK, PageFits, ViewOK
<1>4. ASSUME NEW op \in {"close", "reopen"}, Click(op)
      PROVE  UNCHANGED vars \/ \E q \in Requests : PageRead(q)
  <2>1. page.shown # None
    BY <1>4 DEF Click, Usable
  <2>2. CASE UNCHANGED vars
    BY <2>2
  <2>3. CASE page.choice # None /\ \E q \in Requests :
                StatusRead(q, page.shown.issue, page.choice)
    <3>1. page.choice \in {"close", "reopen"}
      BY <2>3 DEF PageOK, PageFits
    <3> QED
      BY <1>3, <2>1, <2>3, <3>1 DEF PageRead
  <2> QED
    BY <1>4, <2>2, <2>3 DEF Click
<1>5. ASSUME ClickCancel PROVE \E q \in Requests : PageRead(q)
  BY <1>3, <1>5 DEF ClickCancel, Usable, PageRead
<1>6. ASSUME NEW c \in Proposals, ClickJudge(c) PROVE \E q \in Requests : PageRead(q)
  BY <1>6 DEF ClickJudge, PageRead
<1>7. ASSUME NEW v \in Values("proposals"), Reply(v.kind, v.value)
      PROVE  \E q \in Requests : PageRead(q)
  <2>1. page.shown # None
    BY <1>7 DEF Reply, Usable
  <2> QED
    BY <1>3, <1>7, <2>1 DEF Reply, PageRead
<1> QED
  BY <1>1, <1>2, <1>4, <1>5, <1>6, <1>7 DEF PageStep

LEMMA WhoActs ==
  ASSUME TypeOK, PageOK, [(Next /\ Heard) \/ PageStep]_pvars
  PROVE  \/ UNCHANGED vars \/ NewDay \/ Lapse
         \/ \E q \in Requests : Act(q)
<1>1. CASE UNCHANGED pvars
  BY <1>1 DEF pvars
<1>2. CASE PageStep
  BY <1>2, PageStepReads DEF Act
<1>3. CASE Next
  BY <1>3, IssueBeginReads DEF Next, Act
<1> QED
  BY <1>1, <1>2, <1>3

LEMMA ActTyped ==
  ASSUME TypeOK, NEW q \in Requests, Act(q) PROVE Moved(q)
<1>1. CASE PageRead(q)
  <2>1. ASSUME NEW i \in Issues, NEW v \in Values("proposals"), NEW n \in Nat,
               CommentRead(q, i, v.kind, v.value, n)
        PROVE  Moved(q)
    <3>1. v \in [kind : ProposalKinds, value : Nat]
      BY ValuesAssumption DEF Values, TypeOK, ClockOK
    <3> QED
      BY <2>1, <3>1, CommentReadTyped
  <2> QED
    BY <1>1, <2>1, StatusReadTyped, AcceptReadTyped, RejectReadTyped DEF PageRead
<1>2. CASE \E o \in Orders : FlagRead(q, o)
  BY <1>2, FlagReadTyped
<1>3. CASE OrderBegin(q)
  BY <1>3, CreateOrderTyped, EditReadTyped, DeleteReadTyped DEF OrderBegin
<1>4. CASE ProductionBegin(q)
  BY <1>4, RunBeginTyped, CronBeginTyped, PatchReadTyped DEF ProductionBegin
<1>5. CASE IssueStep(q)
  BY <1>5, CommentCreateTyped, CommentDiscussTyped, JudgingTyped, AcceptOrderTyped,
     AcceptOthersReadTyped, AcceptResolveTyped, CancelFromIssueTyped,
     StatusWriteTyped, FlagLookTyped, FlagCreateTyped DEF IssueStep
<1>6. CASE OrderStep(q)
  BY <1>6, UpdateOrderTyped, CancelOrderTyped DEF OrderStep
<1>7. CASE ProductionStep(q)
  BY <1>7, RunPlanTyped, RunCommitTyped, DatesTyped, PatchPlainTyped, AdvanceTyped,
     PatchRevertTyped DEF ProductionStep
<1>8. CASE Die(q)
  BY <1>8, DieTyped
<1> QED
  BY <1>1, <1>2, <1>3, <1>4, <1>5, <1>6, <1>7, <1>8 DEF Act, Step

LEMMA TypeStep ==
  ASSUME TypeOK, PageOK, [(Next /\ Heard) \/ PageStep]_pvars
  PROVE  TypeOK'
<1>1. CASE UNCHANGED vars
  BY <1>1 DEF vars, schedule, desk, clock, TypeOK, TablesOK, KeysOK, ClockOK,
              HistoryOK, RequestsOK, Linked, Exists
<1>2. CASE NewDay
  BY <1>2 DEF NewDay, schedule, desk, TypeOK, TablesOK, KeysOK, ClockOK,
              HistoryOK, RequestsOK, Linked, Exists
<1>3. CASE Lapse
  BY <1>3 DEF Lapse, schedule, desk, clock, TypeOK, TablesOK, KeysOK, ClockOK,
              HistoryOK, RequestsOK, Linked, Exists
<1>4. ASSUME NEW q \in Requests, Act(q) PROVE TypeOK'
  BY <1>4, ActTyped, MovedTyped
<1> QED
  BY <1>1, <1>2, <1>3, <1>4, WhoActs

LEMMA IssuesPersist ==
  ASSUME TypeOK, PageOK, [(Next /\ Heard) \/ PageStep]_pvars
  PROVE  /\ scene' = scene
         /\ \A i \in Issues : issue[i] # None => issue'[i] # None
<1>1. ASSUME NEW q \in Requests, Act(q)
      PROVE  \A i \in Issues : issue[i] # None => issue'[i] # None
  BY <1>1, ActTyped DEF Moved, IssuesGo
<1>2. UNCHANGED vars \/ NewDay \/ Lapse => UNCHANGED <<issue, scene>>
  BY DEF vars, desk, NewDay, Lapse
<1>3. ASSUME NEW q \in Requests, Act(q) PROVE scene' = scene
  <2>1. PageRead(q) \/ (\E o \in Orders : FlagRead(q, o)) => scene' = scene
    BY DEF PageRead, StatusRead, AcceptRead, RejectRead, CommentRead, FlagRead
  <2>2. OrderBegin(q) \/ ProductionBegin(q) \/ Die(q) => scene' = scene
    BY DEF OrderBegin, CreateOrder, SalesRead, AdminRead, DeleteRead,
           ProductionBegin, RunBegin, AutoBegin, DailyBegin, PatchRead, Die
  <2>3. IssueStep(q) => scene' = scene
    BY DEF IssueStep, CommentCreate, CommentDiscuss, AcceptStale, AcceptOrder,
           AcceptMark, AcceptOthersRead, AcceptOthersWrite, AcceptResolve,
           RejectWrite, CancelFromIssue, StatusWrite, FlagLook, FlagCreate
  <2>4. OrderStep(q) \/ ProductionStep(q) => scene' = scene
    BY DEF OrderStep, UpdateOrder, CancelOrder, ProductionStep, RunPlan, RunCommit,
           AutoDate, DailyDate, PatchPlain, Advance, PatchRevert
  <2> QED
    BY <1>3, <2>1, <2>2, <2>3, <2>4 DEF Act, Step
<1> QED
  BY <1>1, <1>2, <1>3, WhoActs

-------------------------------------------------------------------------------
(* What the page does to itself.                                           *)
Settling(p) ==
  /\ p.choice # None => p.choice \in p.clicked
  /\ p.mixed = FALSE =>
       /\ p.fetches = {} /\ p.shown # None =>
            p.shown.issue = p.sel /\ p.shown.own = p.own[p.sel]
       /\ \A f \in p.fetches :
            /\ p.fetches = {f} /\ f.issue = p.sel
            /\ f.view # None => /\ f.view.issue = p.sel
                                /\ f.view.own = p.own[p.sel]
Fine(p) == PageFits(p) /\ Settling(p)

LEMMA ActedFine == ASSUME NEW p, Fine(p) PROVE Fine(Acted(p))
  BY DEF Fine, PageFits, Settling, Acted

LEMMA FetchingFine ==
  ASSUME NEW p, PageFits(p), p.choice # None => p.choice \in p.clicked,
         NEW i \in Issues, issue[i] # None
  PROVE  Fine(Fetching(p, i))
<1> DEFINE f == [issue |-> i, view |-> None]
           n == Fetching(p, i)
<1>1. FetchOK(f)
  BY DEF FetchOK
<1>2. /\ DOMAIN n = DOMAIN p /\ n.sel = p.sel /\ n.shown = p.shown
      /\ n.calls = p.calls /\ n.choice = p.choice /\ n.clicked = p.clicked
      /\ n.own = p.own /\ n.fetches = p.fetches \cup {f}
  BY DEF Fetching, PageFits
<1>3. n.mixed = (p.fetches # {} \/ i # p.sel)
  BY DEF Fetching, PageFits
<1>4. f.issue = i /\ f.view = None
  OBVIOUS
<1> HIDE DEF n, f
<1>5. PageFits(n)
  BY <1>1, <1>2 DEF PageFits
<1>6. n.mixed = FALSE => p.fetches = {} /\ i = p.sel
  BY <1>3
<1>7. Settling(n)
  BY <1>2, <1>4, <1>6 DEF Settling
<1> QED
  BY <1>5, <1>7 DEF Fine, n

(* What is neither shown nor fetched.                                      *)
LEMMA AsideFine ==
  ASSUME NEW p, Fine(p), NEW n, DOMAIN n = DOMAIN p,
         n.sel = p.sel, n.shown = p.shown, n.fetches = p.fetches,
         n.own = p.own, n.mixed = p.mixed,
         n.choice \in {None, "close", "reopen"},
         n.choice # None => n.choice \in n.clicked,
         \A r \in n.calls : CallOK(r)
  PROVE  Fine(n)
  BY DEF Fine, PageFits, Settling

LEMMA SelectFine ==
  ASSUME Fine(page), NEW i \in Issues, Select(i) PROVE Fine(page')
<1> DEFINE p == [page EXCEPT !.sel = i]
<1>1. issue[i] # None /\ page' = Acted(Fetching(p, i))
  BY DEF Select
<1>2. PageFits(p) /\ (p.choice # None => p.choice \in p.clicked)
  BY <1>1 DEF Fine, PageFits, Settling
<1> HIDE DEF p
<1> QED
  BY <1>1, <1>2, FetchingFine, ActedFine

LEMMA FetchReadFine ==
  ASSUME TypeOK, Fine(page), NEW f \in page.fetches, FetchRead(f)
  PROVE  Fine(page')
<1>1. FetchOK(f)
  BY DEF Fine, PageFits
<1>2. PICK v : v = View(page, f.issue)
  OBVIOUS
<1>3. ViewOK(v) /\ v.issue = f.issue /\ v.own = page.own[f.issue]
  BY <1>1, <1>2, ViewTyped DEF FetchOK, View
<1>4. PICK g : g = [f EXCEPT !.view = v]
  OBVIOUS
<1>5. g.issue = f.issue /\ g.view = v /\ FetchOK(g)
  BY <1>1, <1>3, <1>4 DEF FetchOK
<1>6. page' = [page EXCEPT !.fetches = (@ \ {f}) \cup {g}]
  BY <1>2, <1>4 DEF FetchRead
<1>7. /\ DOMAIN page' = DOMAIN page /\ page'.sel = page.sel
      /\ page'.shown = page.shown /\ page'.calls = page.calls
      /\ page'.choice = page.choice /\ page'.clicked = page.clicked
      /\ page'.own = page.own /\ page'.mixed = page.mixed
      /\ page'.fetches = (page.fetches \ {f}) \cup {g}
  BY <1>6 DEF Fine, PageFits
<1>8. PageFits(page')
  BY <1>5, <1>7 DEF Fine, PageFits
<1>9. Settling(page')
  <2>1. page'.choice # None => page'.choice \in page'.clicked
    BY <1>7 DEF Fine, Settling
  <2>2. ASSUME page.mixed = FALSE
        PROVE  page'.fetches = {g} /\ g.issue = page.sel
    BY <1>5, <1>7, <2>2 DEF Fine, Settling
  <2> QED
    BY <1>3, <1>5, <1>7, <2>1, <2>2 DEF Settling
<1> QED
  BY <1>8, <1>9 DEF Fine

LEMMA FetchAnswerFine ==
  ASSUME Fine(page), NEW f \in page.fetches, FetchAnswer(f) PROVE Fine(page')
<1>1. f.view # None /\ FetchOK(f)
  BY DEF FetchAnswer, Fine, PageFits
<1>2. /\ DOMAIN page' = DOMAIN page /\ page'.sel = page.sel
      /\ page'.shown = f.view /\ page'.calls = page.calls
      /\ page'.choice = page.choice /\ page'.clicked = page.clicked
      /\ page'.own = page.own /\ page'.mixed = page.mixed
      /\ page'.fetches = page.fetches \ {f}
  BY DEF FetchAnswer, Fine, PageFits
<1>3. PageFits(page')
  BY <1>1, <1>2 DEF Fine, PageFits, FetchOK
<1>4. Settling(page')
  BY <1>1, <1>2 DEF Fine, Settling
<1> QED
  BY <1>3, <1>4 DEF Fine

LEMMA FetchFailsFine ==
  ASSUME Fine(page), NEW f \in page.fetches, FetchFails(f) PROVE Fine(page')
<1>1. PICK p : p = [page EXCEPT !.fetches = @ \ {f}, !.shown = None,
                                !.choice = None, !.clicked = {}]
  OBVIOUS
<1>2. page' = Acted(p)
  BY <1>1 DEF FetchFails
<1>3. /\ DOMAIN p = DOMAIN page /\ p.sel = page.sel /\ p.shown = None
      /\ p.calls = page.calls /\ p.choice = None /\ p.own = page.own
      /\ p.mixed = page.mixed /\ p.fetches = page.fetches \ {f}
  BY <1>1 DEF Fine, PageFits
<1>4. PageFits(p)
  BY <1>3 DEF Fine, PageFits
<1>5. Settling(p)
  BY <1>3 DEF Fine, Settling
<1> QED
  BY <1>2, <1>4, <1>5, ActedFine DEF Fine

LEMMA SentFine ==
  ASSUME NEW p, Fine(p), NEW q \in Requests, NEW part, NEW card,
         Has("page"), p.shown # None
  PROVE  Fine(Sent(p, q, part, card))
<1> DEFINE r == [q |-> q, part |-> part, card |-> card, issue |-> p.shown.issue,
                 then |-> p.sel]
           n == [p EXCEPT !.calls = @ \cup {r}]
<1>1. CallOK(r)
  BY DEF CallOK, Fine, PageFits, ViewOK
<1>2. /\ DOMAIN n = DOMAIN p /\ n.sel = p.sel /\ n.shown = p.shown
      /\ n.fetches = p.fetches /\ n.own = p.own /\ n.mixed = p.mixed
      /\ n.choice = p.choice /\ n.clicked = p.clicked
      /\ n.calls = p.calls \cup {r}
  BY DEF Fine, PageFits
<1>3. Sent(p, q, part, card) = Acted(n)
  BY DEF Sent
<1> HIDE DEF n, r
<1>4. Fine(n)
  BY <1>1, <1>2, AsideFine DEF Fine, PageFits, Settling
<1> QED
  BY <1>3, <1>4, ActedFine

LEMMA ClickFine ==
  ASSUME Fine(page), NEW op \in {"close", "reopen"}, Click(op) PROVE Fine(page')
<1>1. PICK p : p = [page EXCEPT !.choice = op, !.clicked = @ \cup {op}]
  OBVIOUS
<1>2. /\ DOMAIN p = DOMAIN page /\ p.sel = page.sel /\ p.shown = page.shown
      /\ p.fetches = page.fetches /\ p.own = page.own /\ p.mixed = page.mixed
      /\ p.choice = op /\ op \in p.clicked /\ p.calls = page.calls
  BY <1>1 DEF Fine, PageFits
<1>3. Fine(p)
  BY <1>2, AsideFine DEF Fine, PageFits
<1>4. Has("page") /\ p.shown # None
  BY <1>2 DEF Click, Usable, Acting
<1>5. \/ page' = Acted(p)
      \/ \E q \in Requests : page' = Sent(p, q, "status", None)
  BY <1>1 DEF Click
<1> QED
  BY <1>3, <1>4, <1>5, ActedFine, SentFine

LEMMA PageStepFine ==
  ASSUME TypeOK, Fine(page), PageStep PROVE Fine(page')
<1>1. ASSUME ClickCancel PROVE Fine(page')
  BY <1>1, SentFine DEF ClickCancel, Usable, Acting
<1>2. ASSUME NEW c \in Proposals, ClickJudge(c) PROVE Fine(page')
  BY <1>2, SentFine DEF ClickJudge, Usable, Acting
<1>3. ASSUME NEW v, Reply(v.kind, v.value) PROVE Fine(page')
  BY <1>3, SentFine DEF Reply, Usable, Acting
<1> QED
  BY <1>1, <1>2, <1>3, SelectFine, FetchReadFine, FetchAnswerFine, FetchFailsFine,
     ClickFine DEF PageStep

LEMMA HeardFine ==
  ASSUME Fine(page), Heard PROVE Fine(page')
<1> DEFINE ended == {r \in page.calls : req'[r.q] = Idle}
<1>1. PICK S : page' \in {[page EXCEPT !.calls = @ \ ended, !.mine = @ \cup S]}
               \/ /\ ended # {}
                  /\ page' = Succeeded(
                       [page EXCEPT !.calls = @ \ ended, !.mine = @ \cup S],
                       CHOOSE r \in ended : TRUE)
  BY DEF Heard
<1>2. PICK p : p = [page EXCEPT !.calls = @ \ ended, !.mine = @ \cup S]
  OBVIOUS
<1>3. /\ DOMAIN p = DOMAIN page /\ p.sel = page.sel /\ p.shown = page.shown
      /\ p.fetches = page.fetches /\ p.own = page.own /\ p.mixed = page.mixed
      /\ p.choice = page.choice /\ p.clicked = page.clicked
      /\ p.calls = page.calls \ ended
  BY <1>2 DEF Fine, PageFits
<1>4. Fine(p)
  BY <1>3, AsideFine DEF Fine, PageFits, Settling
<1>5. CASE page' = p
  BY <1>4, <1>5
<1>6. ASSUME NEW r \in page.calls, page' = Succeeded(p, r) PROVE Fine(page')
  <2>1. CallOK(r)
    BY DEF Fine, PageFits
  <2>2. PICK n : n = Done(p, r)
    OBVIOUS
  <2>3. /\ DOMAIN n = DOMAIN p /\ n.sel = p.sel /\ n.shown = p.shown
        /\ n.fetches = p.fetches /\ n.calls = p.calls
        /\ n.choice = IF r.part = "status" THEN None ELSE p.choice
        /\ n.clicked = IF r.part = "status" THEN {} ELSE p.clicked
    BY <1>4, <2>2 DEF Done, Fine, PageFits
  <2>4. PageFits(n) /\ (n.choice # None => n.choice \in n.clicked)
    BY <1>4, <2>3 DEF Fine, PageFits, Settling
  <2> QED
    BY <1>6, <2>1, <2>2, <2>4, FetchingFine DEF Succeeded, CallOK
<1>7. ended # {} => (CHOOSE r \in ended : TRUE) \in page.calls
  OBVIOUS
<1> QED
  BY <1>1, <1>2, <1>5, <1>6, <1>7

(* The issues of a page stay where they are.                               *)
LEMMA FineStays ==
  ASSUME NEW p, Fine(p), scene' = scene,
         \A i \in Issues : issue[i] # None => issue'[i] # None
  PROVE  Fine(p)'
  BY DEF Fine, PageFits, Settling, FetchOK, CallOK, Has, ViewOK

LEMMA PageFineStep ==
  ASSUME TypeOK, Fine(page), [(Next /\ Heard) \/ PageStep]_pvars
  PROVE  Fine(page)'
<1>1. PICK p : p = page'
  OBVIOUS
<1>2. Fine(p)
  BY <1>1, HeardFine, PageStepFine DEF pvars
<1>3. PageOK
  BY DEF Fine, PageOK
<1>4. Fine(p)'
  BY <1>2, <1>3, FineStays, IssuesPersist
<1> QED
  BY <1>1, <1>4 DEF Fine, PageFits, Settling

LEMMA InitFine == PageInit => TypeOK /\ Fine(page)
<1> SUFFICES ASSUME PageInit PROVE TypeOK /\ Fine(page)
  OBVIOUS
<1> DEFINE opened == [sel |-> 1, shown |-> None, fetches |-> {}, calls |-> {},
                      choice |-> None, mine |-> {}, acts |-> 0,
                      own |-> [i \in Issues |-> 0], clicked |-> {},
                      mixed |-> FALSE]
<1>1. page = IF Has("page") THEN [opened EXCEPT !.shown = View(opened, 1)]
             ELSE opened
  BY DEF PageInit
<1>2. PICK v : v = View(opened, 1)
  OBVIOUS
<1>3. v.issue = 1 /\ v.own = opened.own[1]
  BY <1>2 DEF View
<1>4. CASE Has("page")
  <2>1. page = [opened EXCEPT !.shown = v]
    BY <1>1, <1>2, <1>4
  <2>2. Settling(page)
    BY <1>3, <2>1 DEF Settling
  <2> QED
    BY <2>2, InitPage DEF Fine, PageOK
<1>5. CASE ~Has("page")
  <2>1. Settling(page)
    BY <1>1, <1>5 DEF Settling
  <2> QED
    BY <2>1, InitPage DEF Fine, PageOK
<1> QED
  BY <1>4, <1>5

Reached == TypeOK /\ Fine(page)

LEMMA ReachedStep ==
  ASSUME Reached, [(Next /\ Heard) \/ PageStep]_pvars PROVE Reached'
  BY TypeStep, PageFineStep DEF Reached, Fine, PageOK

(* In every reachable state the tables have their columns and keys, with   *)
(* the foreign keys of the schema, and a request finds again what it has   *)
(* read, however the requests of the services interleave.                  *)
THEOREM TypeCorrect == Spec => []TypeOK
<1>1. PageInit => Reached
  BY InitFine DEF Reached
<1>2. Reached /\ [(Next /\ Heard) \/ PageStep]_pvars => Reached'
  BY ReachedStep
<1>3. Reached => TypeOK
  BY DEF Reached
<1> HIDE DEF Reached
<1> QED
  BY <1>1, <1>2, <1>3, PTL DEF Spec

(* A page at rest shows the issue that is selected, with every change that *)
(* was made on the page, and the next button sends what was clicked        *)
(* (PageSettles; IssueDetailPanel.tsx:1272).                               *)
THEOREM PageSettled == Spec => []PageSettles
<1>1. PageInit => Reached
  BY InitFine DEF Reached
<1>2. Reached /\ [(Next /\ Heard) \/ PageStep]_pvars => Reached'
  BY ReachedStep
<1>3. Reached => PageSettles
  BY DEF Reached, Fine, PageFits, Settling, PageSettles
<1> HIDE DEF Reached
<1> QED
  BY <1>1, <1>2, <1>3, PTL DEF Spec

-------------------------------------------------------------------------------
(* Who changes what.                                                       *)
LEMMA ShapeHasOp ==
  ASSUME NEW r, Shape(r) PROVE "op" \in DOMAIN r
<1>1. r \in Requested => "op" \in DOMAIN r
  BY DEF Requested, CommentReq, AcceptReq, RejectReq, StatusReq, FlagReq,
         DeleteReq, RunReq, TickReq, DailyReq, PlainReq, SwitchReq, Idle
<1>2. Editing(r) \/ Committing(r) => "op" \in DOMAIN r
  BY DEF Editing, Committing
<1> QED
  BY <1>1, <1>2 DEF Shape

LEMMA GotoGoes ==
  ASSUME TypeOK, NEW q \in Requests, NEW at, Goto(q, at)
  PROVE  req'[q].op = req[q].op /\ req'[q] = [req[q] EXCEPT !.at = at]
<1>1. PICK r : r = [req[q] EXCEPT !.at = at]
  OBVIOUS
<1>2. req'[q] = r
  BY <1>1 DEF Goto, TypeOK, RequestsOK
<1>3. r.op = req[q].op
  BY <1>1, RequestOK, ShapeHasOp
<1> QED
  BY <1>1, <1>2, <1>3

LEMMA EndGoes ==
  ASSUME TypeOK, NEW q \in Requests, End(q) PROVE req'[q].op = "idle"
  BY DEF End, TypeOK, RequestsOK, Idle

LEMMA BeginGoes ==
  ASSUME TypeOK, NEW q \in Requests, NEW r, Begin(q, r) PROVE req'[q] = r
  BY DEF Begin, TypeOK, RequestsOK

(* The requests that the properties are about, and their steps.            *)
LEMMA Special ==
  ASSUME TypeOK, NEW q \in Requests, Act(q),
         req'[q].op \in {"accept", "flag", "patch"}
  PROVE  \/ UNCHANGED <<req, issue, proposal, clock>>
         \/ \E c \in Proposals : AcceptRead(q, c)
         \/ AcceptOrder(q) \/ AcceptMark(q)
         \/ AcceptOthersRead(q) \/ AcceptOthersWrite(q)
         \/ (\E o \in Orders : FlagRead(q, o)) \/ FlagLook(q)
         \/ \E patch \in Values("switches") : PatchRead(q, patch)
<1>1. CASE PageRead(q)
  <2>1. ASSUME NEW i \in Issues, NEW op \in {"close", "reopen", "cancel"},
               StatusRead(q, i, op)
        PROVE  FALSE
    BY <2>1, BeginGoes DEF StatusRead
  <2>2. ASSUME NEW c \in Proposals, RejectRead(q, c) PROVE FALSE
    BY <2>2, BeginGoes DEF RejectRead
  <2>3. ASSUME NEW i \in Issues, NEW v, NEW n,
               CommentRead(q, i, v.kind, v.value, n)
        PROVE  FALSE
    BY <2>3, BeginGoes DEF CommentRead
  <2> QED
    BY <1>1, <2>1, <2>2, <2>3 DEF PageRead
<1>2. CASE OrderBegin(q)
  <2>1. ASSUME NEW o \in Orders, NEW n, CreateOrder(q, o, n.qty, n.due)
        PROVE  UNCHANGED <<req, issue, proposal, clock>>
    BY <2>1 DEF CreateOrder, desk
  <2>2. ASSUME NEW o \in Orders, NEW patch,
               SalesRead(q, o, patch) \/ AdminRead(q, o, patch)
        PROVE  FALSE
    BY <2>2, BeginGoes DEF SalesRead, AdminRead
  <2>3. ASSUME NEW o \in Orders, DeleteRead(q, o) PROVE FALSE
    BY <2>3, BeginGoes DEF DeleteRead
  <2> QED
    BY <1>2, <2>1, <2>2, <2>3 DEF OrderBegin
<1>3. CASE ProductionBegin(q)
  <2>1. ASSUME NEW cfg, RunBegin(q, cfg) PROVE FALSE
    BY <2>1, BeginGoes DEF RunBegin
  <2>2. ASSUME AutoBegin(q) \/ DailyBegin(q) PROVE FALSE
    BY <2>2 DEF AutoBegin, DailyBegin, CronBegin, TypeOK, RequestsOK
  <2> QED
    BY <1>3, <2>1, <2>2 DEF ProductionBegin
<1>4. CASE IssueStep(q)
  <2>1. CASE CommentCreate(q)
    <3>1. req[q].op = "comment"
      BY <2>1 DEF CommentCreate, Doing
    <3> QED
      BY <2>1, <3>1, GotoGoes, EndGoes DEF CommentCreate
  <2>2. CASE CommentDiscuss(q) \/ AcceptStale(q) \/ AcceptResolve(q)
             \/ RejectWrite(q) \/ StatusWrite(q) \/ FlagCreate(q)
    BY <2>2, EndGoes DEF CommentDiscuss, AcceptStale, AcceptResolve, RejectWrite,
                         StatusWrite, FlagCreate
  <2>3. CASE CancelFromIssue(q)
    BY <2>3, GotoGoes DEF CancelFromIssue, Doing
  <2> QED
    BY <1>4, <2>1, <2>2, <2>3 DEF IssueStep
<1>5. CASE OrderStep(q) \/ Die(q)
  BY <1>5, EndGoes DEF OrderStep, UpdateOrder, CancelOrder, Die
<1>6. CASE ProductionStep(q)
  <2>1. CASE RunPlan(q)
    <3>1. CASE lock = None
      <4>1. PICK r : r = [op |-> req[q].op, at |-> "commit",
                          in |-> Prepare(req[q].date, req[q].cfg),
                          plan |-> PlanOf(Prepare(req[q].date, req[q].cfg))]
        OBVIOUS
      <4>2. req' = [req EXCEPT ![q] = r]
        BY <2>1, <3>1, <4>1 DEF RunPlan
      <4>3. req'[q].op = req[q].op
        BY <4>1, <4>2 DEF TypeOK, RequestsOK
      <4> QED
        BY <2>1, <4>3 DEF RunPlan
    <3>2. CASE lock # None
      BY <2>1, <3>2, EndGoes DEF RunPlan
    <3> QED
      BY <3>1, <3>2
  <2>2. CASE AutoDate(q) \/ DailyDate(q)
    BY <2>2, EndGoes DEF AutoDate, DailyDate, TypeOK, RequestsOK
  <2>3. CASE RunCommit(q) \/ PatchPlain(q) \/ Advance(q) \/ PatchRevert(q)
    BY <2>3, EndGoes DEF RunCommit, PatchPlain, Advance, PatchRevert
  <2> QED
    BY <1>6, <2>1, <2>2, <2>3 DEF ProductionStep
<1> QED
  BY <1>1, <1>2, <1>3, <1>4, <1>5, <1>6 DEF Act, Step

(* The history grows.                                                      *)
LEMMA HistoryGrows ==
  ASSUME TypeOK, NEW q \in Requests, Act(q)
  PROVE  /\ AcceptOrder(q) \/ hist'.applied = hist.applied
         /\ hist.overlapped \subseteq hist'.overlapped
         /\ hist.crossed \subseteq hist'.crossed
         /\ hist.skewed => hist'.skewed
<1> DEFINE Goal == /\ hist'.applied = hist.applied
                   /\ hist.overlapped \subseteq hist'.overlapped
                   /\ hist.crossed \subseteq hist'.crossed
                   /\ hist.skewed => hist'.skewed
<1>0. hist \in HistoryRow
  BY DEF TypeOK, HistoryOK
<1>1. hist' \in {hist, Count(hist)} => Goal
  BY <1>0 DEF Count, HistoryRow
<1>2. (\E S : hist' \in {Crossed(hist, S), Astray(hist, S)}) => Goal
  BY <1>0 DEF Crossed, Astray, HistoryRow
<1>3. (\E S : hist' = [hist EXCEPT !.astray = S]) => Goal
  BY <1>0 DEF HistoryRow
<1>4. CASE PageRead(q)
  <2>1. (\E c : hist' = [Count(hist) EXCEPT !.overlapped = @ \cup {c}]) => Goal
    BY <1>0 DEF Count, HistoryRow
  <2>2. ASSUME NEW c \in Proposals, AcceptRead(q, c) PROVE Goal
    BY <1>1, <2>1, <2>2 DEF AcceptRead
  <2>3. ASSUME NEW i \in Issues, NEW op, StatusRead(q, i, op) PROVE Goal
    BY <1>1, <2>3 DEF StatusRead
  <2>4. ASSUME NEW c \in Proposals, RejectRead(q, c) PROVE Goal
    BY <1>1, <2>4 DEF RejectRead
  <2>5. ASSUME NEW i \in Issues, NEW v, NEW n,
               CommentRead(q, i, v.kind, v.value, n)
        PROVE  Goal
    BY <1>1, <2>5 DEF CommentRead
  <2> QED
    BY <1>4, <2>2, <2>3, <2>4, <2>5 DEF PageRead
<1>5. CASE (\E o \in Orders : FlagRead(q, o)) \/ OrderBegin(q)
  BY <1>1, <1>5 DEF FlagRead, OrderBegin, CreateOrder, SalesRead, AdminRead,
                    DeleteRead
<1>6. CASE ProductionBegin(q)
  BY <1>1, <1>6 DEF ProductionBegin, RunBegin, AutoBegin, DailyBegin, PatchRead
<1>7. CASE IssueStep(q)
  <2>1. AcceptOrder(q) =>
          /\ hist.overlapped \subseteq hist'.overlapped
          /\ hist.crossed \subseteq hist'.crossed
          /\ hist.skewed => hist'.skewed
    <3> SUFFICES ASSUME AcceptOrder(q)
                 PROVE  /\ hist.overlapped \subseteq hist'.overlapped
                        /\ hist.crossed \subseteq hist'.crossed
                        /\ hist.skewed => hist'.skewed
      OBVIOUS
    <3>1. PICK h : h = [hist EXCEPT !.applied[req[q].proposal] = @ + 1]
      OBVIOUS
    <3>2. hist' = Astray(h, {req[q].order})
      BY <3>1 DEF AcceptOrder
    <3> QED
      BY <1>0, <3>1, <3>2 DEF Astray, HistoryRow
  <2>2. CASE CommentCreate(q) \/ AcceptStale(q) \/ AcceptMark(q)
             \/ AcceptOthersRead(q) \/ AcceptOthersWrite(q) \/ AcceptResolve(q)
             \/ RejectWrite(q) \/ FlagCreate(q)
    BY <1>1, <2>2 DEF CommentCreate, AcceptStale, AcceptMark, AcceptOthersRead,
                      AcceptOthersWrite, AcceptResolve, RejectWrite, FlagCreate
  <2>3. CASE CommentDiscuss(q) \/ CancelFromIssue(q) \/ StatusWrite(q)
             \/ FlagLook(q)
    BY <1>1, <1>2, <2>3 DEF CommentDiscuss, CancelFromIssue, StatusWrite, FlagLook
  <2> QED
    BY <1>7, <2>1, <2>2, <2>3 DEF IssueStep
<1>8. CASE OrderStep(q)
  BY <1>1, <1>3, <1>8 DEF OrderStep, UpdateOrder, CancelOrder, Locked
<1>9. CASE ProductionStep(q)
  <2>1. CASE RunPlan(q) \/ RunCommit(q) \/ AutoDate(q) \/ DailyDate(q)
    BY <1>1, <1>2, <1>3, <2>1 DEF RunPlan, RunCommit, AutoDate, DailyDate
  <2>2. CASE PatchPlain(q)
    BY <1>0, <2>2 DEF PatchPlain, HistoryRow
  <2>3. CASE Advance(q)
    <3>1. (\E S, b : hist' = [hist EXCEPT !.astray = S, !.skewed = @ \/ b]) => Goal
      BY <1>0 DEF HistoryRow
    <3> QED
      BY <1>1, <2>3, <3>1 DEF Advance
  <2>4. CASE PatchRevert(q)
    <3>1. PICK S, T : hist' = Astray([hist EXCEPT !.astray = S], T)
      BY <2>4 DEF PatchRevert
    <3>2. PICK h : h = [hist EXCEPT !.astray = S]
      OBVIOUS
    <3>3. hist' = Astray(h, T)
      BY <3>1, <3>2
    <3> QED
      BY <1>0, <3>2, <3>3 DEF Astray, HistoryRow
  <2> QED
    BY <1>9, <2>1, <2>2, <2>3, <2>4 DEF ProductionStep
<1>10. CASE Die(q)
  BY <1>0, <1>10 DEF Die, HistoryRow
<1> QED
  BY <1>4, <1>5, <1>6, <1>7, <1>8, <1>9, <1>10 DEF Act, Step

LEMMA WhoIssues ==
  ASSUME TypeOK, NEW q \in Requests, Act(q)
  PROVE  \/ UNCHANGED issue
         \/ CommentDiscuss(q) \/ AcceptResolve(q) \/ StatusWrite(q)
         \/ FlagCreate(q) \/ RunCommit(q)
<1>1. PageRead(q) \/ (\E o \in Orders : FlagRead(q, o)) => UNCHANGED issue
  BY DEF PageRead, StatusRead, AcceptRead, RejectRead, CommentRead, FlagRead, desk
<1>2. OrderBegin(q) \/ ProductionBegin(q) \/ Die(q) => UNCHANGED issue
  BY DEF OrderBegin, CreateOrder, SalesRead, AdminRead, DeleteRead,
         ProductionBegin, RunBegin, AutoBegin, DailyBegin, PatchRead, Die, desk
<1>3. OrderStep(q) => UNCHANGED issue
  BY DEF OrderStep, UpdateOrder, CancelOrder, desk
<1>4. ProductionStep(q) => UNCHANGED issue \/ RunCommit(q)
  BY DEF ProductionStep, RunPlan, AutoDate, DailyDate, PatchPlain, Advance,
         PatchRevert, desk
<1>5. IssueStep(q) => \/ UNCHANGED issue
                      \/ CommentDiscuss(q) \/ AcceptResolve(q) \/ StatusWrite(q)
                      \/ FlagCreate(q)
  BY DEF IssueStep, CommentCreate, AcceptStale, AcceptOrder, AcceptMark,
         AcceptOthersRead, AcceptOthersWrite, RejectWrite, CancelFromIssue,
         FlagLook, desk
<1> QED
  BY <1>1, <1>2, <1>3, <1>4, <1>5 DEF Act, Step

(* The steps that no request takes.                                        *)
LEMMA NobodyActs ==
  ASSUME UNCHANGED vars \/ NewDay \/ Lapse
  PROVE  /\ UNCHANGED <<ord, work, issue, proposal, sim, req, scene, hist>>
         /\ today' = today \/ today' = today + 1
  BY DEF vars, schedule, desk, clock, NewDay, Lapse

-------------------------------------------------------------------------------
(* Proposals.  A request that has passed the write of the order has        *)
(* applied its proposal; one that is about to write has not, unless two    *)
(* of them overlap, and knows the order from a version no later than the   *)
(* present one; what was applied expects a version that is gone.           *)
Late(r) == r.op = "accept" /\ r.at \in {"mark", "others", "outdate", "resolve"}
AppliedLate ==
  \A q \in Requests : Late(req[q]) => hist.applied[req[q].proposal] > 0
Rev(c) == ord[issue[proposal[c].issue].order].rev
Behind ==
  \A c \in Proposals : hist.applied[c] > 0 =>
    proposal[c] # None /\ Rev(c) > proposal[c].expected
Accepting(q, c) == Doing(q, "accept", "order") /\ req[q].proposal = c
AboutToApply ==
  \A q \in Requests, c \in Proposals : Accepting(q, c) =>
    /\ Rev(c) >= proposal[c].expected
    /\ c \notin hist.overlapped =>
         /\ hist.applied[c] = 0
         /\ \A p \in Requests : Accepting(p, c) => p = q
Applying == Behind /\ AboutToApply /\ AppliedOnce

LEMMA RequestFrame ==
  ASSUME TypeOK, NEW q \in Requests, Act(q), NEW p \in Requests \ {q}
  PROVE  req'[p] = req[p]
  BY ActTyped DEF Moved, Alone

LEMMA AcceptOrderGoes ==
  ASSUME TypeOK, NEW q \in Requests, AcceptOrder(q)
  PROVE  LET c == req[q].proposal IN
         /\ c \in Proposals
         /\ hist'.applied[c] = hist.applied[c] + 1
         /\ \A d \in Proposals \ {c} : hist'.applied[d] = hist.applied[d]
         /\ hist'.overlapped = hist.overlapped
         /\ req'[q].proposal = c /\ req'[q].at = "mark"
         /\ UNCHANGED <<issue, proposal>>
<1>1. req[q] \in AcceptReq
  BY RequestOK, ShapeByOp DEF AcceptOrder, Doing
<1>2. PICK c \in Proposals : c = req[q].proposal
  BY <1>1 DEF AcceptReq
<1>3. PICK h : h = [hist EXCEPT !.applied[req[q].proposal] = @ + 1]
  OBVIOUS
<1>4. hist' = Astray(h, {req[q].order})
  BY <1>3 DEF AcceptOrder
<1>5. hist \in HistoryRow
  BY DEF TypeOK, HistoryOK
<1>6. h.applied = [hist.applied EXCEPT ![c] = @ + 1]
      /\ h.overlapped = hist.overlapped
  BY <1>2, <1>3, <1>5 DEF HistoryRow
<1>7. hist'.applied = h.applied /\ hist'.overlapped = h.overlapped
  BY <1>3, <1>4, <1>5 DEF Astray, HistoryRow
<1>8. req'[q] = [req[q] EXCEPT !.at = "mark"]
  BY GotoGoes DEF AcceptOrder
<1>9. req'[q].proposal = c /\ req'[q].at = "mark"
  BY <1>1, <1>2, <1>8 DEF AcceptReq
<1>10. UNCHANGED <<issue, proposal>>
  BY DEF AcceptOrder, desk
<1> QED
  BY <1>2, <1>5, <1>6, <1>7, <1>9, <1>10 DEF HistoryRow

(* A later version of an order stays one.                                  *)
LEMMA RevGrows ==
  ASSUME TypeOK, OrdersGo, IssuesGo, ProposalsGo,
         NEW c \in Proposals, proposal[c] # None
  PROVE  /\ proposal'[c] # None /\ proposal'[c].expected = proposal[c].expected
         /\ Rev(c)' >= Rev(c)
         /\ Rev(c) \in Nat /\ Rev(c)' \in Nat /\ proposal[c].expected \in Nat
<1>1. proposal[c] \in ProposalRow
  BY DEF TypeOK, TablesOK
<1>2. PICK i \in Issues : i = proposal[c].issue /\ issue[i] # None
  BY <1>1 DEF TypeOK, KeysOK, ProposalRow
<1>3. issue[i] \in IssueRow
  BY <1>2 DEF TypeOK, TablesOK
<1>4. PICK o \in Orders : o = issue[i].order /\ ord[o] # None
  BY <1>2, <1>3 DEF TypeOK, KeysOK, Exists, IssueRow
<1>5. proposal'[c] # None /\ proposal'[c].issue = i
      /\ proposal'[c].expected = proposal[c].expected
  BY <1>2 DEF ProposalsGo
<1>6. issue'[i].order = o
  BY <1>2, <1>4 DEF IssuesGo
<1>7. ord'[o].rev >= ord[o].rev /\ ord[o] \in OrderRow /\ ord'[o] \in OrderRow
  BY <1>4 DEF OrdersGo, TypeOK, TablesOK
<1> QED
  BY <1>1, <1>2, <1>4, <1>5, <1>6, <1>7 DEF Rev, OrderRow, ProposalRow

LEMMA BehindStep ==
  ASSUME TypeOK, Behind, AboutToApply, NEW q \in Requests, Act(q) PROVE Behind'
<1> SUFFICES ASSUME NEW c \in Proposals, hist'.applied[c] > 0
             PROVE  proposal'[c] # None /\ Rev(c)' > proposal'[c].expected
  BY DEF Behind
<1>1. OrdersGo /\ IssuesGo /\ ProposalsGo
  BY ActTyped DEF Moved
<1>2. CASE hist.applied[c] > 0
  <2>1. proposal[c] # None /\ Rev(c) > proposal[c].expected
    BY <1>2 DEF Behind
  <2>2. /\ proposal'[c] # None /\ proposal'[c].expected = proposal[c].expected
        /\ Rev(c)' >= Rev(c) /\ Rev(c) \in Nat /\ Rev(c)' \in Nat
        /\ proposal[c].expected \in Nat
    BY <1>1, <2>1, RevGrows
  <2> QED
    BY <2>1, <2>2
<1>3. CASE ~(hist.applied[c] > 0)
  <2>1. AcceptOrder(q) /\ c = req[q].proposal
    BY <1>3, HistoryGrows, AcceptOrderGoes
  <2>2. Accepting(q, c)
    BY <2>1 DEF Accepting, AcceptOrder
  <2>3. Rev(c) >= proposal[c].expected
    BY <2>2 DEF AboutToApply
  <2>4. proposal[c] # None /\ req[q].order = issue[proposal[c].issue].order
    BY <2>1, RequestOK DEF AcceptOrder, Doing, Linked
  <2>5. /\ proposal'[c] # None /\ proposal'[c].expected = proposal[c].expected
        /\ Rev(c) \in Nat /\ proposal[c].expected \in Nat
    BY <1>1, <2>4, RevGrows
  <2>6. ord'[req[q].order].rev = ord[req[q].order].rev + 1
    BY <2>1, AcceptOrderTyped
  <2>7. UNCHANGED <<issue, proposal>>
    BY <2>1, AcceptOrderGoes
  <2>8. Rev(c)' = Rev(c) + 1
    BY <2>4, <2>6, <2>7 DEF Rev
  <2> QED
    BY <2>3, <2>5, <2>8
<1> QED
  BY <1>2, <1>3

LEMMA AcceptReadGoes ==
  ASSUME TypeOK, NEW q \in Requests, NEW c \in Proposals, AcceptRead(q, c)
  PROVE  /\ proposal[c] # None
         /\ req'[q].proposal = c /\ req'[q].at \in {"order", "stale"}
         /\ req'[q].at = "order" => Rev(c) = proposal[c].expected
         /\ UNCHANGED <<ord, issue, proposal>>
         /\ hist'.applied = hist.applied
         /\ \A p \in Requests : Accepting(p, c) => c \in hist'.overlapped
<1>1. PICK r : r = [op |-> "accept",
                    at |-> IF Applies(c) THEN "order" ELSE "stale",
                    proposal |-> c, order |-> issue[proposal[c].issue].order,
                    others |-> {}]
  OBVIOUS
<1>2. req'[q] = r
  BY <1>1, BeginGoes DEF AcceptRead
<1>3. hist \in HistoryRow
  BY DEF TypeOK, HistoryOK
<1>4. hist'.applied = hist.applied
  BY <1>3 DEF AcceptRead, Count, HistoryRow
<1>5. ASSUME NEW p \in Requests, Accepting(p, c) PROVE c \in hist'.overlapped
  <2>1. hist' = [Count(hist) EXCEPT !.overlapped = @ \cup {c}]
    BY <1>5 DEF AcceptRead, Accepting
  <2> QED
    BY <1>3, <2>1 DEF Count, HistoryRow
<1>6. proposal[c] # None /\ UNCHANGED <<ord, issue, proposal>>
  BY DEF AcceptRead, desk
<1> QED
  BY <1>1, <1>2, <1>4, <1>5, <1>6 DEF Applies, Rev

(* Who will be about to apply a proposal was so, or has just read it.      *)
LEMMA AcceptingGoes ==
  ASSUME TypeOK, NEW q \in Requests, Act(q), NEW p \in Requests,
         NEW c \in Proposals, Accepting(p, c)'
  PROVE  Accepting(p, c) \/ (p = q /\ AcceptRead(q, c))
<1>1. CASE p # q
  <2>1. req'[p] = req[p]
    BY <1>1, RequestFrame
  <2> QED
    BY <2>1 DEF Accepting, Doing
<1>2. CASE p = q
  <2>1. req'[q].op = "accept" /\ req'[q].at = "order" /\ req'[q].proposal = c
    BY <1>2 DEF Accepting, Doing
  <2>2. CASE UNCHANGED req
    BY <1>2, <2>1, <2>2 DEF Accepting, Doing
  <2>3. ASSUME NEW d \in Proposals, AcceptRead(q, d) PROVE AcceptRead(q, c)
    BY <2>1, <2>3, AcceptReadGoes
  <2>4. ~AcceptOrder(q)
    BY <2>1, AcceptOrderGoes
  <2>5. ~AcceptMark(q) /\ ~AcceptOthersWrite(q)
    <3>1. AcceptMark(q) \/ AcceptOthersWrite(q) =>
            Goto(q, "others") \/ Goto(q, "resolve")
      BY DEF AcceptMark, AcceptOthersWrite
    <3>2. ASSUME NEW at \in {"others", "resolve"}, Goto(q, at),
                 req[q].op = "accept"
          PROVE  req'[q].at = at
      <4>1. req[q] \in AcceptReq
        BY <3>2, RequestOK, ShapeByOp
      <4>2. req'[q] = [req[q] EXCEPT !.at = at]
        BY <3>2, GotoGoes
      <4> QED
        BY <4>1, <4>2 DEF AcceptReq
    <3>3. AcceptMark(q) \/ AcceptOthersWrite(q) => req[q].op = "accept"
      BY DEF AcceptMark, AcceptOthersWrite, Doing
    <3> QED
      BY <2>1, <3>1, <3>2, <3>3
  <2>6. ~AcceptOthersRead(q)
    <3> SUFFICES ASSUME AcceptOthersRead(q) PROVE FALSE
      OBVIOUS
    <3>1. req[q] \in AcceptReq
      BY RequestOK, ShapeByOp DEF AcceptOthersRead, Doing
    <3>2. PICK S : req' = [req EXCEPT ![q].others = S, ![q].at = "outdate"]
      BY DEF AcceptOthersRead
    <3>3. req'[q].at = "outdate"
      BY <3>1, <3>2 DEF AcceptReq, TypeOK, RequestsOK
    <3> QED
      BY <2>1, <3>3
  <2>7. ~FlagLook(q) /\ \A o \in Orders : ~FlagRead(q, o)
    <3>1. FlagLook(q) => req'[q].op \in {"flag", "idle"}
      BY GotoGoes, EndGoes DEF FlagLook, Doing
    <3>2. ASSUME NEW o, FlagRead(q, o) PROVE req'[q].op = "flag"
      BY <3>2, BeginGoes DEF FlagRead
    <3> QED
      BY <2>1, <3>1, <3>2
  <2>8. \A patch : ~PatchRead(q, patch)
    BY <2>1, BeginGoes DEF PatchRead
  <2> QED
    BY <1>2, <2>1, <2>2, <2>3, <2>4, <2>5, <2>6, <2>7, <2>8, Special
<1> QED
  BY <1>1, <1>2

LEMMA AcceptingRow ==
  ASSUME TypeOK, NEW q \in Requests, NEW c \in Proposals, Accepting(q, c)
  PROVE  proposal[c] # None
  BY RequestOK DEF Accepting, Doing, Linked

LEMMA AboutToApplyStep ==
  ASSUME TypeOK, Behind, AboutToApply, NEW q \in Requests, Act(q)
  PROVE  AboutToApply'
<1> SUFFICES ASSUME NEW p \in Requests, NEW c \in Proposals, Accepting(p, c)'
             PROVE  /\ Rev(c)' >= proposal'[c].expected
                    /\ c \notin hist'.overlapped =>
                         /\ hist'.applied[c] = 0
                         /\ \A s \in Requests : Accepting(s, c)' => s = p
  BY DEF AboutToApply
<1>1. OrdersGo /\ IssuesGo /\ ProposalsGo
  BY ActTyped DEF Moved
<1>2. hist.overlapped \subseteq hist'.overlapped
  BY HistoryGrows
<1>3. ASSUME AcceptOrder(q) PROVE req'[q].at = "mark"
  BY <1>3, AcceptOrderGoes
<1>4. CASE p = q /\ AcceptRead(q, c)
  <2>1. /\ proposal[c] # None /\ req'[q].at \in {"order", "stale"}
        /\ req'[q].at = "order" => Rev(c) = proposal[c].expected
        /\ UNCHANGED <<ord, issue, proposal>>
        /\ hist'.applied = hist.applied
        /\ \A s \in Requests : Accepting(s, c) => c \in hist'.overlapped
    BY <1>4, AcceptReadGoes
  <2>2. req'[q].at = "order"
    BY <1>4 DEF Accepting, Doing
  <2>3. Rev(c)' = Rev(c) /\ proposal'[c].expected = proposal[c].expected
        /\ Rev(c) \in Nat
    BY <1>1, <2>1, RevGrows DEF Rev
  <2>4. ~(hist.applied[c] > 0)
    BY <2>1, <2>2, <2>3 DEF Behind
  <2>5. hist.applied[c] \in Nat
    BY DEF TypeOK, HistoryOK, HistoryRow
  <2>6. ASSUME c \notin hist'.overlapped, NEW s \in Requests, Accepting(s, c)'
        PROVE  s = p
    <3>1. Accepting(s, c) \/ s = q
      BY <2>6, AcceptingGoes
    <3> QED
      BY <1>4, <2>1, <2>6, <3>1
  <2> QED
    BY <2>1, <2>2, <2>3, <2>4, <2>5, <2>6
<1>5. CASE Accepting(p, c)
  <2>1. proposal[c] # None
    BY <1>5, AcceptingRow
  <2>2. Rev(c) >= proposal[c].expected
    BY <1>5 DEF AboutToApply
  <2>3. /\ proposal'[c].expected = proposal[c].expected
        /\ Rev(c)' >= Rev(c) /\ Rev(c) \in Nat /\ Rev(c)' \in Nat
        /\ proposal[c].expected \in Nat
    BY <1>1, <2>1, RevGrows
  <2>4. ASSUME c \notin hist'.overlapped
        PROVE  /\ hist'.applied[c] = 0
               /\ \A s \in Requests : Accepting(s, c)' => s = p
    <3>1. /\ c \notin hist.overlapped /\ hist.applied[c] = 0
          /\ \A s \in Requests : Accepting(s, c) => s = p
      BY <1>2, <1>5, <2>4 DEF AboutToApply
    <3>2. ASSUME NEW s \in Requests, Accepting(s, c)' PROVE s = p
      <4>1. Accepting(s, c) \/ AcceptRead(q, c)
        BY <3>2, AcceptingGoes
      <4>2. ~AcceptRead(q, c)
        BY <1>5, <2>4, AcceptReadGoes
      <4> QED
        BY <3>1, <4>1, <4>2
    <3>3. CASE AcceptOrder(q) /\ req[q].proposal = c
      <4>1. Accepting(q, c)
        BY <3>3 DEF AcceptOrder, Accepting
      <4>2. p = q
        BY <3>1, <4>1
      <4> QED
        BY <1>3, <3>3, <4>2 DEF Accepting, Doing
    <3>4. CASE ~(AcceptOrder(q) /\ req[q].proposal = c)
      <4>1. hist'.applied[c] = hist.applied[c]
        BY <3>4, HistoryGrows, AcceptOrderGoes
      <4> QED
        BY <3>1, <3>2, <4>1
    <3> QED
      BY <3>3, <3>4
  <2> QED
    BY <2>2, <2>3, <2>4
<1> QED
  BY <1>4, <1>5, AcceptingGoes

LEMMA AppliedOnceStep ==
  ASSUME TypeOK, AboutToApply, AppliedOnce, NEW q \in Requests, Act(q)
  PROVE  AppliedOnce'
<1> SUFFICES ASSUME NEW c \in Proposals, c \notin hist'.overlapped
             PROVE  hist'.applied[c] <= 1
  BY DEF AppliedOnce
<1>1. c \notin hist.overlapped
  BY HistoryGrows
<1>2. CASE AcceptOrder(q) /\ req[q].proposal = c
  <2>1. Accepting(q, c)
    BY <1>2 DEF AcceptOrder, Accepting
  <2>2. hist.applied[c] = 0
    BY <1>1, <2>1 DEF AboutToApply
  <2> QED
    BY <1>2, <2>2, AcceptOrderGoes
<1>3. CASE ~(AcceptOrder(q) /\ req[q].proposal = c)
  <2>1. hist'.applied[c] = hist.applied[c]
    BY <1>3, HistoryGrows, AcceptOrderGoes
  <2> QED
    BY <1>1, <2>1 DEF AppliedOnce
<1> QED
  BY <1>2, <1>3

LEMMA InitApplying == Init => Applying /\ AppliedLate
<1> SUFFICES ASSUME Init PROVE Applying /\ AppliedLate
  OBVIOUS
<1>1. /\ \A q \in Requests : req[q].op = "idle"
      /\ \A c \in Proposals : hist.applied[c] = 0
  BY DEF Init, Idle
<1> QED
  BY <1>1 DEF Applying, Behind, AboutToApply, AppliedOnce, Accepting, Doing,
              AppliedLate, Late

LEMMA ApplyingStep ==
  ASSUME Reached, Applying, [(Next /\ Heard) \/ PageStep]_pvars PROVE Applying'
<1>1. ASSUME UNCHANGED vars \/ NewDay \/ Lapse PROVE Applying'
  BY <1>1, NobodyActs DEF Applying, Behind, AboutToApply, AppliedOnce, Accepting,
     Doing, Rev
<1>2. ASSUME NEW q \in Requests, Act(q) PROVE Applying'
  BY <1>2, BehindStep, AboutToApplyStep, AppliedOnceStep DEF Reached, Applying
<1> QED
  BY <1>1, <1>2, WhoActs DEF Reached, Fine, PageOK

-------------------------------------------------------------------------------
(* Issues are resolved by requests that have applied a proposal.           *)
LEMMA LateGoes ==
  ASSUME TypeOK, NEW q \in Requests, Act(q), Late(req'[q])
  PROVE  \/ AcceptOrder(q)
         \/ Late(req[q]) /\ req'[q].proposal = req[q].proposal
<1>1. req'[q].op = "accept"
      /\ req'[q].at \in {"mark", "others", "outdate", "resolve"}
  BY DEF Late
<1>2. CASE UNCHANGED req
  BY <1>2 DEF Late
<1>3. \A c \in Proposals : ~AcceptRead(q, c)
  BY <1>1, AcceptReadGoes
<1>4. CASE AcceptMark(q) \/ AcceptOthersWrite(q)
  <2>1. req[q] \in AcceptReq /\ Late(req[q])
    BY <1>4, RequestOK, ShapeByOp DEF AcceptMark, AcceptOthersWrite, Doing, Late
  <2>2. PICK at : req'[q] = [req[q] EXCEPT !.at = at]
    BY <1>4, GotoGoes DEF AcceptMark, AcceptOthersWrite
  <2> QED
    BY <2>1, <2>2 DEF AcceptReq
<1>5. CASE AcceptOthersRead(q)
  <2>1. req[q] \in AcceptReq /\ Late(req[q])
    BY <1>5, RequestOK, ShapeByOp DEF AcceptOthersRead, Doing, Late
  <2>2. PICK S : req' = [req EXCEPT ![q].others = S, ![q].at = "outdate"]
    BY <1>5 DEF AcceptOthersRead
  <2> QED
    BY <2>1, <2>2 DEF AcceptReq, TypeOK, RequestsOK
<1>6. ~FlagLook(q) /\ \A o \in Orders : ~FlagRead(q, o)
  <2>1. FlagLook(q) => req'[q].op \in {"flag", "idle"}
    BY GotoGoes, EndGoes DEF FlagLook, Doing
  <2>2. ASSUME NEW o, FlagRead(q, o) PROVE req'[q].op = "flag"
    BY <2>2, BeginGoes DEF FlagRead
  <2> QED
    BY <1>1, <2>1, <2>2
<1>7. \A patch : ~PatchRead(q, patch)
  BY <1>1, BeginGoes DEF PatchRead
<1> QED
  BY <1>1, <1>2, <1>3, <1>4, <1>5, <1>6, <1>7, Special

LEMMA AppliedGrows ==
  ASSUME TypeOK, NEW q \in Requests, Act(q), NEW c \in Proposals
  PROVE  hist'.applied[c] >= hist.applied[c] /\ hist.applied[c] \in Nat
         /\ hist'.applied[c] \in Nat
<1>1. hist.applied[c] \in Nat
  BY DEF TypeOK, HistoryOK, HistoryRow
<1>2. \/ hist'.applied[c] = hist.applied[c]
      \/ hist'.applied[c] = hist.applied[c] + 1
  BY HistoryGrows, AcceptOrderGoes
<1> QED
  BY <1>1, <1>2

LEMMA LateRequest ==
  ASSUME TypeOK, NEW q \in Requests, Late(req[q])
  PROVE  /\ req[q].proposal \in Proposals
         /\ proposal[req[q].proposal] # None
  BY RequestOK, ShapeByOp DEF Late, Linked, AcceptReq

LEMMA AppliedLateStep ==
  ASSUME TypeOK, AppliedLate, NEW q \in Requests, Act(q) PROVE AppliedLate'
<1> SUFFICES ASSUME NEW p \in Requests, Late(req'[p])
             PROVE  hist'.applied[req'[p].proposal] > 0
  BY DEF AppliedLate, Late
<1>1. CASE Late(req[p]) /\ req'[p].proposal = req[p].proposal
  <2>1. PICK c \in Proposals : c = req[p].proposal
    BY <1>1, LateRequest
  <2>2. hist.applied[c] > 0
    BY <1>1, <2>1 DEF AppliedLate
  <2> QED
    BY <1>1, <2>1, <2>2, AppliedGrows
<1>2. CASE p = q /\ AcceptOrder(q)
  <2>1. PICK c \in Proposals : c = req[q].proposal
    BY <1>2, AcceptOrderGoes
  <2>2. /\ hist'.applied[c] = hist.applied[c] + 1 /\ req'[q].proposal = c
        /\ hist.applied[c] \in Nat
    BY <1>2, <2>1, AcceptOrderGoes, AppliedGrows
  <2> QED
    BY <1>2, <2>2
<1>3. CASE p # q
  <2>1. req'[p] = req[p]
    BY <1>3, RequestFrame
  <2> QED
    BY <1>1, <2>1
<1> QED
  BY <1>1, <1>2, <1>3, LateGoes

(* The only step that resolves an issue is the last one of an acceptance.  *)
LEMMA WhoResolves ==
  ASSUME TypeOK, NEW q \in Requests, Act(q), NEW i \in Issues,
         issue'[i] # None, issue'[i].status = "RESOLVED"
  PROVE  \/ issue[i] # None /\ issue[i].status = "RESOLVED"
         \/ AcceptResolve(q) /\ i = proposal[req[q].proposal].issue
<1>1. CASE UNCHANGED issue
  BY <1>1
<1>2. ASSUME NEW j \in Issues, issue[j] # None, NEW status \in IssueStatus,
             issue' = [issue EXCEPT ![j].status = status]
      PROVE  \/ issue[i] # None /\ issue[i].status = "RESOLVED"
             \/ i = j /\ status = "RESOLVED"
  <2>1. issue[j] \in IssueRow /\ issue \in [Issues -> IssueRow \cup {None}]
    BY <1>2 DEF TypeOK, TablesOK
  <2>2. PICK row : row = [issue[j] EXCEPT !.status = status]
    OBVIOUS
  <2>3. row.status = status
    BY <2>1, <2>2 DEF IssueRow
  <2>4. issue'[i] = IF i = j THEN row ELSE issue[i]
    BY <1>2, <2>1, <2>2
  <2> QED
    BY <2>3, <2>4
<1>3. CASE CommentDiscuss(q)
  <2>1. req[q].issue \in Issues /\ issue[req[q].issue] # None
    BY <1>3, RequestOK, ShapeByOp DEF CommentDiscuss, Doing, Linked, CommentReq
  <2>2. issue' = [issue EXCEPT ![req[q].issue].status = "IN_DISCUSSION"]
    BY <1>3 DEF CommentDiscuss
  <2> QED
    BY <1>2, <2>1, <2>2 DEF IssueStatus
<1>4. CASE StatusWrite(q)
  <2>1. req[q].issue \in Issues /\ issue[req[q].issue] # None
    BY <1>4, RequestOK, ShapeByOp DEF StatusWrite, Linked, StatusReq
  <2>2. PICK status \in {"IN_DISCUSSION", "CLOSED"} :
          issue' = [issue EXCEPT ![req[q].issue].status = status]
    BY <1>4 DEF StatusWrite
  <2> QED
    BY <1>2, <2>1, <2>2 DEF IssueStatus
<1>5. CASE AcceptResolve(q)
  <2>1. /\ req[q].proposal \in Proposals /\ proposal[req[q].proposal] # None
    BY <1>5, LateRequest DEF AcceptResolve, Doing, Late
  <2>2. PICK j \in Issues : j = proposal[req[q].proposal].issue /\ issue[j] # None
    BY <2>1 DEF TypeOK, TablesOK, KeysOK, ProposalRow
  <2>3. issue' = [issue EXCEPT ![j].status = "RESOLVED"]
    BY <1>5, <2>2 DEF AcceptResolve
  <2> QED
    BY <1>2, <1>5, <2>2, <2>3 DEF IssueStatus
<1>6. CASE FlagCreate(q) \/ RunCommit(q)
  <2>1. PICK S, snap : issue' = IssuesFor(S, snap)
    BY <1>6 DEF FlagCreate, RunCommit
  <2>2. \/ issue'[i] = issue[i]
        \/ \E o : issue'[i] = [order |-> o, status |-> "OPEN", snap |-> snap[o]]
    BY <2>1 DEF IssuesFor
  <2>3. ASSUME NEW o, issue'[i] = [order |-> o, status |-> "OPEN",
                                   snap |-> snap[o]]
        PROVE  issue'[i].status = "OPEN"
    BY <2>3
  <2> QED
    BY <2>2, <2>3
<1> QED
  BY <1>1, <1>3, <1>4, <1>5, <1>6, WhoIssues

LEMMA ResolvedStep ==
  ASSUME TypeOK, AppliedLate, ResolvedMeansApplied, NEW q \in Requests, Act(q)
  PROVE  ResolvedMeansApplied'
<1> SUFFICES ASSUME NEW i \in Issues, issue'[i] # None,
                    issue'[i].status = "RESOLVED"
             PROVE  \E c \in Proposals : /\ proposal'[c] # None
                                         /\ proposal'[c].issue = i
                                         /\ hist'.applied[c] > 0
  BY DEF ResolvedMeansApplied
<1>1. ProposalsGo
  BY ActTyped DEF Moved
<1>2. ASSUME NEW c \in Proposals, proposal[c] # None, proposal[c].issue = i,
             hist.applied[c] > 0
      PROVE  /\ proposal'[c] # None /\ proposal'[c].issue = i
             /\ hist'.applied[c] > 0
  BY <1>1, <1>2, AppliedGrows DEF ProposalsGo
<1>3. CASE issue[i] # None /\ issue[i].status = "RESOLVED"
  BY <1>2, <1>3 DEF ResolvedMeansApplied
<1>4. CASE AcceptResolve(q) /\ i = proposal[req[q].proposal].issue
  <2>1. Late(req[q])
    BY <1>4 DEF AcceptResolve, Doing, Late
  <2>2. PICK c \in Proposals : c = req[q].proposal /\ proposal[c] # None
    BY <2>1, LateRequest
  <2>3. hist.applied[c] > 0
    BY <2>1, <2>2 DEF AppliedLate
  <2> QED
    BY <1>2, <1>4, <2>2, <2>3
<1> QED
  BY <1>3, <1>4, WhoResolves

Resolving == AppliedLate /\ ResolvedMeansApplied

LEMMA InitResolving == Init => Resolving
<1> SUFFICES ASSUME Init PROVE ResolvedMeansApplied
  BY InitApplying DEF Resolving
<1>1. PICK s \in Scenes[scene].starts : issue = s.issue
  BY DEF Init
<1>2. \A i \in Issues : issue[i] # None => issue[i].status # "RESOLVED"
  BY <1>1, FreshAssumption DEF Init
<1> QED
  BY <1>2 DEF ResolvedMeansApplied

LEMMA ResolvingStep ==
  ASSUME Reached, Resolving, [(Next /\ Heard) \/ PageStep]_pvars PROVE Resolving'
<1>1. ASSUME UNCHANGED vars \/ NewDay \/ Lapse PROVE Resolving'
  BY <1>1, NobodyActs DEF Resolving, AppliedLate, Late, ResolvedMeansApplied
<1>2. ASSUME NEW q \in Requests, Act(q) PROVE Resolving'
  BY <1>2, AppliedLateStep, ResolvedStep DEF Reached, Resolving
<1> QED
  BY <1>1, <1>2, WhoActs DEF Reached, Fine, PageOK

-------------------------------------------------------------------------------
(* Open issues.  Of an order that was not crossed one issue is open at     *)
(* most, and none while a request is about to create one: that is the only *)
(* request that is.                                                        *)
Open(i) == issue[i] # None /\ ~Ended(i)
OneOpen ==
  \A i, j \in Issues :
    /\ Open(i) /\ Open(j) /\ issue[i].order = issue[j].order
    /\ issue[i].order \notin hist.crossed
    => i = j
Creating(q, o) == Doing(q, "flag", "create") /\ req[q].order = o
FlagsAlone ==
  \A q \in Requests, o \in Orders \ hist.crossed : Creating(q, o) =>
    /\ OpenIssues(o) = {}
    /\ \A p \in Requests : Creating(p, o) => p = q
Opening == OneOpen /\ FlagsAlone

LEMMA OpenIs ==
  ASSUME TypeOK, NEW o \in Orders
  PROVE  OpenIssues(o) = {i \in Issues : Open(i) /\ issue[i].order = o}
<1>1. \A i \in Issues : issue[i] # None =>
        issue[i].status \in {"OPEN", "IN_DISCUSSION", "RESOLVED", "CLOSED"}
  BY DEF TypeOK, TablesOK, IssueRow, IssueStatus
<1> QED
  BY <1>1 DEF OpenIssues, Open, Ended

(* The orders of S get one issue each.                                     *)
LEMMA IssuesForOnce ==
  ASSUME NEW S, NEW snap, issue' = IssuesFor(S, snap),
         NEW i \in Issues, NEW j \in Issues,
         issue[i] = None, issue[j] = None, issue'[i] # None, issue'[j] # None,
         issue'[i].order = issue'[j].order
  PROVE  i = j
<1> DEFINE below(k) == {f \in FreeIssues : f < k}
           nth(o) == Cardinality({p \in S : p < o})
<1>1. ASSUME NEW k \in Issues, issue[k] = None, issue'[k] # None
      PROVE  nth(issue'[k].order) = Cardinality(below(k))
  <2> DEFINE taken == {o \in S : nth(o) = Cardinality(below(k))}
  <2>1. issue'[k] = IF k \in FreeIssues /\ taken # {}
                    THEN LET o == CHOOSE o \in taken : TRUE IN
                         [order |-> o, status |-> "OPEN", snap |-> snap[o]]
                    ELSE issue[k]
    BY DEF IssuesFor
  <2>2. PICK o \in taken :
          issue'[k] = [order |-> o, status |-> "OPEN", snap |-> snap[o]]
    BY <1>1, <2>1
  <2> QED
    BY <2>2
<1>2. ASSUME NEW k \in Issues, NEW l \in Issues, issue[k] = None, k < l
      PROVE  Cardinality(below(k)) # Cardinality(below(l))
  <2>1. IsFiniteSet(Issues)
    BY FS_Interval, StoreAssumption DEF Issues
  <2>2. IsFiniteSet(below(k)) /\ IsFiniteSet(below(l))
    BY <2>1, FS_Subset DEF FreeIssues
  <2>3. k \notin below(k) /\ below(k) \cup {k} \subseteq below(l)
    BY <1>2, StoreAssumption DEF FreeIssues, Issues
  <2>4. Cardinality(below(k) \cup {k}) = Cardinality(below(k)) + 1
    BY <2>2, <2>3, FS_AddElement
  <2>5. Cardinality(below(k) \cup {k}) <= Cardinality(below(l))
    BY <2>2, <2>3, FS_Subset
  <2>6. Cardinality(below(k)) \in Nat /\ Cardinality(below(l)) \in Nat
    BY <2>2, FS_CardinalityType
  <2> QED
    BY <2>4, <2>5, <2>6
<1>3. Cardinality(below(i)) = Cardinality(below(j))
  BY <1>1
<1>4. i \in Int /\ j \in Int
  BY DEF Issues
<1> QED
  BY <1>2, <1>3, <1>4

(* The status of one issue is written.                                     *)
LEMMA IssueStatusIs ==
  ASSUME TypeOK, NEW j \in Issues, issue[j] # None, NEW status,
         issue' = [issue EXCEPT ![j].status = status]
  PROVE  /\ \A i \in Issues \ {j} : issue'[i] = issue[i]
         /\ issue'[j].status = status /\ issue'[j].order = issue[j].order
<1>1. issue[j] \in IssueRow /\ issue \in [Issues -> IssueRow \cup {None}]
  BY DEF TypeOK, TablesOK
<1>2. PICK row : row = [issue[j] EXCEPT !.status = status]
  OBVIOUS
<1>3. row.status = status /\ row.order = issue[j].order
  BY <1>1, <1>2 DEF IssueRow
<1>4. \A i \in Issues : issue'[i] = IF i = j THEN row ELSE issue[i]
  BY <1>1, <1>2
<1> QED
  BY <1>3, <1>4

LEMMA CrossedIs ==
  ASSUME TypeOK, NEW S, hist' = Crossed(hist, S)
  PROVE  hist'.crossed = hist.crossed \cup S
  BY DEF TypeOK, HistoryOK, HistoryRow, Crossed

(* The rows that a commit creates.                                         *)
LEMMA CommitIssues ==
  ASSUME TypeOK, NEW q \in Requests, RunCommit(q),
         NEW i \in Issues, issue[i] = None, issue'[i] # None,
         issue'[i].order \notin hist'.crossed
  PROVE  /\ OpenIssues(issue'[i].order) = {}
         /\ ~Flagging(issue'[i].order)
<1>1. PICK S, snap :
        /\ issue' = IssuesFor(S, snap)
        /\ \A o \in S : OpenIssues(o) = {}
        /\ hist' = Crossed(hist, {o \in S : Flagging(o)})
  BY DEF RunCommit
<1>2. \/ issue'[i] = issue[i]
      \/ \E o \in S : issue'[i] = [order |-> o, status |-> "OPEN",
                                   snap |-> snap[o]]
  BY <1>1 DEF IssuesFor
<1>3. PICK o \in S : issue'[i] = [order |-> o, status |-> "OPEN",
                                  snap |-> snap[o]]
  BY <1>2
<1>4. issue'[i].order = o
  BY <1>3
<1>5. ~Flagging(o)
  BY <1>1, <1>4, CrossedIs
<1> QED
  BY <1>1, <1>4, <1>5

LEMMA FlagIssues ==
  ASSUME TypeOK, NEW q \in Requests, FlagCreate(q),
         NEW i \in Issues, issue[i] = None, issue'[i] # None
  PROVE  issue'[i].order = req[q].order
<1>1. \/ issue'[i] = issue[i]
      \/ \E s : issue'[i] = [order |-> req[q].order, status |-> "OPEN", snap |-> s]
  BY DEF FlagCreate, IssuesFor
<1>2. PICK s : issue'[i] = [order |-> req[q].order, status |-> "OPEN", snap |-> s]
  BY <1>1
<1> QED
  BY <1>2

(* An issue is open that was open before, or it is new: the issue of a     *)
(* cancellation request, or of a failed order that had none.               *)
LEMMA OpenGoes ==
  ASSUME TypeOK, NEW q \in Requests, Act(q), NEW i \in Issues, Open(i)',
         issue'[i].order \notin hist'.crossed
  PROVE  \/ Open(i) /\ issue'[i].order = issue[i].order
         \/ /\ issue[i] = None /\ FlagCreate(q)
            /\ issue'[i].order = req[q].order
         \/ /\ issue[i] = None /\ RunCommit(q)
            /\ OpenIssues(issue'[i].order) = {}
            /\ ~Flagging(issue'[i].order)
<1>1. issue'[i] # None /\ issue'[i].status \notin {"RESOLVED", "CLOSED"}
  BY DEF Open, Ended
<1>2. CASE issue'[i] = issue[i]
  BY <1>1, <1>2 DEF Open, Ended
<1>3. CASE CommentDiscuss(q)
  <2>1. PICK j \in Issues : j = req[q].issue /\ issue[j] # None
    BY <1>3, RequestOK, ShapeByOp DEF CommentDiscuss, Doing, Linked, CommentReq
  <2>2. issue' = [issue EXCEPT ![j].status = "IN_DISCUSSION"]
        /\ (Ended(j) => hist' = Crossed(hist, {issue[j].order}))
    BY <1>3, <2>1 DEF CommentDiscuss
  <2>3. CASE i = j
    <3>1. issue'[i].order = issue[i].order
      BY <2>1, <2>2, <2>3, IssueStatusIs
    <3>2. ~Ended(j)
      BY <2>2, <2>3, <3>1, CrossedIs
    <3> QED
      BY <2>1, <2>3, <3>1, <3>2 DEF Open
  <2>4. CASE i # j
    BY <1>2, <2>1, <2>2, <2>4, IssueStatusIs
  <2> QED
    BY <2>3, <2>4
<1>4. CASE StatusWrite(q)
  <2>1. PICK j \in Issues : j = req[q].issue /\ issue[j] # None
    BY <1>4, RequestOK, ShapeByOp DEF StatusWrite, Linked, StatusReq
  <2>2. \/ issue' = [issue EXCEPT ![j].status = "CLOSED"]
        \/ /\ issue' = [issue EXCEPT ![j].status = "IN_DISCUSSION"]
           /\ hist' = Crossed(hist, {issue[j].order})
    BY <1>4, <2>1 DEF StatusWrite
  <2>3. i # j
    BY <1>1, <2>1, <2>2, IssueStatusIs, CrossedIs
  <2> QED
    BY <1>2, <2>1, <2>2, <2>3, IssueStatusIs
<1>5. CASE AcceptResolve(q)
  <2>1. req[q].proposal \in Proposals /\ proposal[req[q].proposal] # None
    BY <1>5, LateRequest DEF AcceptResolve, Doing, Late
  <2>2. PICK j \in Issues : j = proposal[req[q].proposal].issue /\ issue[j] # None
    BY <2>1 DEF TypeOK, TablesOK, KeysOK, ProposalRow
  <2>3. issue' = [issue EXCEPT ![j].status = "RESOLVED"]
    BY <1>5, <2>2 DEF AcceptResolve
  <2>4. i # j
    BY <1>1, <2>2, <2>3, IssueStatusIs
  <2> QED
    BY <1>2, <2>2, <2>3, <2>4, IssueStatusIs
<1>6. CASE FlagCreate(q) \/ RunCommit(q)
  <2>1. issue[i] # None => issue'[i] = issue[i]
    BY <1>6 DEF FlagCreate, RunCommit, IssuesFor, FreeIssues
  <2> QED
    BY <1>1, <1>2, <1>6, <2>1, FlagIssues, CommitIssues
<1>7. CASE UNCHANGED issue
  BY <1>2, <1>7
<1> QED
  BY <1>3, <1>4, <1>5, <1>6, <1>7, WhoIssues

LEMMA FlagRequest ==
  ASSUME TypeOK, NEW q \in Requests, Doing(q, "flag", "create")
  PROVE  req[q].order \in Orders
  BY RequestOK, ShapeByOp DEF Doing, FlagReq

LEMMA OneOpenStep ==
  ASSUME TypeOK, OneOpen, FlagsAlone, NEW q \in Requests, Act(q) PROVE OneOpen'
<1> SUFFICES ASSUME NEW i \in Issues, NEW j \in Issues, Open(i)', Open(j)',
                    issue'[i].order = issue'[j].order,
                    issue'[i].order \notin hist'.crossed
             PROVE  i = j
  BY DEF OneOpen
<1>1. issue'[i] # None /\ issue'[j] # None
  BY DEF Open
<1>2. PICK o \in Orders \ hist.crossed : o = issue'[i].order
  <2>1. issue'[i] \in IssueRow
    BY <1>1, ActTyped DEF Moved, IssuesGo
  <2> QED
    BY <2>1, HistoryGrows DEF IssueRow
<1>3. CASE Open(i) /\ Open(j) /\ issue[i].order = o /\ issue[j].order = o
  BY <1>2, <1>3 DEF OneOpen
<1>4. ASSUME NEW k \in Issues, issue[k] = None,
             \/ FlagCreate(q) /\ o = req[q].order
             \/ RunCommit(q) /\ OpenIssues(o) = {}
      PROVE  \A l \in Issues : ~(Open(l) /\ issue[l].order = o)
  <2>1. OpenIssues(o) = {}
    BY <1>2, <1>4 DEF FlagsAlone, Creating, FlagCreate
  <2> QED
    BY <2>1, OpenIs
<1>5. CASE issue[i] = None /\ issue[j] = None
  <2>1. FlagCreate(q) \/ RunCommit(q)
    BY <1>1, <1>5, WhoIssues, OpenGoes DEF Open
  <2>2. PICK S, snap : issue' = IssuesFor(S, snap)
    BY <2>1 DEF FlagCreate, RunCommit
  <2> QED
    BY <1>1, <1>5, <2>2, IssuesForOnce
<1>6. /\ \/ Open(i) /\ issue[i].order = o
         \/ /\ issue[i] = None
            /\ \/ FlagCreate(q) /\ o = req[q].order
               \/ RunCommit(q) /\ OpenIssues(o) = {}
      /\ \/ Open(j) /\ issue[j].order = o
         \/ /\ issue[j] = None
            /\ \/ FlagCreate(q) /\ o = req[q].order
               \/ RunCommit(q) /\ OpenIssues(o) = {}
  BY <1>2, OpenGoes
<1> QED
  BY <1>3, <1>4, <1>5, <1>6

LEMMA FlagLookGoes ==
  ASSUME TypeOK, NEW q \in Requests, FlagLook(q), Doing(q, "flag", "create")'
  PROVE  /\ req'[q].order = req[q].order
         /\ OpenIssues(req[q].order) = {}
         /\ UNCHANGED issue
         /\ Flagging(req[q].order) => req[q].order \in hist'.crossed
<1>1. req[q] \in FlagReq
  BY RequestOK, ShapeByOp DEF FlagLook, Doing
<1>2. OpenIssues(req[q].order) = {} /\ Goto(q, "create")
  BY EndGoes DEF FlagLook, Doing
<1>3. req'[q] = [req[q] EXCEPT !.at = "create"]
  BY <1>2, GotoGoes
<1>4. req'[q].order = req[q].order
  BY <1>1, <1>3 DEF FlagReq
<1>5. Flagging(req[q].order) => hist' = Crossed(hist, {req[q].order})
  BY DEF FlagLook
<1>6. UNCHANGED issue
  BY DEF FlagLook, desk
<1> QED
  BY <1>2, <1>4, <1>5, <1>6, CrossedIs

LEMMA CreatingGoes ==
  ASSUME TypeOK, NEW q \in Requests, Act(q), NEW p \in Requests,
         NEW o \in Orders, Creating(p, o)'
  PROVE  \/ Creating(p, o)
         \/ p = q /\ FlagLook(q) /\ o = req[q].order
<1>1. CASE p # q
  <2>1. req'[p] = req[p]
    BY <1>1, RequestFrame
  <2> QED
    BY <2>1 DEF Creating, Doing
<1>2. CASE p = q
  <2>1. req'[q].op = "flag" /\ req'[q].at = "create" /\ req'[q].order = o
    BY <1>2 DEF Creating, Doing
  <2>2. CASE UNCHANGED req
    BY <1>2, <2>1, <2>2 DEF Creating, Doing
  <2>3. ASSUME NEW c \in Proposals, AcceptRead(q, c) PROVE FALSE
    BY <2>1, <2>3, BeginGoes DEF AcceptRead
  <2>4. ASSUME NEW r \in Orders, FlagRead(q, r) PROVE FALSE
    BY <2>1, <2>4, BeginGoes DEF FlagRead
  <2>5. ASSUME NEW patch, PatchRead(q, patch) PROVE FALSE
    BY <2>1, <2>5, BeginGoes DEF PatchRead
  <2>6. ~AcceptOrder(q) /\ ~AcceptMark(q) /\ ~AcceptOthersWrite(q)
    BY <2>1, GotoGoes DEF AcceptOrder, AcceptMark, AcceptOthersWrite, Doing
  <2>7. ~AcceptOthersRead(q)
    <3> SUFFICES ASSUME AcceptOthersRead(q) PROVE FALSE
      OBVIOUS
    <3>1. req[q] \in AcceptReq
      BY RequestOK, ShapeByOp DEF AcceptOthersRead, Doing
    <3>2. PICK S : req' = [req EXCEPT ![q].others = S, ![q].at = "outdate"]
      BY DEF AcceptOthersRead
    <3>3. req'[q].at = "outdate"
      BY <3>1, <3>2 DEF AcceptReq, TypeOK, RequestsOK
    <3> QED
      BY <2>1, <3>3
  <2>8. CASE FlagLook(q)
    BY <1>2, <2>1, <2>8, FlagLookGoes DEF Doing
  <2> QED
    BY <2>1, <2>2, <2>3, <2>4, <2>5, <2>6, <2>7, <2>8, Special
<1> QED
  BY <1>1, <1>2

LEMMA FlagsAloneStep ==
  ASSUME TypeOK, FlagsAlone, NEW q \in Requests, Act(q) PROVE FlagsAlone'
<1> SUFFICES ASSUME NEW p \in Requests, NEW o \in Orders \ hist'.crossed,
                    Creating(p, o)'
             PROVE  /\ (OpenIssues(o) = {})'
                    /\ \A s \in Requests : Creating(s, o)' => s = p
  BY DEF FlagsAlone
<1>1. o \in Orders \ hist.crossed
  BY HistoryGrows
<1>2. (\A i \in Issues : ~(Open(i)' /\ issue'[i].order = o))
      => (OpenIssues(o) = {})'
  BY DEF OpenIssues, Open, Ended
<1>3. CASE Creating(p, o)
  <2>1. /\ OpenIssues(o) = {} /\ Flagging(o)
        /\ \A s \in Requests : Creating(s, o) => s = p
    BY <1>1, <1>3 DEF FlagsAlone, Creating, Flagging
  <2>2. ASSUME NEW i \in Issues, Open(i)', issue'[i].order = o PROVE FALSE
    <3>1. CASE Open(i) /\ issue[i].order = o
      BY <1>1, <2>1, <3>1, OpenIs
    <3>2. CASE FlagCreate(q) /\ o = req[q].order
      <4>1. q = p
        BY <2>1, <3>2 DEF Creating, FlagCreate
      <4>2. req'[q].op = "idle"
        BY <3>2, EndGoes DEF FlagCreate
      <4> QED
        BY <4>1, <4>2 DEF Creating, Doing
    <3> QED
      BY <2>1, <2>2, <3>1, <3>2, OpenGoes
  <2>3. ASSUME NEW s \in Requests, Creating(s, o)' PROVE s = p
    <3>1. CASE Creating(s, o)
      BY <2>1, <3>1
    <3>2. CASE s = q /\ FlagLook(q) /\ o = req[q].order
      <4>1. Doing(q, "flag", "create")'
        BY <2>3, <3>2 DEF Creating
      <4> QED
        BY <2>1, <3>2, <4>1, FlagLookGoes
    <3> QED
      BY <2>3, <3>1, <3>2, CreatingGoes
  <2> QED
    BY <1>2, <2>2, <2>3
<1>4. CASE p = q /\ FlagLook(q) /\ o = req[q].order
  <2>1. Doing(q, "flag", "create")'
    BY <1>4 DEF Creating
  <2>2. /\ OpenIssues(o) = {} /\ UNCHANGED issue
        /\ Flagging(o) => o \in hist'.crossed
    BY <1>4, <2>1, FlagLookGoes
  <2>3. (OpenIssues(o) = {})'
    BY <2>2 DEF OpenIssues
  <2>4. ASSUME NEW s \in Requests, Creating(s, o)' PROVE s = p
    <3>1. ~Creating(s, o)
      BY <2>2 DEF Flagging, Creating
    <3> QED
      BY <1>4, <2>4, <3>1, CreatingGoes
  <2> QED
    BY <2>3, <2>4
<1> QED
  BY <1>3, <1>4, CreatingGoes

LEMMA InitOpening == Init => Opening
<1> SUFFICES ASSUME Init PROVE Opening
  OBVIOUS
<1>1. PICK s \in Scenes[scene].starts : issue = s.issue
  BY DEF Init
<1>2. \A i, j \in Issues :
        /\ issue[i] # None /\ issue[i].status # "CLOSED"
        /\ issue[j] # None /\ issue[j].status # "CLOSED"
        /\ issue[i].order = issue[j].order
        => i = j
  BY <1>1, FreshAssumption DEF Init
<1>3. OneOpen
  BY <1>2 DEF OneOpen, Open, Ended
<1>4. \A q \in Requests : req[q].op = "idle"
  BY DEF Init, Idle
<1> QED
  BY <1>3, <1>4 DEF Opening, FlagsAlone, Creating, Doing

LEMMA OpeningStep ==
  ASSUME Reached, Opening, [(Next /\ Heard) \/ PageStep]_pvars PROVE Opening'
<1>1. ASSUME UNCHANGED vars \/ NewDay \/ Lapse PROVE Opening'
  BY <1>1, NobodyActs DEF Opening, OneOpen, FlagsAlone, Open, Ended, Creating,
     Doing, OpenIssues
<1>2. ASSUME NEW q \in Requests, Act(q) PROVE Opening'
  BY <1>2, OneOpenStep, FlagsAloneStep DEF Reached, Opening
<1> QED
  BY <1>1, <1>2, WhoActs DEF Reached, Fine, PageOK

LEMMA OpeningCounts ==
  ASSUME TypeOK, Opening PROVE NoDuplicateOpenIssue
<1> SUFFICES ASSUME NEW o \in Orders \ hist.crossed
             PROVE  Cardinality({i \in Issues : /\ issue[i] # None
                                                /\ issue[i].order = o
                                                /\ ~Ended(i)}) <= 1
  BY DEF NoDuplicateOpenIssue
<1> DEFINE D == {i \in Issues : /\ issue[i] # None /\ issue[i].order = o
                                /\ ~Ended(i)}
<1>1. \A i, j \in D : i = j
  BY DEF Opening, OneOpen, Open
<1>2. D = {} \/ \E i : D = {i}
  BY <1>1
<1>3. Cardinality(D) <= 1
  <2>1. ASSUME D = {} PROVE Cardinality(D) = 0
    BY <2>1, FS_EmptySet
  <2>2. ASSUME NEW i, D = {i} PROVE Cardinality(D) = 1
    BY <2>2, FS_Singleton
  <2> QED
    BY <1>2, <2>1, <2>2
<1> QED
  BY <1>3

-------------------------------------------------------------------------------
(* Time.  In real time every piece of work is on time, and a revert that   *)
(* is about to be made has a date that has come.                           *)
OnTime(w, date) ==
  /\ w.status = "IN_PRODUCTION" => w.day <= date
  /\ w.status = "COMPLETED" => w.day + ProductionDays <= date
AllOnTime == \A i \in Works : work[i] # None => OnTime(work[i], today)
Reverting(q) == Doing(q, "patch", "revert")
RevertsToday == \A q \in Requests : Reverting(q) => req[q].date <= today
Timely == RevertsToday /\ (~sim.on /\ ~hist.skewed => AllOnTime)

LEMMA WhoMovesTime ==
  ASSUME TypeOK, NEW q \in Requests, Act(q)
  PROVE  /\ UNCHANGED today
         /\ \/ UNCHANGED sim
            \/ PatchPlain(q) \/ Advance(q) \/ PatchRevert(q)
<1>1. PageRead(q) \/ (\E o \in Orders : FlagRead(q, o)) => UNCHANGED clock
  BY DEF PageRead, StatusRead, AcceptRead, RejectRead, CommentRead, FlagRead
<1>2. OrderBegin(q) \/ ProductionBegin(q) \/ Die(q) => UNCHANGED clock
  BY DEF OrderBegin, CreateOrder, SalesRead, AdminRead, DeleteRead,
         ProductionBegin, RunBegin, AutoBegin, DailyBegin, PatchRead, Die, clock
<1>3. OrderStep(q) \/ IssueStep(q) => UNCHANGED clock
  BY DEF OrderStep, UpdateOrder, CancelOrder, IssueStep, CommentCreate,
         CommentDiscuss, AcceptStale, AcceptOrder, AcceptMark, AcceptOthersRead,
         AcceptOthersWrite, AcceptResolve, RejectWrite, CancelFromIssue,
         StatusWrite, FlagLook, FlagCreate
<1>4. ProductionStep(q) => \/ UNCHANGED clock
                           \/ /\ UNCHANGED today
                              /\ PatchPlain(q) \/ Advance(q) \/ PatchRevert(q)
  BY DEF ProductionStep, RunPlan, RunCommit, AutoDate, DailyDate, PatchPlain,
         Advance, PatchRevert, clock
<1> QED
  BY <1>1, <1>2, <1>3, <1>4 DEF Act, Step, clock

LEMMA WhoWorks ==
  ASSUME TypeOK, NEW q \in Requests, Act(q)
  PROVE  \/ UNCHANGED work
         \/ CancelFromIssue(q) \/ CancelOrder(q) \/ RunCommit(q)
         \/ Advance(q) \/ PatchRevert(q)
<1>1. PageRead(q) \/ (\E o \in Orders : FlagRead(q, o)) => UNCHANGED schedule
  BY DEF PageRead, StatusRead, AcceptRead, RejectRead, CommentRead, FlagRead
<1>2. OrderBegin(q) \/ ProductionBegin(q) \/ Die(q) => UNCHANGED schedule
  BY DEF OrderBegin, CreateOrder, SalesRead, AdminRead, DeleteRead,
         ProductionBegin, RunBegin, AutoBegin, DailyBegin, PatchRead, Die
<1>3. OrderStep(q) => UNCHANGED schedule \/ CancelOrder(q)
  BY DEF OrderStep, UpdateOrder
<1>4. IssueStep(q) => UNCHANGED schedule \/ CancelFromIssue(q)
  BY DEF IssueStep, CommentCreate, CommentDiscuss, AcceptStale, AcceptOrder,
         AcceptMark, AcceptOthersRead, AcceptOthersWrite, AcceptResolve,
         RejectWrite, StatusWrite, FlagLook, FlagCreate
<1>5. ProductionStep(q) => \/ UNCHANGED schedule
                           \/ RunCommit(q) \/ Advance(q) \/ PatchRevert(q)
  BY DEF ProductionStep, RunPlan, AutoDate, DailyDate, PatchPlain
<1> QED
  BY <1>1, <1>2, <1>3, <1>4, <1>5 DEF Act, Step, schedule

(* Cancelling and scheduling start nothing.                                *)
LEMMA WorkOnTime ==
  ASSUME TypeOK, NEW q \in Requests,
         CancelFromIssue(q) \/ CancelOrder(q) \/ RunCommit(q),
         NEW i \in Works, work'[i] # None, work'[i] # work[i]
  PROVE  work'[i].status \in {"SCHEDULED", "CANCELLED"}
<1>1. CASE CancelFromIssue(q) \/ CancelOrder(q)
  <2>1. \/ work'[i] = work[i]
        \/ work[i] # None /\ work'[i] = [work[i] EXCEPT !.status = "CANCELLED"]
    BY <1>1 DEF CancelFromIssue, CancelOrder, CancelTx, schedule
  <2>2. work[i] # None => work[i] \in StoredWork
    BY DEF TypeOK, TablesOK
  <2> QED
    BY <2>1, <2>2 DEF StoredWork
<1>2. CASE RunCommit(q)
  <2>1. PICK deleted, new : work' = WorkWithout(deleted, new)
    BY <1>2 DEF RunCommit
  <2>2. PICK d : work'[i] = [order |-> d.order, factory |-> d.factory,
                             day |-> d.day, qty |-> d.qty,
                             status |-> "SCHEDULED"]
    BY <2>1, WorkWithoutRows
  <2> QED
    BY <2>2
<1> QED
  BY <1>1, <1>2

LEMMA WorkRows ==
  ASSUME TypeOK, NEW i \in Works, work[i] # None
  PROVE  /\ work[i] \in StoredWork /\ work[i].day \in Int
         /\ \A status :
              /\ [work[i] EXCEPT !.status = status].status = status
              /\ [work[i] EXCEPT !.status = status].day = work[i].day
<1>1. work[i] \in StoredWork
  BY DEF TypeOK, TablesOK
<1>2. Calendar \subseteq Int
  BY DEF Calendar
<1> QED
  BY <1>1, <1>2 DEF StoredWork

LEMMA AdvancedOnTime ==
  ASSUME TypeOK, AllOnTime, NEW date \in Int, date <= today,
         NEW i \in Works, work[i] # None
  PROVE  OnTime(Advanced(date)[i], today)
<1>1. OnTime(work[i], today)
  BY DEF AllOnTime
<1>2. /\ work[i].day \in Int /\ today \in Int /\ ProductionDays \in Nat
  BY WorkRows, StrategyAssumption DEF TypeOK, ClockOK
<1>3. CASE i \in Completing(date)
  <2>1. work[i].day + ProductionDays <= date
    BY <1>3 DEF Completing, Completion
  <2>2. i \notin Starting(date)
    BY <1>2, <2>1 DEF Starting, Completion
  <2>3. Advanced(date)[i] = [work[i] EXCEPT !.status = "COMPLETED"]
    BY <1>3, <2>2 DEF Advanced
  <2> QED
    BY <1>2, <2>1, <2>3, WorkRows DEF OnTime
<1>4. CASE i \in Starting(date) /\ i \notin Completing(date)
  <2>1. Advanced(date)[i] = [work[i] EXCEPT !.status = "IN_PRODUCTION"]
    BY <1>4 DEF Advanced
  <2>2. work[i].day <= date
    BY <1>4 DEF Starting
  <2> QED
    BY <1>2, <2>1, <2>2, WorkRows DEF OnTime
<1>5. CASE i \notin Starting(date) /\ i \notin Completing(date)
  BY <1>1, <1>5 DEF Advanced
<1> QED
  BY <1>3, <1>4, <1>5

LEMMA RevertedOnTime ==
  ASSUME TypeOK, NEW date \in Int, date <= today,
         NEW i \in Works, work[i] # None
  PROVE  OnTime(Reverted(date)[i], today)
<1>1. /\ work[i].day \in Int /\ today \in Int /\ ProductionDays \in Nat
  BY WorkRows, StrategyAssumption DEF TypeOK, ClockOK
<1>2. CASE work[i].status \notin {"IN_PRODUCTION", "COMPLETED"}
  BY <1>2 DEF Reverted, OnTime
<1>3. CASE work[i].status \in {"IN_PRODUCTION", "COMPLETED"} /\ work[i].day > date
  <2>1. Reverted(date)[i] = [work[i] EXCEPT !.status = "SCHEDULED"]
    BY <1>3 DEF Reverted
  <2> QED
    BY <2>1, WorkRows DEF OnTime
<1>4. CASE /\ work[i].status = "COMPLETED" /\ ~(work[i].day > date)
           /\ Completion(i) > date
  <2>1. Reverted(date)[i] = [work[i] EXCEPT !.status = "IN_PRODUCTION"]
    BY <1>4 DEF Reverted
  <2> QED
    BY <1>1, <1>4, <2>1, WorkRows DEF OnTime
<1>5. CASE /\ work[i].status \in {"IN_PRODUCTION", "COMPLETED"}
           /\ ~(work[i].day > date)
           /\ ~(work[i].status = "COMPLETED" /\ Completion(i) > date)
  <2>1. Reverted(date)[i] = work[i]
    BY <1>5 DEF Reverted
  <2> QED
    BY <1>1, <1>5, <2>1 DEF OnTime, Completion
<1> QED
  BY <1>2, <1>3, <1>4, <1>5

LEMMA AdvanceSkews ==
  ASSUME TypeOK, NEW q \in Requests, Advance(q), ~sim'.on, ~hist'.skewed
  PROVE  /\ ~sim.on
         /\ \/ UNCHANGED work
            \/ /\ req[q].date \in Int /\ req[q].date <= today
               /\ work' = Advanced(req[q].date)
<1>1. CASE UNCHANGED <<work, sim>>
  BY <1>1
<1>2. CASE ~UNCHANGED <<work, sim>>
  <2>1. PICK S, b : /\ hist' = [hist EXCEPT !.astray = S, !.skewed = @ \/ b]
                    /\ b = (~sim'.on /\ (sim.on \/ req[q].date > today))
                    /\ work' = Advanced(req[q].date)
    BY <1>2 DEF Advance
  <2>2. hist'.skewed = (hist.skewed \/ b)
    BY <2>1 DEF TypeOK, HistoryOK, HistoryRow
  <2>3. ~sim.on /\ ~(req[q].date > today)
    BY <2>1, <2>2
  <2>4. CASE req[q].op = "daily"
    <3>1. req[q].date \in Int
      BY <2>4, RequestOK, ShapeByOp DEF Advance, DailyReq
    <3> QED
      BY <2>1, <2>3, <3>1 DEF TypeOK, ClockOK
  <2>5. CASE req[q].op = "patch"
    <3>1. req[q].date \in Int
      BY <2>5, RequestOK, ShapeByOp DEF Advance, SwitchReq
    <3> QED
      BY <2>1, <2>3, <3>1 DEF TypeOK, ClockOK
  <2> QED
    BY <2>4, <2>5 DEF Advance
<1> QED
  BY <1>1, <1>2

LEMMA OnTimeStep ==
  ASSUME TypeOK, Timely, NEW q \in Requests, Act(q), ~sim'.on, ~hist'.skewed
  PROVE  AllOnTime'
<1>1. today' = today
  BY WhoMovesTime
<1>2. ~hist.skewed
  BY HistoryGrows
<1>3. ASSUME ~sim.on, NEW i \in Works, work'[i] # None, work'[i] = work[i]
      PROVE  OnTime(work'[i], today)
  BY <1>2, <1>3 DEF Timely, AllOnTime
<1>4. CASE PatchRevert(q)
  <2>1. req[q].date <= today /\ req[q].date \in Int
    BY <1>4, RequestOK, ShapeByOp DEF Timely, RevertsToday, Reverting, PatchRevert,
       Doing, SwitchReq
  <2>2. work' = Reverted(req[q].date)
    BY <1>4 DEF PatchRevert
  <2>3. ASSUME NEW i \in Works, work'[i] # None PROVE OnTime(work'[i], today)
    <3>1. work[i] # None
      BY <2>2, <2>3 DEF Reverted
    <3> QED
      BY <2>1, <2>2, <3>1, RevertedOnTime
  <2> QED
    BY <1>1, <2>3 DEF AllOnTime
<1>5. CASE Advance(q)
  <2>1. ~sim.on
    BY <1>5, AdvanceSkews
  <2>2. CASE UNCHANGED work
    BY <1>1, <1>3, <2>1, <2>2 DEF AllOnTime
  <2>3. CASE /\ req[q].date \in Int /\ req[q].date <= today
             /\ work' = Advanced(req[q].date)
    <3>1. AllOnTime
      BY <1>2, <2>1 DEF Timely
    <3>2. ASSUME NEW i \in Works, work'[i] # None PROVE OnTime(work'[i], today)
      <4>1. work[i] # None
        BY <2>3, <3>2 DEF Advanced, Completing, Starting
      <4> QED
        BY <2>3, <3>1, <4>1, AdvancedOnTime
    <3> QED
      BY <1>1, <3>2 DEF AllOnTime
  <2> QED
    BY <1>5, <2>2, <2>3, AdvanceSkews
<1>6. CASE PatchPlain(q)
  <2>1. hist'.skewed = (hist.skewed \/ (sim.on /\ ~sim'.on))
    BY <1>6 DEF PatchPlain, TypeOK, HistoryOK, HistoryRow
  <2>2. ~sim.on /\ work' = work
    BY <1>6, <2>1 DEF PatchPlain, schedule
  <2> QED
    BY <1>1, <1>3, <2>2 DEF AllOnTime
<1>7. CASE UNCHANGED sim /\ ~Advance(q) /\ ~PatchRevert(q)
  <2>1. ~sim.on
    BY <1>7
  <2>2. ASSUME NEW i \in Works, work'[i] # None PROVE OnTime(work'[i], today)
    <3>1. CASE work'[i] = work[i]
      BY <1>3, <2>1, <2>2, <3>1
    <3>2. CASE work'[i] # work[i]
      <4>1. work'[i].status \in {"SCHEDULED", "CANCELLED"}
        BY <1>7, <2>2, <3>2, WhoWorks, WorkOnTime
      <4> QED
        BY <4>1 DEF OnTime
    <3> QED
      BY <3>1, <3>2
  <2> QED
    BY <1>1, <2>2 DEF AllOnTime
<1> QED
  BY <1>4, <1>5, <1>6, <1>7, WhoMovesTime

LEMMA RevertsTodayStep ==
  ASSUME TypeOK, RevertsToday, NEW q \in Requests, Act(q) PROVE RevertsToday'
<1> SUFFICES ASSUME NEW p \in Requests, Reverting(p)'
             PROVE  req'[p].date <= today'
  BY DEF RevertsToday
<1>1. today' = today
  BY WhoMovesTime
<1>2. CASE req'[p] = req[p]
  <2>1. Reverting(p)
    BY <1>2 DEF Reverting, Doing
  <2> QED
    BY <1>1, <1>2, <2>1 DEF RevertsToday
<1>3. CASE p = q
  <2>1. req'[q].op = "patch" /\ req'[q].at = "revert"
    BY <1>3 DEF Reverting, Doing
  <2>2. ASSUME NEW c \in Proposals, AcceptRead(q, c) PROVE FALSE
    BY <2>1, <2>2, BeginGoes DEF AcceptRead
  <2>3. ASSUME NEW o \in Orders, FlagRead(q, o) PROVE FALSE
    BY <2>1, <2>3, BeginGoes DEF FlagRead
  <2>4. ~AcceptOrder(q) /\ ~AcceptMark(q) /\ ~AcceptOthersWrite(q)
    BY <2>1, GotoGoes DEF AcceptOrder, AcceptMark, AcceptOthersWrite, Doing
  <2>5. ~AcceptOthersRead(q)
    <3> SUFFICES ASSUME AcceptOthersRead(q) PROVE FALSE
      OBVIOUS
    <3>1. req[q] \in AcceptReq
      BY RequestOK, ShapeByOp DEF AcceptOthersRead, Doing
    <3>2. PICK S : req' = [req EXCEPT ![q].others = S, ![q].at = "outdate"]
      BY DEF AcceptOthersRead
    <3>3. req'[q].at = "outdate"
      BY <3>1, <3>2 DEF AcceptReq, TypeOK, RequestsOK
    <3> QED
      BY <2>1, <3>3
  <2>6. ~FlagLook(q)
    BY <2>1, GotoGoes, EndGoes DEF FlagLook, Doing
  <2>7. ASSUME NEW patch, PatchRead(q, patch) PROVE req'[q].date = today
    <3>1. PICK at, date, asked :
            Begin(q, [op |-> "patch", at |-> at,
                      date |-> IF at = "revert" THEN today ELSE date,
                      patch |-> asked])
      BY <2>7 DEF PatchRead
    <3>2. PICK r : r = [op |-> "patch", at |-> at,
                        date |-> IF at = "revert" THEN today ELSE date,
                        patch |-> asked]
      OBVIOUS
    <3>3. req'[q] = r
      BY <3>1, <3>2, BeginGoes
    <3> QED
      BY <2>1, <3>2, <3>3
  <2>8. today \in Int
    BY DEF TypeOK, ClockOK
  <2> QED
    BY <1>1, <1>2, <1>3, <2>1, <2>2, <2>3, <2>4, <2>5, <2>6, <2>7, <2>8, Special
<1>4. CASE p # q
  BY <1>2, <1>4, RequestFrame
<1> QED
  BY <1>3, <1>4

LEMMA InitTimely == Init => Timely
<1> SUFFICES ASSUME Init PROVE Timely
  OBVIOUS
<1>1. PICK s \in Scenes[scene].starts : work = s.work
  BY DEF Init
<1>2. AllOnTime
  BY <1>1, FreshAssumption DEF Init, AllOnTime, OnTime
<1>3. \A q \in Requests : req[q].op = "idle"
  BY DEF Init, Idle
<1> QED
  BY <1>2, <1>3 DEF Timely, RevertsToday, Reverting, Doing

LEMMA TimelyStep ==
  ASSUME Reached, Timely, [(Next /\ Heard) \/ PageStep]_pvars PROVE Timely'
<1>1. ASSUME UNCHANGED vars \/ NewDay \/ Lapse PROVE Timely'
  <2>1. /\ UNCHANGED <<work, sim, req, hist>>
        /\ today' = today \/ today' = today + 1
    BY <1>1, NobodyActs
  <2>2. today \in Int
    BY DEF Reached, TypeOK, ClockOK
  <2>3. RevertsToday'
    <3> SUFFICES ASSUME NEW q \in Requests, Reverting(q)
                 PROVE  req[q].date <= today'
      BY <2>1 DEF RevertsToday, Reverting, Doing
    <3>1. req[q].date <= today /\ req[q].date \in Int
      BY RequestOK, ShapeByOp DEF Timely, RevertsToday, Reverting, Doing, SwitchReq,
         Reached
    <3> QED
      BY <2>1, <2>2, <3>1
  <2>4. AllOnTime => AllOnTime'
    <3> SUFFICES ASSUME AllOnTime, NEW i \in Works, work[i] # None
                 PROVE  OnTime(work[i], today')
      BY <2>1 DEF AllOnTime
    <3>1. OnTime(work[i], today) /\ work[i].day \in Int /\ ProductionDays \in Nat
      BY WorkRows, StrategyAssumption DEF AllOnTime, Reached
    <3> QED
      BY <2>1, <2>2, <3>1 DEF OnTime
  <2> QED
    BY <2>1, <2>3, <2>4 DEF Timely
<1>2. ASSUME NEW q \in Requests, Act(q) PROVE Timely'
  BY <1>2, OnTimeStep, RevertsTodayStep DEF Reached, Timely
<1> QED
  BY <1>1, <1>2, WhoActs DEF Reached, Fine, PageOK

-------------------------------------------------------------------------------
(* A proposal changes its order once, though the process may die between   *)
(* the write of the order and that of the proposal and the proposal be     *)
(* accepted again: only accepts that overlap can apply it twice            *)
(* (AppliedOnce; conflict-issue-service.ts:365, :444).                     *)
THEOREM ProposalAppliedOnce == Spec => []AppliedOnce
<1>1. PageInit => Reached /\ Applying
  BY InitFine, InitApplying DEF Reached, PageInit
<1>2. Reached /\ Applying /\ [(Next /\ Heard) \/ PageStep]_pvars
        => Reached' /\ Applying'
  BY ReachedStep, ApplyingStep
<1>3. Applying => AppliedOnce
  BY DEF Applying
<1> HIDE DEF Reached, Applying
<1> QED
  BY <1>1, <1>2, <1>3, PTL DEF Spec

(* An issue that is RESOLVED has a proposal that reached its order         *)
(* (ResolvedMeansApplied; conflict-issue-service.ts:444-495).              *)
THEOREM ResolvedIsApplied == Spec => []ResolvedMeansApplied
<1>1. PageInit => Reached /\ Resolving
  BY InitFine, InitApplying, InitResolving DEF Reached, PageInit
<1>2. Reached /\ Resolving /\ [(Next /\ Heard) \/ PageStep]_pvars
        => Reached' /\ Resolving'
  BY ReachedStep, ResolvingStep
<1>3. Resolving => ResolvedMeansApplied
  BY DEF Resolving
<1> HIDE DEF Reached, Resolving
<1> QED
  BY <1>1, <1>2, <1>3, PTL DEF Spec

(* An order has one open issue at most, whatever runs, cancellation        *)
(* requests and comments come together, unless two of them were creating   *)
(* one at once or an ended issue was brought back (NoDuplicateOpenIssue;   *)
(* conflict-issue-service.ts:666, :1287).                                  *)
THEOREM OneOpenIssue == Spec => []NoDuplicateOpenIssue
<1>1. PageInit => Reached /\ Opening
  BY InitFine, InitOpening DEF Reached, PageInit
<1>2. Reached /\ Opening /\ [(Next /\ Heard) \/ PageStep]_pvars
        => Reached' /\ Opening'
  BY ReachedStep, OpeningStep
<1>3. Reached /\ Opening => NoDuplicateOpenIssue
  BY OpeningCounts DEF Reached
<1> HIDE DEF Reached, Opening
<1> QED
  BY <1>1, <1>2, <1>3, PTL DEF Spec

(* In real time nothing is started or completed ahead of its day, whatever *)
(* was simulated before, unless real time was entered past the revert      *)
(* (NothingRunsEarly; daily-execution-repository.ts:151).                  *)
THEOREM NothingIsEarly == Spec => []NothingRunsEarly
<1>1. PageInit => Reached /\ Timely
  BY InitFine, InitTimely DEF Reached, PageInit
<1>2. Reached /\ Timely /\ [(Next /\ Heard) \/ PageStep]_pvars
        => Reached' /\ Timely'
  BY ReachedStep, TimelyStep
<1>3. Timely => NothingRunsEarly
  BY DEF Timely, AllOnTime, OnTime, NothingRunsEarly, Completion
<1> HIDE DEF Reached, Timely
<1> QED
  BY <1>1, <1>2, <1>3, PTL DEF Spec
-------------------------------------------------------------------------------
(* Plans.  The run that is about to write holds what it has read and the   *)
(* plan that the strategy makes of it, so that what StrategyProofs shows   *)
(* of every input holds of it.                                             *)
MadeOf(in, plan) ==
  InputFits(in) /\ StatusFits(in) /\ in.room = Room /\ plan = PlanOf(in)
PlansMade == \A q \in Planned : MadeOf(req[q].in, req[q].plan)
Planful == cap \in Lefts /\ PlansMade

LEMMA WorkSumIs ==
  ASSUME NEW I
  PROVE  WorkSum(I) = SumOf([i \in I |-> work[i].qty], I)
<1> DEFINE q == [i \in I |-> work[i].qty]
           A(g) == g = [s \in SUBSET I |->
                          IF s = {} THEN 0
                          ELSE q[CHOOSE x \in s : TRUE]
                               + g[s \ {CHOOSE x \in s : TRUE}]]
           B(g) == g = [s \in SUBSET I |->
                          IF s = {} THEN 0
                          ELSE work[CHOOSE x \in s : TRUE].qty
                               + g[s \ {CHOOSE x \in s : TRUE}]]
<1>1. ASSUME NEW g PROVE A(g) <=> B(g)
  <2>1. ASSUME NEW s \in SUBSET I, s # {}
        PROVE  q[CHOOSE x \in s : TRUE] = work[CHOOSE x \in s : TRUE].qty
    <3>1. (CHOOSE x \in s : TRUE) \in I
      BY <2>1
    <3> QED
      BY <3>1
  <2> HIDE DEF q
  <2> QED
    BY <2>1
<1>2. WorkSum(I) = (CHOOSE g : B(g))[I]
  BY DEF WorkSum, MapThenSumSet, MapThenFoldSet
<1>3. SumOf(q, I) = (CHOOSE g : A(g))[I]
  BY DEF SumOf, MapThenSumSet, MapThenFoldSet
<1> HIDE DEF A, B
<1>4. (CHOOSE g : A(g)) = (CHOOSE g : B(g))
  BY <1>1
<1> QED
  BY <1>2, <1>3, <1>4 DEF q

LEMMA WorkSumInt ==
  ASSUME TypeOK, NEW I, I \subseteq Works, \A i \in I : work[i] # None
  PROVE  WorkSum(I) \in Int /\ IsFiniteSet(I)
<1>1. IsFiniteSet(Works)
  BY FS_Interval, StoreAssumption DEF Works
<1>2. IsFiniteSet(I)
  BY <1>1, FS_Subset
<1>3. \A i \in I : work[i].qty \in Int
  BY DEF TypeOK, TablesOK, StoredWork
<1>4. \A i \in I : [k \in I |-> work[k].qty][i] \in Int
  BY <1>3
<1> QED
  BY <1>2, <1>4, WorkSumIs, SumInt

(* What prepareSchedulingData reads is what the strategy can work with.    *)
LEMMA PrepareFits ==
  ASSUME TypeOK, cap \in Lefts, NEW date \in Int, NEW asked \in Configs
  PROVE  LET in == Prepare(date, asked) IN
         InputFits(in) /\ StatusFits(in) /\ in.room = Room
<1> DEFINE in == Prepare(date, asked)
           cfg == [asked EXCEPT !.start = IF @ = None THEN Earliest(date)
                                          ELSE Larger(@, Earliest(date))]
           fetched == {o \in Orders : Exists(o) /\ ord[o].status \in
                         {"PENDING", "SCHEDULED", "IN_PRODUCTION"}}
           freed == {i \in Works :
                       /\ cfg.policy # "GAP_FILLING"
                       /\ work[i] # None /\ work[i].order \in fetched
                       /\ ~Immutable(ord[work[i].order])
                       /\ work[i].status = "SCHEDULED"
                       /\ InRange(work[i].day, cfg)}
           read == [c \in Cells |-> IF c[2] >= date THEN cap[c] ELSE None]
           row(i) == [id |-> i, factory |-> work[i].factory, day |-> work[i].day,
                      qty |-> work[i].qty]
<1>1. /\ in.rows = [o \in fetched |-> ord[o]]
      /\ in.kept = [o \in fetched |-> {row(i) : i \in WorkOf(o) \ freed}]
      /\ in.left = [c \in Cells |-> IF read[c] = None THEN None
                      ELSE read[c] + WorkSum({i \in freed : Cell(i) = c})]
      /\ in.room = Room /\ in.start = cfg.start /\ in.end = cfg.end
  BY DEF Prepare
<1>2. cfg.start \in Int /\ cfg.end \in Int \cup {None}
  <2>1. Earliest(date) \in Int
    BY StoreAssumption DEF Earliest
  <2> QED
    BY <2>1 DEF Configs, Larger
<1>3. freed \subseteq Works /\ \A i \in freed : work[i] # None
  OBVIOUS
<1>4. fetched \subseteq Orders /\ \A o \in fetched :
        ord[o] \in OrderRow
        /\ ord[o].status \in {"PENDING", "SCHEDULED", "IN_PRODUCTION"}
  BY DEF TypeOK, TablesOK, Exists
<1> HIDE DEF in, cfg, fetched, freed
<1>5. RowsFit(in.rows) /\ StatusFits(in)
  BY <1>1, <1>4 DEF RowsFit, StatusFits, OrderRow
<1>6. KeptFits(in)
  <2> SUFFICES ASSUME NEW o \in fetched
               PROVE  /\ IsFiniteSet(in.kept[o])
                      /\ \A w \in in.kept[o] : w.qty \in Int
    BY <1>1 DEF KeptFits
  <2> DEFINE I == WorkOf(o) \ freed
             f == [i \in I |-> row(i)]
             F == {row(i) : i \in I}
  <2>1. in.kept[o] = F
    BY <1>1
  <2>2. I \subseteq Works /\ \A i \in I : work[i] \in StoredWork
    BY DEF WorkOf, TypeOK, TablesOK
  <2>3. IsFiniteSet(I)
    BY <2>2, WorkSumInt, StrategyAssumption DEF WorkOf
  <2>4. f \in Surjection(I, F)
    BY DEF Surjection
  <2>5. \A w \in F : w.qty \in Int
    BY <2>2 DEF StoredWork
  <2> HIDE DEF I, f, F
  <2>6. IsFiniteSet(F)
    BY <2>3, <2>4, FS_Surjection
  <2> QED
    BY <2>1, <2>5, <2>6
<1>7. in.left \in Lefts
  <2>1. ASSUME NEW c \in Cells
        PROVE  WorkSum({i \in freed : Cell(i) = c}) \in Int
    <3>1. {i \in freed : Cell(i) = c} \subseteq freed
      OBVIOUS
    <3> QED
      BY <1>3, <3>1, WorkSumInt
  <2>2. \A c \in Cells : read[c] \in Int \cup {None}
    BY DEF Lefts
  <2> HIDE DEF read
  <2> QED
    BY <1>1, <2>1, <2>2 DEF Lefts
<1>8. in.room \in [Factories -> Int]
  BY <1>1, StoreAssumption
<1> QED
  BY <1>1, <1>2, <1>5, <1>6, <1>7, <1>8 DEF InputFits, in

LEMMA WhoWrites ==
  ASSUME TypeOK, NEW q \in Requests, Act(q)
  PROVE  /\ \/ UNCHANGED cap
            \/ CancelFromIssue(q) \/ CancelOrder(q) \/ RunCommit(q)
         /\ Planned' \subseteq Planned \cup {q}
         /\ \A p \in Planned' \ {q} : req'[p] = req[p]
<1>1. \/ UNCHANGED cap \/ CancelFromIssue(q) \/ CancelOrder(q) \/ RunCommit(q)
  <2>1. PageRead(q) \/ (\E o \in Orders : FlagRead(q, o)) => UNCHANGED schedule
    BY DEF PageRead, StatusRead, AcceptRead, RejectRead, CommentRead, FlagRead
  <2>2. OrderBegin(q) \/ ProductionBegin(q) \/ Die(q) => UNCHANGED schedule
    BY DEF OrderBegin, CreateOrder, SalesRead, AdminRead, DeleteRead,
           ProductionBegin, RunBegin, AutoBegin, DailyBegin, PatchRead, Die
  <2>3. OrderStep(q) => UNCHANGED schedule \/ CancelOrder(q)
    BY DEF OrderStep, UpdateOrder
  <2>4. IssueStep(q) => UNCHANGED schedule \/ CancelFromIssue(q)
    BY DEF IssueStep, CommentCreate, CommentDiscuss, AcceptStale, AcceptOrder,
           AcceptMark, AcceptOthersRead, AcceptOthersWrite, AcceptResolve,
           RejectWrite, StatusWrite, FlagLook, FlagCreate
  <2>5. ProductionStep(q) => UNCHANGED cap \/ RunCommit(q)
    BY DEF ProductionStep, RunPlan, AutoDate, DailyDate, PatchPlain, Advance,
           PatchRevert, schedule
  <2> QED
    BY <2>1, <2>2, <2>3, <2>4, <2>5 DEF Act, Step, schedule
<1>2. \A p \in Requests \ {q} : req'[p] = req[p]
  BY ActTyped DEF Moved, Alone
<1> QED
  BY <1>1, <1>2 DEF Planned, Doing

(* Only runPlan makes a plan.                                              *)
LEMMA WhoPlans ==
  ASSUME TypeOK, NEW q \in Requests, Act(q), q \in Planned'
  PROVE  RunPlan(q) \/ req'[q] = req[q]
<1>0. req'[q].op \in {"run", "auto"} /\ req'[q].at = "commit"
  BY DEF Planned, Doing
<1> SUFFICES ASSUME req'[q] # req[q], ~RunPlan(q) PROVE FALSE
  OBVIOUS
<1>1. req' # req
  OBVIOUS
<1>2. ~ \E at : Goto(q, at) /\ req[q].op \notin {"run", "auto"}
  BY <1>0, GotoGoes
<1>3. ~End(q)
  BY <1>0, EndGoes
<1>4. CASE PageRead(q)
  <2>1. ASSUME NEW i \in Issues, NEW op \in {"close", "reopen", "cancel"},
               StatusRead(q, i, op)
        PROVE  FALSE
    BY <1>0, <2>1, BeginGoes DEF StatusRead
  <2>2. ASSUME NEW c \in Proposals, AcceptRead(q, c) \/ RejectRead(q, c)
        PROVE  FALSE
    BY <1>0, <2>2, BeginGoes DEF AcceptRead, RejectRead
  <2>3. ASSUME NEW i \in Issues, NEW v, NEW n,
               CommentRead(q, i, v.kind, v.value, n)
        PROVE  FALSE
    BY <1>0, <2>3, BeginGoes DEF CommentRead
  <2> QED
    BY <1>4, <2>1, <2>2, <2>3 DEF PageRead
<1>5. CASE (\E o \in Orders : FlagRead(q, o)) \/ OrderBegin(q)
  <2>1. ASSUME NEW o \in Orders, FlagRead(q, o) PROVE FALSE
    BY <1>0, <2>1, BeginGoes DEF FlagRead
  <2>2. ASSUME NEW o \in Orders, NEW n, CreateOrder(q, o, n.qty, n.due)
        PROVE  FALSE
    BY <1>1, <2>2 DEF CreateOrder
  <2>3. ASSUME NEW o \in Orders, NEW patch,
               SalesRead(q, o, patch) \/ AdminRead(q, o, patch)
        PROVE  FALSE
    BY <1>0, <2>3, BeginGoes DEF SalesRead, AdminRead
  <2>4. ASSUME NEW o \in Orders, DeleteRead(q, o) PROVE FALSE
    BY <1>0, <2>4, BeginGoes DEF DeleteRead
  <2> QED
    BY <1>5, <2>1, <2>2, <2>3, <2>4 DEF OrderBegin
<1>6. CASE ProductionBegin(q)
  <2>1. ASSUME NEW cfg, RunBegin(q, cfg) PROVE FALSE
    BY <1>0, <2>1, BeginGoes DEF RunBegin
  <2>2. ASSUME AutoBegin(q) \/ DailyBegin(q) PROVE FALSE
    BY <1>0, <2>2 DEF AutoBegin, DailyBegin, CronBegin, TypeOK, RequestsOK
  <2>3. ASSUME NEW patch, PatchRead(q, patch) PROVE FALSE
    BY <1>0, <2>3, BeginGoes DEF PatchRead
  <2> QED
    BY <1>6, <2>1, <2>2, <2>3 DEF ProductionBegin
<1>7. CASE IssueStep(q)
  <2>1. CASE CommentCreate(q)
    BY <1>2, <1>3, <2>1 DEF CommentCreate, Doing
  <2>2. CASE CommentDiscuss(q) \/ AcceptStale(q) \/ AcceptResolve(q)
             \/ RejectWrite(q) \/ StatusWrite(q) \/ FlagCreate(q)
    BY <1>3, <2>2 DEF CommentDiscuss, AcceptStale, AcceptResolve, RejectWrite,
                      StatusWrite, FlagCreate
  <2>3. CASE CancelFromIssue(q) \/ AcceptOrder(q) \/ AcceptMark(q)
             \/ AcceptOthersWrite(q) \/ FlagLook(q)
    BY <1>2, <1>3, <2>3 DEF CancelFromIssue, AcceptOrder, AcceptMark,
                            AcceptOthersWrite, FlagLook, Doing
  <2>4. CASE AcceptOthersRead(q)
    BY <1>0, <2>4 DEF AcceptOthersRead, Doing, TypeOK, RequestsOK
  <2> QED
    BY <1>7, <2>1, <2>2, <2>3, <2>4 DEF IssueStep
<1>8. CASE OrderStep(q) \/ Die(q)
  BY <1>3, <1>8 DEF OrderStep, UpdateOrder, CancelOrder, Die
<1>9. CASE ProductionStep(q)
  <2>1. CASE AutoDate(q) \/ DailyDate(q)
    BY <1>0, <1>3, <2>1 DEF AutoDate, DailyDate, TypeOK, RequestsOK
  <2>2. CASE RunCommit(q) \/ PatchPlain(q) \/ Advance(q) \/ PatchRevert(q)
    BY <1>3, <2>2 DEF RunCommit, PatchPlain, Advance, PatchRevert
  <2> QED
    BY <1>9, <2>1, <2>2 DEF ProductionStep
<1> QED
  BY <1>4, <1>5, <1>6, <1>7, <1>8, <1>9 DEF Act, Step

LEMMA MadeByRun ==
  ASSUME Reached, Planful, NEW q \in Requests, RunPlan(q), req'[q] # req[q],
         q \in Planned'
  PROVE  MadeOf(req'[q].in, req'[q].plan)
<1>1. req[q] \in RunReq
  BY RequestOK, ShapeByOp DEF RunPlan, Reached
<1>2. PICK in : in = Prepare(req[q].date, req[q].cfg)
  OBVIOUS
<1>3. InputFits(in) /\ StatusFits(in) /\ in.room = Room
  BY <1>1, <1>2, PrepareFits DEF RunReq, Reached, Planful
<1>4. PICK r : r = [op |-> req[q].op, at |-> "commit", in |-> in,
                    plan |-> PlanOf(in)]
  OBVIOUS
<1>5. req' = [req EXCEPT ![q] = r] \/ End(q)
  BY <1>2, <1>4 DEF RunPlan
<1>6. ~End(q)
  BY EndGoes DEF Planned, Doing, Reached
<1>7. req'[q] = r
  BY <1>5, <1>6 DEF Reached, TypeOK, RequestsOK
<1> QED
  BY <1>3, <1>4, <1>7 DEF MadeOf

(* What is left of the cells after a cancellation or a commit.             *)
LEMMA CapacityTyped ==
  ASSUME Reached, Planful, NEW q \in Requests, Act(q)
  PROVE  cap' \in Lefts
<1>1. CASE UNCHANGED cap
  BY <1>1 DEF Planful
<1>2. CASE CancelFromIssue(q) \/ CancelOrder(q)
  <2>1. PICK S : CancelTx(S) \/ UNCHANGED cap
    BY <1>2 DEF CancelFromIssue, CancelOrder, schedule
  <2>2. CASE CancelTx(S)
    <3> DEFINE released == {i \in Works : /\ work[i] # None /\ work[i].order \in S
                                          /\ work[i].status = "SCHEDULED"}
               back(c) == WorkSum({i \in released : Cell(i) = c})
    <3>1. cap' = [c \in Cells |->
             IF back(c) = 0 THEN cap[c]
             ELSE (IF cap[c] = None THEN Room[c[1]] ELSE cap[c]) + back(c)]
      BY <2>2 DEF CancelTx
    <3>2. \A c : back(c) \in Int
      <4> TAKE c
      <4>1. {i \in released : Cell(i) = c} \subseteq Works
            /\ \A i \in {i \in released : Cell(i) = c} : work[i] # None
        OBVIOUS
      <4> HIDE DEF released
      <4> QED
        BY <4>1, WorkSumInt DEF Reached
    <3> HIDE DEF back
    <3>3. \A c \in Cells : Room[c[1]] \in Int /\ cap[c] \in Int \cup {None}
      BY StoreAssumption DEF Planful, Lefts, Cells
    <3> QED
      BY <3>1, <3>2, <3>3 DEF Lefts
  <2> QED
    BY <1>1, <2>1, <2>2
<1>3. CASE RunCommit(q)
  <2>1. q \in Planned
    BY <1>3 DEF RunCommit, Planned, Doing
  <2>2. req[q].plan.left \in Lefts
    BY <2>1, PlanOfGood DEF Planful, PlansMade, MadeOf, PlansFor
  <2>3. cap' = [c \in Cells |-> cap'[c]]
        /\ \A c \in Cells : cap'[c] \in {cap[c], req[q].plan.left[c]}
    BY <1>3 DEF RunCommit
  <2>4. \A c \in Cells : cap'[c] \in Int \cup {None}
    BY <2>2, <2>3 DEF Planful, Lefts
  <2> QED
    BY <2>3, <2>4 DEF Lefts
<1> QED
  BY <1>1, <1>2, <1>3, WhoWrites DEF Reached

LEMMA PlanfulStep ==
  ASSUME Reached, Planful, [(Next /\ Heard) \/ PageStep]_pvars PROVE Planful'
<1>1. ASSUME UNCHANGED vars \/ NewDay \/ Lapse PROVE Planful'
  <2>1. UNCHANGED <<req, cap>>
    BY <1>1 DEF vars, NewDay, Lapse, schedule
  <2> QED
    BY <2>1 DEF Planful, PlansMade, Planned, Doing
<1>2. ASSUME NEW q \in Requests, Act(q) PROVE Planful'
  <2>1. cap' \in Lefts
    BY <1>2, CapacityTyped
  <2>2. ASSUME NEW p \in Planned' PROVE MadeOf(req'[p].in, req'[p].plan)
    <3>1. CASE p = q
      <4>1. CASE req'[q] = req[q]
        BY <2>2, <3>1, <4>1 DEF Planful, PlansMade, Planned, Doing
      <4>2. CASE req'[q] # req[q]
        BY <1>2, <2>2, <3>1, <4>2, WhoPlans, MadeByRun DEF Reached
      <4> QED
        BY <4>1, <4>2
    <3>2. CASE p # q
      <4>1. p \in Planned /\ req'[p] = req[p]
        BY <1>2, <2>2, <3>2, WhoWrites DEF Reached
      <4> QED
        BY <4>1 DEF Planful, PlansMade
    <3> QED
      BY <3>1, <3>2
  <2> QED
    BY <2>1, <2>2 DEF Planful, PlansMade
<1> QED
  BY <1>1, <1>2, WhoActs DEF Reached, Fine, PageOK

LEMMA InitPlanful == PageInit => Planful
<1> SUFFICES ASSUME PageInit PROVE Planful
  OBVIOUS
<1>1. Init
  BY DEF PageInit
<1>2. cap \in Lefts
  BY <1>1, StartsAssumption DEF Init, Lefts
<1>3. Planned = {}
  BY <1>1 DEF Init, Planned, Doing, Idle
<1> QED
  BY <1>2, <1>3 DEF Planful, PlansMade

LEMMA SoundWhenMade ==
  ASSUME PlansMade PROVE PlanSound
<1> SUFFICES ASSUME NEW q \in Planned, NEW p,
                    p = [in |-> req[q].in, plan |-> req[q].plan]
             PROVE  /\ \A c \in Cells :
                         LET before == Prepared(p.in)[c]
                             room == IF before = None THEN Room[c[1]] ELSE before
                         IN IF p.plan.left[c] = None
                            THEN before = None /\ NewOn(p, c) = 0
                            ELSE /\ p.plan.left[c] = room - NewOn(p, c)
                                 /\ NewOn(p, c) > 0 => p.plan.left[c] >= 0
                    /\ \A o \in DOMAIN p.in.rows :
                         /\ NewFor(p, o) \in {0, Missing(p.in, o)}
                         /\ NewFor(p, o) > 0 => ~Immutable(p.in.rows[o])
                                                /\ p.plan.status[o] = "SCHEDULED"
                         /\ p.plan.status[o] = "FAILED" =>
                              NewFor(p, o) = 0 /\ Missing(p.in, o) > 0
                    /\ \A w \in p.plan.new :
                         /\ w.day + ProductionDays + BufferDays
                              <= p.in.rows[w.order].due
                         /\ InRange(w.day, p.in)
  BY DEF PlanSound, Plans
<1> DEFINE in == p.in
           plan == p.plan
           M == Mutable(in)
<1>1. MadeOf(in, plan)
  BY DEF PlansMade
<1>2. /\ InputFits(in) /\ plan \in PlansFor(in) /\ PlanGood(in, M, plan)
      /\ M \subseteq DOMAIN in.rows /\ in.room = Room
  BY <1>1, PlanOfGood, MutableFinite DEF MadeOf
<1>3. /\ \A c : NewOn(p, c) = Amount(On(plan.new, c))
      /\ \A o : NewFor(p, o) = Amount(For(plan.new, o))
  BY DEF NewOn, NewFor, On, For
<1> HIDE DEF M
<1>4. ASSUME NEW c \in Cells
      PROVE  LET before == Prepared(p.in)[c]
                 room == IF before = None THEN Room[c[1]] ELSE before
             IN IF p.plan.left[c] = None THEN before = None /\ NewOn(p, c) = 0
                ELSE /\ p.plan.left[c] = room - NewOn(p, c)
                     /\ NewOn(p, c) > 0 => p.plan.left[c] >= 0
  <2>1. /\ IF plan.left[c] = None THEN Prepared(in)[c] = None /\ NewOn(p, c) = 0
           ELSE /\ plan.left[c] = Free(in, Prepared(in), c) - NewOn(p, c)
                /\ NewOn(p, c) > 0 => plan.left[c] >= 0
    BY <1>2, <1>3, GoodOnCell
  <2>2. Free(in, Prepared(in), c)
          = IF Prepared(in)[c] = None THEN Room[c[1]] ELSE Prepared(in)[c]
    BY <1>2 DEF Free
  <2> QED
    BY <2>1, <2>2
<1>5. ASSUME NEW o \in DOMAIN in.rows
      PROVE  /\ NewFor(p, o) \in {0, Missing(in, o)}
             /\ NewFor(p, o) > 0 => ~Immutable(in.rows[o])
                                    /\ plan.status[o] = "SCHEDULED"
             /\ plan.status[o] = "FAILED" =>
                  NewFor(p, o) = 0 /\ Missing(in, o) > 0
  <2>1. /\ NewFor(p, o) \in {0, Missing(in, o)}
        /\ NewFor(p, o) > 0 => o \in M /\ plan.status[o] = "SCHEDULED"
        /\ plan.status[o] = "FAILED" => NewFor(p, o) = 0 /\ Missing(in, o) > 0
    BY <1>2, <1>3, GoodForOrder
  <2>2. o \in M => ~Immutable(in.rows[o])
    BY DEF M, Mutable
  <2> QED
    BY <2>1, <2>2
<1>6. ASSUME NEW w \in plan.new
      PROVE  /\ w.day + ProductionDays + BufferDays <= in.rows[w.order].due
             /\ InRange(w.day, in)
  BY <1>2, GoodInWindow DEF InRange
<1> QED
  BY <1>4, <1>5, <1>6

LEMMA RanksWhenMade ==
  ASSUME PlansMade PROVE RankRespected
<1> SUFFICES ASSUME NEW q \in Planned, NEW p,
                    p = [in |-> req[q].in, plan |-> req[q].plan],
                    NEW o \in DOMAIN p.in.rows, p.plan.status[o] = "FAILED"
             PROVE
      LET row(a) == p.in.rows[a]
          retained(a) == /\ p.in.policy = "PRIORITY_RETAIN"
                         /\ row(a).status = "SCHEDULED"
          lower == {a \in DOMAIN p.in.rows :
                      \/ row(o).prio /\ ~row(a).prio
                      \/ /\ row(o).prio = row(a).prio
                         /\ \/ retained(o) /\ ~retained(a)
                            \/ /\ retained(o) = retained(a)
                               /\ row(a).due > row(o).due}
          given(c) == Amount({w \in p.plan.new : /\ w.order \in lower
                                                   /\ <<w.factory, w.day>> = c})
          window == Factories \X Window(p.in, o)
          free == [c \in window |->
                     Larger(0, given(c) + Free(p.in, p.plan.left, c))]
      IN IF p.in.splittable
         THEN MapThenSumSet(LAMBDA c : free[c], window) < Missing(p.in, o)
         ELSE \A c \in window : free[c] < Missing(p.in, o)
  BY DEF RankRespected, Plans
<1> DEFINE in == p.in
           plan == p.plan
           row(a) == in.rows[a]
           retained(a) == /\ in.policy = "PRIORITY_RETAIN"
                          /\ row(a).status = "SCHEDULED"
           lower == {a \in DOMAIN in.rows :
                      \/ row(o).prio /\ ~row(a).prio
                      \/ /\ row(o).prio = row(a).prio
                         /\ \/ retained(o) /\ ~retained(a)
                            \/ /\ retained(o) = retained(a)
                               /\ row(a).due > row(o).due}
           window == Factories \X Window(in, o)
           free == [c \in window |->
                      Larger(0, GivenTo(plan, lower, c) + Free(in, plan.left, c))]
<1>1. MadeOf(in, plan)
  BY DEF PlansMade
<1>2. /\ InputFits(in) /\ plan \in PlansFor(in)
      /\ PlanGood(in, Mutable(in), plan) /\ Mutable(in) \subseteq DOMAIN in.rows
  BY <1>1, PlanOfGood, MutableFinite DEF MadeOf
<1>3. \A a \in lower : Ranks(in, o, a)
  <2> SUFFICES ASSUME NEW a \in lower PROVE Before(in, o, a)
    BY <1>2, RanksBefore DEF InputFits
  <2>1. in.rows[a].due \in Int /\ in.rows[o].due \in Int
    BY <1>2 DEF InputFits, RowsFit
  <2> QED
    BY <2>1 DEF Before
<1>4. lower \subseteq DOMAIN in.rows
  OBVIOUS
<1> HIDE DEF lower
<1>5. IF in.splittable THEN SumOf(free, window) < Missing(in, o)
      ELSE \A c \in window : free[c] < Missing(in, o)
  BY <1>2, <1>3, <1>4, FailedAnyway DEF FreeWithout
<1> QED
  BY <1>5 DEF SumOf, GivenTo, lower

(* A plan that is about to be written keeps the books of every cell, gives *)
(* an order all that it misses, in its window, or nothing, and puts        *)
(* nothing where there is no room, whatever was tried and rolled back on   *)
(* the way (PlanSound; strategy.ts:440).                                   *)
THEOREM PlansAreSound == Spec => []PlanSound
<1>1. PageInit => Reached /\ Planful
  BY InitFine, InitPlanful DEF Reached
<1>2. Reached /\ Planful /\ [(Next /\ Heard) \/ PageStep]_pvars
        => Reached' /\ Planful'
  BY ReachedStep, PlanfulStep
<1>3. Planful => PlanSound
  BY SoundWhenMade DEF Planful
<1> HIDE DEF Reached, Planful
<1> QED
  BY <1>1, <1>2, <1>3, PTL DEF Spec

(* An order that fails would not fit either if all that the plan gives to  *)
(* orders that rank below it were given back: none fails because of one    *)
(* that counts less (RankRespected; strategy.ts:203).                      *)
THEOREM RanksAreRespected == Spec => []RankRespected
<1>1. PageInit => Reached /\ Planful
  BY InitFine, InitPlanful DEF Reached
<1>2. Reached /\ Planful /\ [(Next /\ Heard) \/ PageStep]_pvars
        => Reached' /\ Planful'
  BY ReachedStep, PlanfulStep
<1>3. Planful => RankRespected
  BY RanksWhenMade DEF Planful
<1> HIDE DEF Reached, Planful
<1> QED
  BY <1>1, <1>2, <1>3, PTL DEF Spec
================================================================================
