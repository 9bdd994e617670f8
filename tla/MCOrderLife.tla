----------------------------- MODULE MCOrderLife ------------------------------
(* Two orders, two factories, four days.  Each scene puts the services that *)
(* meet there on a small table; together they have all of them.             *)
EXTENDS IssuePage

MCRoom == [f \in Factories |-> IF f = 1 THEN 2 ELSE 1]

Order(status, qty, due) ==
  [status |-> status, qty |-> qty, due |-> due, fixed |-> FALSE,
   prio |-> FALSE, rev |-> 0]
Piece(o, f, d, n) ==
  [order |-> o, factory |-> f, day |-> d, qty |-> n, status |-> "SCHEDULED"]

Issue(o, status) == [order |-> o, status |-> status, snap |-> None]

(* A table with these orders and pieces of work; rows of capacity are      *)
(* there for the cells in use, and for those of open.                      *)
Table(o1, o2, pieces, open, issues) ==
  LET used(c) == MapThenSumSet(
        LAMBDA k : IF <<pieces[k].factory, pieces[k].day>> = c
                   THEN pieces[k].qty ELSE 0, DOMAIN pieces)
  IN [ord |-> [o \in Orders |-> IF o = 1 THEN o1 ELSE o2],
      work |-> [i \in Works |-> IF i \in DOMAIN pieces THEN pieces[i]
                                ELSE None],
      cap |-> [c \in Cells |-> IF used(c) > 0 \/ c \in open
                               THEN MCRoom[c[1]] - used(c) ELSE None],
      issue |-> [i \in Issues |-> IF i \in DOMAIN issues THEN issues[i]
                                  ELSE None]]

Run(policy, splittable, end) ==
  [policy |-> policy, splittable |-> splittable, start |-> None, end |-> end]
Switch(on, date) == [on |-> on, date |-> date]
Set(field, value) == [f \in {field} |-> value]
NoValues == [f \in {"proposals", "new", "patches", "runs", "auto",
                    "switches"} |-> {}]
With(field, values) == [NoValues EXCEPT ![field] = values]

(* Every run over many tables: priorities, deadlines, quantities, work of  *)
(* earlier runs, in the range of the run or fixed.                         *)
PlanStarts ==
  {Table([Order("PENDING", n, d) EXCEPT !.prio = p],
         [Order(IF w = None THEN "PENDING" ELSE "SCHEDULED", m, e)
            EXCEPT !.fixed = x],
         IF w = None THEN <<>> ELSE <<Piece(2, 1, w, m)>>, open, <<>>) :
     n \in 1 .. 3, m \in 1 .. 2, d \in 2 .. 3, e \in 2 .. 4, p \in BOOLEAN,
     x \in BOOLEAN, w \in {None, 1, 2}, open \in {{}, {1} \X Calendar}}

Planning ==
  [starts |-> PlanStarts, ops |-> {"run"}, requests |-> 1, deaths |-> 0, fair |-> FALSE,
   values |-> With("runs", {Run(p, s, e) : p \in Policies, s \in BOOLEAN,
                                           e \in {None, 2}})]

(* An order that could not be scheduled, and what becomes of its issue.    *)
Talking ==
  [starts |-> {Table(Order("FAILED", 2, 2), None, <<>>, {},
                     <<Issue(1, "OPEN")>>)},
   ops |-> {"comment", "accept", "reject", "close", "reopen", "cancel",
            "death"},
   requests |-> 4, deaths |-> 1, fair |-> FALSE,
   values |-> With("proposals", {[kind |-> "DELAY_DUE_DATE", value |-> 4],
                                 [kind |-> "CANCEL", value |-> 0]})]

(* Cancellation requests beside runs that fail.                            *)
Flagging2 ==
  [starts |-> {Table(Order("PENDING", 3, due), Order("SCHEDULED", 1, 3),
                     <<Piece(2, 1, 2, 1)>>, {}, issues) :
                 due \in 0 .. 1, issues \in {<<>>, <<Issue(1, "OPEN")>>}},
   ops |-> {"flag", "run", "comment", "close", "reopen", "death"},
   requests |-> 3, deaths |-> 1, fair |-> FALSE,
   values |-> [With("runs", {Run("GLOBAL_OPTIMIZE", TRUE, None)})
                 EXCEPT !["proposals"] = {[kind |-> "CANCEL", value |-> 0]}]]

(* Planning again while orders are edited, cancelled and created.          *)
Replanning ==
  [starts |-> {Table(Order("PENDING", 2, 3), None,
                     <<>>, {}, <<>>),
               Table(Order("FAILED", 2, 4), Order("SCHEDULED", 2, 4),
                     <<Piece(2, 1, 1, 1), Piece(2, 1, 2, 1)>>, {},
                     <<Issue(1, "IN_DISCUSSION")>>)},
   ops |-> {"run", "sales", "admin", "delete", "create", "comment", "accept"},
   requests |-> 4, deaths |-> 0, fair |-> FALSE,
   values |-> [NoValues EXCEPT
     !["runs"] = {Run("GLOBAL_OPTIMIZE", TRUE, None),
                  Run("GAP_FILLING", FALSE, None)},
     !["new"] = {[qty |-> 1, due |-> 2]},
     !["patches"] = {Set("qty", 1), Set("status", "CANCELLED"),
                     Set("status", "PENDING")},
     !["proposals"] = {[kind |-> "REDUCE_QUANTITY", value |-> 1]}]]

(* Into simulated time and back.                                           *)
Simulating ==
  [starts |-> {Table(Order("PENDING", 1, 4), Order("SCHEDULED", 2, 4),
                     <<Piece(2, 1, 1, 1), Piece(2, 1, 2, 1)>>, {}, <<>>)},
   ops |-> {"patch", "daily", "run", "time"},
   requests |-> 3, deaths |-> 0, fair |-> FALSE,
   values |-> [With("runs", {Run("GLOBAL_OPTIMIZE", TRUE, None)}) EXCEPT
     !["switches"] = {Switch(TRUE, None), Switch(None, 3),
                      Switch(FALSE, None), Switch(FALSE, 2)}]]

(* The cron process beside runs, with processes that die.                  *)
Ticking ==
  [starts |-> {Table(Order("PENDING", 1, 4), Order("SCHEDULED", 2, 4),
                     <<Piece(2, 1, 1, 1), Piece(2, 1, 2, 1)>>, {}, <<>>)},
   ops |-> {"daily", "auto", "run", "time", "death"},
   requests |-> 2, deaths |-> 2, fair |-> FALSE,
   values |-> [With("runs", {Run("PRIORITY_RETAIN", TRUE, None)})
                 EXCEPT !["auto"] = BOOLEAN]]

(* The daily job must get its work done, whatever holds or loses the lock. *)
Waiting ==
  [starts |-> {Table(Order("SCHEDULED", 2, 4), Order("PENDING", 1, 4),
                     <<Piece(1, 1, 1, 1), Piece(1, 2, 1, 1)>>, {}, <<>>)},
   ops |-> {"daily", "run", "time", "death"},
   requests |-> 1, deaths |-> 2, fair |-> TRUE,
   values |-> With("runs", {Run("GAP_FILLING", TRUE, None)})]

(* The page of an administrator: its proposals and those of others; and    *)
(* the buttons of its sidebar.                                             *)
PageStart == Table(Order("FAILED", 2, 2), Order("FAILED", 1, 2), <<>>, {},
                   <<Issue(1, "IN_DISCUSSION"), Issue(2, "CLOSED")>>)

Replying ==
  [starts |-> {PageStart}, ops |-> {"page", "comment", "accept", "reject",
            "death"},
   requests |-> 2, deaths |-> 1, acts |-> 3, fair |-> FALSE,
   values |-> With("proposals", {[kind |-> "DELAY_DUE_DATE", value |-> 4]})]

Clicking ==
  [starts |-> {PageStart}, ops |-> {"page", "close", "reopen", "cancel"},
   requests |-> 2, deaths |-> 0, acts |-> 4, fair |-> FALSE,
   values |-> NoValues]

MCScenes == <<Planning, Talking, Flagging2, Replanning, Simulating, Ticking,
              Waiting, Replying, Clicking>>

(* An order is cancelled while its issue is under discussion.              *)
MCCancelledScenes ==
  <<[starts |-> {Table(Order("FAILED", 2, 2), None, <<>>, {},
                       <<Issue(1, "IN_DISCUSSION")>>)},
     ops |-> {"comment", "accept", "admin", "reject"},
     requests |-> 3, deaths |-> 0, fair |-> FALSE,
     values |-> [NoValues EXCEPT
       !["proposals"] = {[kind |-> "DELAY_DUE_DATE", value |-> 4]},
       !["patches"] = {Set("status", "CANCELLED")}]]>>
===============================================================================
