------------------------------- MODULE OrderDesk ------------------------------
(***************************************************************************)
(* modules/order/order-service.ts: creating, editing, cancelling and       *)
(* deleting orders.  A request reads the order and checks it; what it then *)
(* does under the schedule lock is one transaction, and the lock is taken  *)
(* and given back in the step of that transaction (ScheduleLock.tla and    *)
(* ScheduleCore.tla have those steps).  A lock that is held refuses it.    *)
(***************************************************************************)
EXTENDS OrderStore

(* assertOrderStatusTransition                                             *)
Transitions(from) ==
  CASE from = "PENDING"       -> {"SCHEDULED", "CANCELLED", "FAILED"}
    [] from = "SCHEDULED"     -> {"IN_PRODUCTION", "CANCELLED", "FAILED"}
    [] from = "IN_PRODUCTION" -> {"COMPLETED", "CANCELLED"}
    [] from = "FAILED"        -> {"PENDING", "SCHEDULED", "CANCELLED"}
    [] OTHER                  -> {}

Locked(q, write) == IF lock = None THEN write ELSE UNCHANGED <<ord, hist>>

(* createOrderService writes without the lock.                             *)
CreateOrder(q, o, qty, due) ==
  /\ ~Exists(o) /\ \A p \in Orders : p < o => Exists(p)
  /\ req[q] = Idle /\ Has("create") /\ hist.made < Scenes[scene].requests
  /\ ord' = [ord EXCEPT ![o] =
       [status |-> "PENDING", qty |-> qty, due |-> due, fixed |-> FALSE,
        prio |-> FALSE, rev |-> 0]]
  /\ hist' = Count(hist)
  /\ UNCHANGED <<schedule, desk, clock, lock, req, scene>>

(* A patch says what to write; a field it does not have keeps its value.   *)
Patched(row, patch) ==
  [f \in DOMAIN row |-> IF f \in DOMAIN patch THEN patch[f] ELSE row[f]]

(* updateOrderService.  SALES edit their PENDING orders, but no status and *)
(* no flag; the status is not looked at again when the patch is written.   *)
SalesRead(q, o, patch) ==
  /\ Exists(o) /\ ord[o].status = "PENDING"
  /\ DOMAIN patch \subseteq {"qty", "due"}
  /\ Begin(q, [op |-> "sales", at |-> "write", order |-> o, patch |-> patch])
  /\ hist' = Count(hist)
  /\ UNCHANGED <<ord, schedule, desk, clock, lock, scene>>

(* ADMIN: a status must be one that may follow the one that was read.      *)
AdminRead(q, o, patch) ==
  /\ Exists(o)
  /\ "status" \in DOMAIN patch =>
       patch.status \in Transitions(ord[o].status) \cup {ord[o].status}
  /\ Begin(q, [op |-> "admin", order |-> o, patch |-> patch,
               at |-> IF "status" \in DOMAIN patch /\ patch.status = "CANCELLED"
                      THEN "cancel" ELSE "write"])
  /\ hist' = Count(hist)
  /\ UNCHANGED <<ord, schedule, desk, clock, lock, scene>>

(* An order that is edited while it has work, or whose status is set by    *)
(* hand, is no longer what the engine made of it.                          *)
UpdateOrder(q) ==
  LET o == req[q].order
      patch == req[q].patch
      byHand == Live(o) # {} \/ "status" \in DOMAIN patch
  IN
  /\ req[q].op \in {"sales", "admin"} /\ req[q].at = "write"
  /\ Locked(q, /\ ord' = Rewritten({o}, [p \in {o} |-> Patched(ord[p], patch)])
               /\ hist' = IF byHand
                          THEN [hist EXCEPT !.astray = @ \cup {o}]
                          ELSE hist)
  /\ End(q)
  /\ UNCHANGED <<schedule, desk, clock, lock, scene>>

(* deleteOrdersService checks the group of the orders, and no status.      *)
DeleteRead(q, o) ==
  /\ Exists(o)
  /\ Begin(q, [op |-> "delete", at |-> "cancel", order |-> o])
  /\ hist' = Count(hist)
  /\ UNCHANGED <<ord, schedule, desk, clock, lock, scene>>

CancelOrder(q) ==
  /\ req[q].op \in {"admin", "delete"} /\ req[q].at = "cancel"
  /\ IF lock = None THEN CancelTx({req[q].order})
     ELSE UNCHANGED <<ord, schedule>>
  /\ End(q)
  /\ UNCHANGED <<desk, clock, lock, scene, hist>>

OrderStep(q) == UpdateOrder(q) \/ CancelOrder(q)

OrderBegin(q) ==
  \/ \E o \in Orders, n \in Values("new") : CreateOrder(q, o, n.qty, n.due)
  \/ \E o \in Orders, patch \in Values("patches") :
       SalesRead(q, o, patch) \/ AdminRead(q, o, patch)
  \/ \E o \in Orders : DeleteRead(q, o)
===============================================================================
