------------------------------- MODULE IssueDesk -------------------------------
(***************************************************************************)
(* modules/order/conflict-issue-service.ts: the issue that is opened when  *)
(* an order cannot be scheduled, the proposals made in its comments, and   *)
(* their acceptance, which changes the order.  None of it takes the        *)
(* schedule lock, and each await is a step: a request works on what it     *)
(* read.                                                                   *)
(***************************************************************************)
EXTENDS OrderStore

(* findOpenIssueByOrderId, findOpenIssuesByOrderIds                        *)
(* Mutant: an issue in discussion is not found.                            *)
OpenIssuesNew(o) ==
  {i \in Issues : issue[i] # None /\ issue[i].order = o
                  /\ issue[i].status = "OPEN"}

OpenIssues(o) ==
  {i \in Issues : issue[i] # None /\ issue[i].order = o
                  /\ issue[i].status \in {"OPEN", "IN_DISCUSSION"}}

Ended(i) == issue[i].status \in {"RESOLVED", "CLOSED"}
FreeIssues == {i \in Issues : issue[i] = None}

(* The snapshot of a run that failed: its window for the order, and the    *)
(* order as it was.  A cancellation request has none.                      *)
Snapshot(in, row) ==
  [start |-> in.start, end |-> row.due - ProductionDays - BufferDays,
   due |-> row.due, qty |-> row.qty, splittable |-> in.splittable]

(* Rows are created in order: the orders of S get the first free ones.     *)
IssuesFor(S, snap) ==
  LET nth(o) == Cardinality({p \in S : p < o})
      taken(i) == {o \in S : nth(o) = Cardinality({f \in FreeIssues : f < i})}
  IN [i \in Issues |-> IF i \in FreeIssues /\ taken(i) # {}
                       THEN LET o == CHOOSE o \in taken(i) : TRUE IN
                            [order |-> o, status |-> "OPEN",
                             snap |-> snap[o]]
                       ELSE issue[i]]

Flagging(o) == \E p \in Requests : Doing(p, "flag", "create")
                                   /\ req[p].order = o
Crossed(h, S) == [h EXCEPT !.crossed = @ \cup S]

-------------------------------------------------------------------------------
(* addComment with a proposal: the issue is read, the comment is created   *)
(* with the updatedAt of the order that the author saw, and an issue that  *)
(* was read as OPEN is set to IN_DISCUSSION, whatever it is by now.        *)
CommentRead(q, i, kind, value, expected) ==
  /\ issue[i] # None /\ ~Ended(i)
  /\ Begin(q, [op |-> "comment", at |-> "create", issue |-> i, kind |-> kind,
               value |-> value, expected |-> expected,
               fresh |-> issue[i].status = "OPEN"])
  /\ hist' = Count(hist)
  /\ UNCHANGED <<ord, schedule, desk, clock, lock, scene>>

CommentCreate(q) ==
  LET r == req[q] IN
  /\ Doing(q, "comment", "create")
  /\ \E c \in Proposals :
       /\ proposal[c] = None /\ \A d \in 1 .. c - 1 : proposal[d] # None
       /\ proposal' = [proposal EXCEPT ![c] =
            [issue |-> r.issue, kind |-> r.kind, value |-> r.value,
             expected |-> r.expected, status |-> "PENDING"]]
  /\ IF r.fresh THEN Goto(q, "discuss") ELSE End(q)
  /\ UNCHANGED <<ord, schedule, issue, clock, lock, scene, hist>>

CommentDiscuss(q) ==
  LET i == req[q].issue IN
  /\ Doing(q, "comment", "discuss")
  /\ issue' = [issue EXCEPT ![i].status = "IN_DISCUSSION"]
  /\ hist' = IF Ended(i) THEN Crossed(hist, {issue[i].order}) ELSE hist
  /\ End(q)
  /\ UNCHANGED <<ord, schedule, proposal, clock, lock, scene>>

-------------------------------------------------------------------------------
(* acceptProposal: one read of the comment with its issue and its order.   *)
(* Neither the status of the issue nor that of the order is looked at.     *)
(* Mutant: the updatedAt of the order is not compared.                     *)
AppliesAlways(c) == TRUE

Applies(c) == ord[issue[proposal[c].issue].order].rev = proposal[c].expected

AcceptRead(q, c) ==
  LET p == proposal[c]
      o == issue[p.issue].order
      accepting == \E s \in Requests : Doing(s, "accept", "order")
                                       /\ req[s].proposal = c
  IN
  /\ p # None /\ p.status = "PENDING"
  /\ p.kind = "DELAY_DUE_DATE" /\ Applies(c) => p.value > ord[o].due
  /\ Begin(q, [op |-> "accept",
               at |-> IF Applies(c) THEN "order" ELSE "stale",
               proposal |-> c, order |-> o, others |-> {}])
  /\ hist' = IF accepting
             THEN [Count(hist) EXCEPT !.overlapped = @ \cup {c}]
             ELSE Count(hist)
  /\ UNCHANGED <<ord, schedule, desk, clock, lock, scene>>

(* updateCommentProposalStatus                                             *)
Judge(S, status) ==
  proposal' = [c \in Proposals |-> IF c \in S
                 THEN [proposal[c] EXCEPT !.status = status] ELSE proposal[c]]

(* Mutant: the request goes on after it has marked the proposal.           *)
AcceptStaleGoesOn(q) ==
  /\ Doing(q, "accept", "stale")
  /\ Judge({req[q].proposal}, "STALE")
  /\ Goto(q, "others")
  /\ UNCHANGED <<ord, schedule, issue, clock, lock, scene, hist>>

AcceptStale(q) ==
  /\ Doing(q, "accept", "stale")
  /\ Judge({req[q].proposal}, "STALE")
  /\ End(q)
  /\ UNCHANGED <<ord, schedule, issue, clock, lock, scene, hist>>

(* The order goes back to PENDING with the new value, or is CANCELLED; its *)
(* work and their capacity stay as they are.                               *)
Applied(row, p) ==
  CASE p.kind = "REDUCE_QUANTITY" ->
         [row EXCEPT !.status = "PENDING", !.qty = p.value]
    [] p.kind = "DELAY_DUE_DATE" ->
         [row EXCEPT !.status = "PENDING", !.due = p.value]
    [] OTHER -> [row EXCEPT !.status = "CANCELLED"]

AcceptOrder(q) ==
  LET c == req[q].proposal
      o == req[q].order
  IN
  /\ Doing(q, "accept", "order")
  /\ ord' = Rewritten({o}, [p \in {o} |-> Applied(ord[p], proposal[c])])
  /\ hist' = Astray([hist EXCEPT !.applied[c] = @ + 1], {o})
  /\ Goto(q, "mark")
  /\ UNCHANGED <<schedule, desk, clock, lock, scene>>

AcceptMark(q) ==
  /\ Doing(q, "accept", "mark")
  /\ Judge({req[q].proposal}, "ACCEPTED")
  /\ Goto(q, "others")
  /\ UNCHANGED <<ord, schedule, issue, clock, lock, scene, hist>>

(* staleOtherProposals reads the pending ones and then writes them.        *)
AcceptOthersRead(q) ==
  LET c == req[q].proposal IN
  /\ Doing(q, "accept", "others")
  /\ req' = [req EXCEPT
       ![q].others = {d \in Proposals \ {c} :
                        /\ proposal[d] # None /\ proposal[d].status = "PENDING"
                        /\ proposal[d].issue = proposal[c].issue},
       ![q].at = "outdate"]
  /\ UNCHANGED <<ord, schedule, desk, clock, lock, scene, hist>>

AcceptOthersWrite(q) ==
  /\ Doing(q, "accept", "outdate")
  /\ Judge(req[q].others, "STALE")
  /\ Goto(q, "resolve")
  /\ UNCHANGED <<ord, schedule, issue, clock, lock, scene, hist>>

AcceptResolve(q) ==
  /\ Doing(q, "accept", "resolve")
  /\ issue' = [issue EXCEPT ![proposal[req[q].proposal].issue].status =
                 "RESOLVED"]
  /\ End(q)
  /\ UNCHANGED <<ord, schedule, proposal, clock, lock, scene, hist>>

(* rejectProposal                                                          *)
RejectRead(q, c) ==
  /\ proposal[c] # None /\ proposal[c].status = "PENDING"
  /\ Begin(q, [op |-> "reject", at |-> "write", proposal |-> c])
  /\ hist' = Count(hist)
  /\ UNCHANGED <<ord, schedule, desk, clock, lock, scene>>

RejectWrite(q) ==
  /\ Doing(q, "reject", "write")
  /\ Judge({req[q].proposal}, "REJECTED")
  /\ End(q)
  /\ UNCHANGED <<ord, schedule, issue, clock, lock, scene, hist>>

-------------------------------------------------------------------------------
(* updateIssueStatus: CLOSE, REOPEN and CANCEL_ORDER check the status that *)
(* was read, and then write.  REASSIGN writes nothing that is modelled.    *)
MayChange(i, op) ==
  CASE op = "close"  -> issue[i].status # "CLOSED"
    [] op = "reopen" -> Ended(i)
    [] op = "cancel" -> ~Ended(i)

StatusRead(q, i, op) ==
  /\ issue[i] # None /\ MayChange(i, op)
  /\ Begin(q, [op |-> op, at |-> IF op = "cancel" THEN "cancel" ELSE "status",
               issue |-> i])
  /\ hist' = Count(hist)
  /\ UNCHANGED <<ord, schedule, desk, clock, lock, scene>>

CancelFromIssue(q) ==
  LET o == issue[req[q].issue].order IN
  /\ Doing(q, "cancel", "cancel")
  /\ CancelTx({o})
  /\ hist' = Astray(hist, {o})
  /\ Goto(q, "status")
  /\ UNCHANGED <<desk, clock, lock, scene>>

StatusWrite(q) ==
  LET i == req[q].issue
      reopened == req[q].op = "reopen"
  IN
  /\ req[q].op \in {"close", "reopen", "cancel"} /\ req[q].at = "status"
  /\ issue' = [issue EXCEPT ![i].status =
                 IF reopened THEN "IN_DISCUSSION" ELSE "CLOSED"]
  /\ hist' = IF reopened THEN Crossed(hist, {issue[i].order}) ELSE hist
  /\ End(q)
  /\ UNCHANGED <<ord, schedule, proposal, clock, lock, scene>>

(* createCancellationRequest: the order is read, an open issue looked for, *)
(* and an issue created, each in a step of its own.                        *)
FlagRead(q, o) ==
  /\ Exists(o) /\ ord[o].status \in {"PENDING", "SCHEDULED"}
  /\ Begin(q, [op |-> "flag", at |-> "look", order |-> o])
  /\ hist' = Count(hist)
  /\ UNCHANGED <<ord, schedule, desk, clock, lock, scene>>

FlagLook(q) ==
  LET o == req[q].order IN
  /\ Doing(q, "flag", "look")
  /\ IF OpenIssues(o) = {} THEN Goto(q, "create") ELSE End(q)
  /\ hist' = IF Flagging(o) THEN Crossed(hist, {o}) ELSE hist
  /\ UNCHANGED <<ord, schedule, desk, clock, lock, scene>>

FlagCreate(q) ==
  /\ Doing(q, "flag", "create")
  /\ FreeIssues # {}
  /\ issue' = IssuesFor({req[q].order}, [o \in Orders |-> None])
  /\ End(q)
  /\ UNCHANGED <<ord, schedule, proposal, clock, lock, scene, hist>>

IssueStep(q) ==
  \/ CommentCreate(q) \/ CommentDiscuss(q)
  \/ AcceptStale(q) \/ AcceptOrder(q) \/ AcceptMark(q)
  \/ AcceptOthersRead(q) \/ AcceptOthersWrite(q) \/ AcceptResolve(q)
  \/ RejectWrite(q)
  \/ CancelFromIssue(q) \/ StatusWrite(q)
  \/ FlagLook(q) \/ FlagCreate(q)

IssueBegin(q) ==
  \/ \E i \in Issues, v \in Values("proposals") :
       issue[i] # None /\
         CommentRead(q, i, v.kind, v.value, ord[issue[i].order].rev)
  \/ \E c \in Proposals : AcceptRead(q, c) \/ RejectRead(q, c)
  \/ \E i \in Issues, op \in {"close", "reopen", "cancel"} :
       StatusRead(q, i, op)
  \/ \E o \in Orders : FlagRead(q, o)
===============================================================================
