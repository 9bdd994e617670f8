------------------------------- MODULE IssuePage ------------------------------
(***************************************************************************)
(* The page of an administrator who works on conflict issues               *)
(* (app/(dashboard)/conflict-issues/page.tsx, IssueDetailPanel.tsx), beside *)
(* everything else that happens to orders and issues.  The page keeps what *)
(* it has fetched; its fetches are never cancelled and are not tied to the *)
(* issue that is selected when they come back.                             *)
(***************************************************************************)
EXTENDS OrderLife

VARIABLE page
(* sel     the issue that is selected (the URL)                            *)
(* shown   the issue that is shown, as it was read, or None                *)
(* fetches those on their way, with what they have read                    *)
(* calls   the changes sent and not answered: their requests               *)
(* choice  what the buttons Close and Reopen have remembered               *)
(* mine    the proposals written on this page                              *)
(* acts    bound: what was done on the page                                *)
(* own, clicked, mixed   history: the changes made here to each issue; the *)
(*         buttons clicked since the last of them; whether a fetch started *)
(*         beside another, or for an issue that is not selected            *)

pvars == <<vars, page>>

(* The page is opened on an issue that exists.                             *)
ASSUME PageAssumption ==
  \A k \in Scene : "page" \in Scenes[k].ops =>
    \A s \in Scenes[k].starts : s.issue[1] # None

(* GET /api/conflict-issues/:number                                        *)
View(p, i) ==
  [issue |-> i, status |-> issue[i].status, rev |-> ord[issue[i].order].rev,
   pending |-> {c \in Proposals : /\ proposal[c] # None
                                  /\ proposal[c].issue = i
                                  /\ proposal[c].status = "PENDING"},
   own |-> p.own[i]]

Acting(p) == Has("page") /\ p.acts < Scenes[scene].acts
Acted(p) == [p EXCEPT !.acts = @ + 1]

(* fetchIssue.  Two fetches that are alike count as one.                   *)
Fetching(p, i) ==
  [p EXCEPT !.fetches = @ \cup {[issue |-> i, view |-> None]},
            !.mixed = p.fetches # {} \/ i # p.sel]

(* openIssue, and the effect that fetches the issue of the new URL.        *)
Select(i) ==
  /\ Acting(page) /\ issue[i] # None /\ i # page.sel
  /\ page' = Acted(Fetching([page EXCEPT !.sel = i], i))
  /\ UNCHANGED vars

FetchRead(f) ==
  /\ f.view = None
  /\ page' = [page EXCEPT !.fetches =
                (@ \ {f}) \cup {[f EXCEPT !.view = View(page, f.issue)]}]
  /\ UNCHANGED vars

(* What comes back is shown.  Nothing is shown after a failure; the parts  *)
(* of the page are unmounted then, and forget what they remembered.        *)
FetchAnswer(f) ==
  /\ f.view # None
  /\ page' = [page EXCEPT !.fetches = @ \ {f}, !.shown = f.view]
  /\ UNCHANGED vars

FetchFails(f) ==
  /\ Acting(page)
  /\ page' = Acted([page EXCEPT !.fetches = @ \ {f}, !.shown = None,
                                !.choice = None, !.clicked = {}])
  /\ UNCHANGED vars

-------------------------------------------------------------------------------
(* Each part of the page waits for its own answer only: the sidebar, the   *)
(* card of a proposal, the box for a reply.                                *)
Sidebar == {"status", "cancel"}
Busy(parts) == \E r \in page.calls : r.part \in parts

(* A part may be used for an issue that looks as if it were open, or not.  *)
Usable(open) ==
  /\ Acting(page) /\ page.shown # None
  /\ open <=> page.shown.status \in {"OPEN", "IN_DISCUSSION"}

(* A change is sent for the issue that is shown; its success will fetch    *)
(* the one that is selected now.                                           *)
Sent(p, q, part, card) ==
  Acted([p EXCEPT !.calls = @ \cup
    {[q |-> q, part |-> part, card |-> card, issue |-> p.shown.issue,
      then |-> p.sel]}])

(* The buttons Close and Reopen: setAdminAction, and doAdminAction in a    *)
(* timer, which has the choice from before the click.                      *)
Click(op) ==
  LET clicked == [page EXCEPT !.choice = op, !.clicked = @ \cup {op}]
      i == page.shown.issue
  IN
  /\ Usable(op = "close") /\ ~Busy(Sidebar)
  /\ IF page.choice = None \/ ~MayChange(i, page.choice)
     THEN page' = Acted(clicked) /\ UNCHANGED vars
     ELSE \E q \in Requests : /\ StatusRead(q, i, page.choice)
                              /\ page' = Sent(clicked, q, "status", None)

(* doCancelOrder                                                           *)
ClickCancel ==
  /\ Usable(TRUE) /\ ~Busy(Sidebar)
  /\ \E q \in Requests : /\ StatusRead(q, page.shown.issue, "cancel")
                         /\ page' = Sent(page, q, "cancel", None)

(* ProposalCard: canInteract, doAction.                                    *)
ClickJudge(c) ==
  /\ Usable(TRUE) /\ \A r \in page.calls : r.card # c
  /\ c \in page.shown.pending \ page.mine
  /\ \E q \in Requests : /\ AcceptRead(q, c) \/ RejectRead(q, c)
                         /\ page' = Sent(page, q, "card", c)

(* ReplyBox: handleSubmit with a proposal, which carries the updatedAt of  *)
(* the order that is shown.                                                *)
Reply(kind, value) ==
  /\ Usable(TRUE) /\ ~Busy({"reply"})
  /\ \E q \in Requests :
       /\ CommentRead(q, page.shown.issue, kind, value, page.shown.rev)
       /\ page' = Sent(page, q, "reply", None)

(* A success has the page fetch; doAdminAction forgets the choice.         *)
Done(p, r) ==
  [p EXCEPT !.own[r.issue] = @ + 1,
            !.choice = IF r.part = "status" THEN None ELSE @,
            !.clicked = IF r.part = "status" THEN {} ELSE @]

(* Mutant: the page does not fetch again.                                  *)
SucceededQuietly(p, r) == Done(p, r)

Succeeded(p, r) == Fetching(Done(p, r), r.then)

(* The answers, when the requests end.  After an error, or when no answer  *)
(* comes, all stays as it is.                                              *)
Heard ==
  LET ended == {r \in page.calls : req'[r.q] = Idle}
      written == {c \in Proposals :
                    /\ proposal[c] = None /\ proposal'[c] # None
                    /\ \E r \in page.calls : /\ r.part = "reply"
                                             /\ req'[r.q] # req[r.q]}
      p == [page EXCEPT !.calls = @ \ ended, !.mine = @ \cup written]
      failed == \/ hist'.deaths > hist.deaths
                \/ \E r \in ended : Doing(r.q, "accept", "stale")
  IN page' = IF ended = {} \/ failed THEN p
             ELSE Succeeded(p, CHOOSE r \in ended : TRUE)

PageStep ==
  \/ \E i \in Issues : Select(i)
  \/ \E f \in page.fetches : FetchRead(f) \/ FetchAnswer(f) \/ FetchFails(f)
  \/ \E op \in {"close", "reopen"} : Click(op)
  \/ ClickCancel
  \/ \E c \in Proposals : ClickJudge(c)
  \/ \E v \in Values("proposals") : Reply(v.kind, v.value)

PageInit ==
  LET opened == [sel |-> 1, shown |-> None, fetches |-> {}, calls |-> {},
                 choice |-> None, mine |-> {}, acts |-> 0,
                 own |-> [i \in Issues |-> 0], clicked |-> {}, mixed |-> FALSE]
  IN /\ Init
     /\ page = IF Has("page") THEN [opened EXCEPT !.shown = View(opened, 1)]
               ELSE opened

Spec == /\ PageInit
        /\ [][(Next /\ Heard) \/ PageStep]_pvars
        /\ Fairness

-------------------------------------------------------------------------------
(* A page at rest is as good as one that has just been opened: it shows    *)
(* the issue that is selected, with every change made on the page itself,  *)
(* and the button that is clicked next does not send once more what was    *)
(* done already.  Not so once two fetches were on their way together, or   *)
(* another issue was selected before a change was answered: the answer     *)
(* that comes last is what is shown (IssueDetailPanel.tsx:1272).           *)
PageSettles ==
  page.fetches = {} /\ page.calls = {} /\ ~page.mixed /\ page.shown # None =>
    /\ page.shown.issue = page.sel
    /\ page.shown.own = page.own[page.sel]
    /\ page.choice # None => page.choice \in page.clicked
===============================================================================
