----------------------------- MODULE Invitations ------------------------------
(***************************************************************************)
(* modules/auth/invitation-service.ts: a SUPERADMIN creates an account     *)
(* without a password and mails a link to it; the link sets the username   *)
(* and the password, once.                                                 *)
(***************************************************************************)
EXTENDS AccountStore

NewInvite(i, u) ==
  /\ NextId(i, hist.invites, MaxLinks)
  /\ invite' = [invite EXCEPT ![i] =
       [user |-> u, exp |-> clock + LinkTtl, accepted |-> FALSE,
        revoked |-> FALSE]]

Pending(i) == invite[i] # None /\ ~invite[i].accepted /\ ~invite[i].revoked

(* assertActiveInvitation                                                  *)
ActiveInvitation(i, now) == Pending(i) /\ invite[i].exp > now

(* createUserInvitation: the address is looked up, then one transaction    *)
(* creates the account, for an ADMIN with its factories, and the           *)
(* invitation; the unique index or an unknown group rolls it back.         *)
InviteCheck(q, u, e, r, g) ==
  /\ NeverUsed(u) /\ \A p \in Requests : req[p].op = "invite" => req[p].user # u
  /\ r = "ADMIN" => g # None
  /\ EmailFree(e, u)
  /\ Begin(q, [op |-> "invite", at |-> "create", user |-> u, email |-> e,
               role |-> r, group |-> g, link |-> None, now |-> clock])
  /\ UNCHANGED <<clock, tables, session, client, traffic, hist>>

InviteCreate(q) ==
  LET r == req[q]
      managed == IF r.role = "ADMIN" THEN FactoriesOf(r.group) ELSE {}
      row == [name |-> None, email |-> r.email, active |-> FALSE,
              role |-> r.role, group |-> r.group, failed |-> 0,
              lockedUntil |-> None, managed |-> managed]
  IN
  /\ Doing(q, "invite", "create")
  /\ IF EmailFree(r.email, r.user) /\ (r.role = "ADMIN" => managed # {})
     THEN \E i \in Links :
            /\ NewInvite(i, r.user)
            /\ user' = [user EXCEPT ![r.user] = row]
            /\ req' = [req EXCEPT ![q].link = i, ![q].at = "mail"]
            /\ hist' = [hist EXCEPT !.invites = i]
     ELSE End(q) /\ UNCHANGED <<user, invite, hist>>
  /\ UNCHANGED <<clock, token, change, session, client, traffic>>

(* resendUserInvitation: the account is read, the new invitation is        *)
(* created, and only after it was mailed the older ones are revoked.       *)
ResendRead(q, u) ==
  /\ Exists(u) /\ ~user[u].active
  /\ Begin(q, [op |-> "resend", at |-> "create", user |-> u, link |-> None,
               now |-> clock])
  /\ hist' = IF Busy("resend", u) \/ Busy("accept", u)
             THEN Tear("invite", u) ELSE hist
  /\ UNCHANGED <<clock, tables, session, client, traffic>>

ResendCreate(q) ==
  /\ Doing(q, "resend", "create")
  /\ IF Exists(req[q].user)
     THEN \E i \in Links :
            /\ NewInvite(i, req[q].user)
            /\ req' = [req EXCEPT ![q].link = i, ![q].at = "mail"]
            /\ hist' = [hist EXCEPT !.invites = i]
     ELSE End(q) /\ UNCHANGED <<invite, hist>>
  /\ UNCHANGED <<clock, user, token, change, session, client, traffic>>

(* sendInvitationMail waits for the mail service (external), which may     *)
(* have delivered a mail that it then reports as failed.                   *)
SendMail(q, delivered, ok) ==
  /\ req[q].op \in {"invite", "resend"} /\ req[q].at = "mail"
  /\ ok => delivered
  /\ mailed' = IF delivered THEN mailed \cup {req[q].link} ELSE mailed
  /\ IF ok
     THEN IF req[q].op = "resend" THEN Goto(q, "revoke") ELSE End(q)
     ELSE "failure" \in traffic /\ Goto(q, "undo")
  /\ UNCHANGED <<clock, tables, session, access, held, traffic, hist>>

(* A mail that was not sent takes the account back, or the invitation.     *)
InviteUndo(q) ==
  LET u == req[q].user IN
  /\ Doing(q, "invite", "undo")
  /\ DeleteUser(u)
  /\ hist' = [hist EXCEPT !.lost = Losing(u, None)]
  /\ End(q)
  /\ UNCHANGED <<clock, session, client, traffic>>

(* Mutant: the invitation of a failed mail is left behind.                 *)
ResendUndoSkipped(q) ==
  /\ Doing(q, "resend", "undo")
  /\ End(q)
  /\ UNCHANGED <<clock, tables, session, client, traffic, hist>>

ResendUndo(q) ==
  /\ Doing(q, "resend", "undo")
  /\ invite' = [invite EXCEPT ![req[q].link] = None]
  /\ End(q)
  /\ UNCHANGED <<clock, user, token, change, session, client, traffic, hist>>

ResendRevoke(q) ==
  LET others == {i \in Links \ {req[q].link} :
                   Pending(i) /\ invite[i].user = req[q].user}
  IN
  /\ Doing(q, "resend", "revoke")
  /\ invite' = [i \in Links |-> IF i \in others
                                THEN [invite[i] EXCEPT !.revoked = TRUE]
                                ELSE invite[i]]
  /\ End(q)
  /\ UNCHANGED <<clock, user, token, change, session, client, traffic, hist>>

(* acceptInvitation: the invitation is read and must be active; the        *)
(* username must be free; a transaction claims the invitation, if it is    *)
(* still active at the time the request began, and activates the account.  *)
AcceptRead(q, i, n) ==
  /\ i \in mailed /\ ActiveInvitation(i, clock)
  /\ Begin(q, [op |-> "accept", at |-> "name", user |-> invite[i].user,
               link |-> i, name |-> n, now |-> clock])
  /\ hist' = IF Busy("resend", invite[i].user)
             THEN Tear("invite", invite[i].user) ELSE hist
  /\ UNCHANGED <<clock, tables, session, client, traffic>>

AcceptName(q) ==
  /\ Doing(q, "accept", "name")
  /\ IF \A u \in Users : Exists(u) => user[u].name # req[q].name
     THEN Goto(q, "claim") ELSE End(q)
  /\ UNCHANGED <<clock, tables, session, client, traffic, hist>>

(* Mutant: the claim does not repeat the conditions of the read.           *)
ClaimAnyInvitation(i, now) == invite[i] # None /\ invite[i].exp > now

(* The condition of the updateMany in the transaction.                     *)
ClaimInvitation(i, now) == ActiveInvitation(i, now)

AcceptClaim(q) ==
  LET r == req[q] IN
  /\ Doing(q, "accept", "claim")
  /\ IF ClaimInvitation(r.link, r.now) /\ NameFree(r.name, r.user)
     THEN /\ invite' = [invite EXCEPT ![r.link].accepted = TRUE]
          /\ user' = [user EXCEPT
               ![r.user] = [@ EXCEPT !.name = r.name, !.active = TRUE,
                                     !.failed = 0, !.lockedUntil = None]]
          /\ hist' = [hist EXCEPT !.claims["invite"][r.link] = @ + 1,
                                  !.tested[r.user] = 0]
     ELSE UNCHANGED <<invite, user, hist>>
  /\ End(q)
  /\ UNCHANGED <<clock, token, change, session, client, traffic>>

InvitationStep(q) ==
  \/ \E u \in Users, e \in Emails, r \in AskedRoles, g \in Groups \cup {None} :
       InviteCheck(q, u, e, r, g)
  \/ InviteCreate(q) \/ InviteUndo(q)
  \/ \E u \in Users : ResendRead(q, u)
  \/ ResendCreate(q) \/ ResendUndo(q) \/ ResendRevoke(q)
  \/ \E delivered, ok \in BOOLEAN : SendMail(q, delivered, ok)
  \/ \E i \in Links, n \in Names : AcceptRead(q, i, n)
  \/ AcceptName(q) \/ AcceptClaim(q)
===============================================================================
