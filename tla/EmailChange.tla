----------------------------- MODULE EmailChange ------------------------------
(***************************************************************************)
(* modules/auth/email-change-service.ts and the two routes under           *)
(* app/api/users/me that call it: a user asks for another address, and a   *)
(* link mailed to that address confirms it, once.                          *)
(***************************************************************************)
EXTENDS AccountStore

(* The route: password and own address are checked on one read of the row. *)
ChangeRead(q, u, e) ==
  /\ Exists(u) /\ user[u].active /\ user[u].email # e
  /\ Begin(q, [op |-> "change", at |-> "taken", user |-> u, email |-> e,
               now |-> clock])
  /\ hist' = IF Busy("change", u)
             THEN Tear("change", u) ELSE hist
  /\ UNCHANGED <<clock, tables, session, client, traffic>>

ChangeTaken(q) ==
  /\ Doing(q, "change", "taken")
  /\ IF \A v \in Users : Exists(v) => user[v].email # req[q].email
     THEN Goto(q, "delete") ELSE End(q)
  /\ UNCHANGED <<clock, tables, session, client, traffic, hist>>

(* createEmailChangeToken deletes the tokens of the user, then creates the *)
(* new one; the two are not one transaction.                               *)
ChangeDelete(q) ==
  /\ Doing(q, "change", "delete")
  /\ change' = [i \in Links |->
       IF change[i] # None /\ change[i].user = req[q].user
       THEN None ELSE change[i]]
  /\ Goto(q, "create")
  /\ UNCHANGED <<clock, user, token, invite, session, client, traffic, hist>>

ChangeCreate(q) ==
  LET u == req[q].user IN
  /\ Doing(q, "change", "create")
  /\ IF Exists(u)
     THEN \E i \in Links :
            /\ NextId(i, hist.changes, MaxLinks)
            /\ change' = [change EXCEPT ![i] =
                 [user |-> u, email |-> req[q].email, exp |-> clock + LinkTtl,
                  used |-> FALSE]]
            /\ hist' = [hist EXCEPT !.changes = i]
     ELSE UNCHANGED <<change, hist>>
  /\ End(q)
  /\ UNCHANGED <<clock, user, token, invite, session, client, traffic>>

Confirmable(i, now) ==
  change[i] # None /\ ~change[i].used /\ change[i].exp > now

(* confirmEmailChangeToken: the token is read, then the owner of the new   *)
(* address; a taken address burns the token; otherwise a transaction       *)
(* claims the token and writes the address.                                *)
ConfirmRead(q, i) ==
  /\ Confirmable(i, clock)
  /\ Begin(q, [op |-> "confirm", at |-> "taken", user |-> change[i].user,
               email |-> change[i].email, link |-> i, now |-> clock])
  /\ UNCHANGED <<clock, tables, session, client, traffic, hist>>

ConfirmTaken(q) ==
  /\ Doing(q, "confirm", "taken")
  /\ Goto(q, IF EmailFree(req[q].email, req[q].user) THEN "claim" ELSE "burn")
  /\ UNCHANGED <<clock, tables, session, client, traffic, hist>>

ConfirmBurn(q) ==
  LET i == req[q].link IN
  /\ Doing(q, "confirm", "burn")
  /\ change' = IF change[i] # None
               THEN [change EXCEPT ![i].used = TRUE] ELSE change
  /\ End(q)
  /\ UNCHANGED <<clock, user, token, invite, session, client, traffic, hist>>

ConfirmClaim(q) ==
  LET r == req[q] IN
  /\ Doing(q, "confirm", "claim")
  /\ IF Confirmable(r.link, r.now) /\ EmailFree(r.email, r.user)
     THEN /\ change' = [change EXCEPT ![r.link].used = TRUE]
          /\ user' = [user EXCEPT ![r.user].email = r.email]
          /\ hist' = [hist EXCEPT !.claims["change"][r.link] = @ + 1]
     ELSE UNCHANGED <<change, user, hist>>
  /\ End(q)
  /\ UNCHANGED <<clock, token, invite, session, client, traffic>>

EmailChangeStep(q) ==
  \/ \E u \in Users, e \in Emails : ChangeRead(q, u, e)
  \/ ChangeTaken(q) \/ ChangeDelete(q) \/ ChangeCreate(q)
  \/ \E i \in Links : ConfirmRead(q, i)
  \/ ConfirmTaken(q) \/ ConfirmBurn(q) \/ ConfirmClaim(q)
===============================================================================
