------------------------------ MODULE UserAdmin -------------------------------
(***************************************************************************)
(* modules/users/user-service.ts and infra/db/user-repository.ts: what a   *)
(* SUPERADMIN does to the other accounts.  An ADMIN manages the factories  *)
(* of its group; syncAdminFactoryAssignments keeps that relation.          *)
(***************************************************************************)
EXTENDS AccountStore

(* A field that the request leaves out keeps its value.                    *)
Given(new, old) == IF new # None THEN new ELSE old

(* updateUserService: the row is read, then written by updateUser, whose   *)
(* unique indexes may refuse it.                                           *)
UpdateRead(q, u, patch) ==
  /\ Exists(u)
  /\ patch # [role |-> None, group |-> None, email |-> None]
  /\ \A f \in {"group", "email"} : patch[f] # None => f \in traffic
  /\ \/ patch.role = None
     \/ patch.role \in AskedRoles /\ "role" \in traffic
     \/ patch.role = "SALES" /\ "demote" \in traffic
  /\ Begin(q, [op |-> "update", at |-> "write", user |-> u, patch |-> patch,
               role |-> user[u].role, group |-> user[u].group,
               now |-> clock])
  /\ hist' = IF Busy("update", u)
             THEN Tear("update", u) ELSE hist
  /\ UNCHANGED <<clock, tables, session, client, traffic>>

(* Whether the factories have to be written: the role or the group is in   *)
(* the patch, and the user was an ADMIN, or becomes or stays one.          *)
(* Mutant: only the new role is looked at.                                 *)
NeedsSyncNewRole(r) ==
  /\ r.patch.role # None \/ r.patch.group # None
  /\ Given(r.patch.role, r.role) = "ADMIN"

NeedsSync(r) ==
  /\ r.patch.role # None \/ r.patch.group # None
  /\ r.role = "ADMIN" \/ Given(r.patch.role, r.role) = "ADMIN"

UpdateWrite(q) ==
  LET r == req[q]
      u == r.user
      p == r.patch
  IN
  /\ Doing(q, "update", "write")
  /\ IF Exists(u) /\ (p.email # None => EmailFree(p.email, u))
     THEN /\ user' = [user EXCEPT ![u].role = Given(p.role, @),
                                   ![u].group = Given(p.group, @),
                                   ![u].email = Given(p.email, @)]
          /\ hist' = [hist EXCEPT !.lost = Losing(u, Given(p.role, user[u].role))]
          /\ IF NeedsSync(r) THEN Goto(q, "sync") ELSE End(q)
     ELSE End(q) /\ UNCHANGED <<user, hist>>
  /\ UNCHANGED <<clock, token, invite, change, session, client, traffic>>

(* syncAdminFactoryAssignments, with the role and group that were read or  *)
(* given.  For an ADMIN without a group, or with one that has no factory,  *)
(* it throws, and what was written stays.                                  *)
UpdateSync(q) ==
  LET r == req[q]
      u == r.user
      group == Given(r.patch.group, r.group)
      managed == IF Given(r.patch.role, r.role) # "ADMIN" THEN {}
                 ELSE FactoriesOf(group)
      throws == Given(r.patch.role, r.role) = "ADMIN" /\ managed = {}
  IN
  /\ Doing(q, "update", "sync")
  /\ user' = IF throws \/ ~Exists(u) THEN user
             ELSE [user EXCEPT ![u].managed = managed]
  /\ hist' = IF throws THEN Tear("update", u) ELSE hist
  /\ End(q)
  /\ UNCHANGED <<clock, token, invite, change, session, client, traffic>>

(* deleteUserService; the caller is never the target, because no target is *)
(* a SUPERADMIN.                                                           *)
DeleteRead(q, u) ==
  /\ Exists(u) /\ user[u].role # "SUPERADMIN"
  /\ Begin(q, [op |-> "delete", at |-> "write", user |-> u, now |-> clock])
  /\ UNCHANGED <<clock, tables, session, client, traffic, hist>>

DeleteWrite(q) ==
  LET u == req[q].user IN
  /\ Doing(q, "delete", "write")
  /\ DeleteUser(u)
  /\ hist' = [hist EXCEPT !.lost = Losing(u, None)]
  /\ End(q)
  /\ UNCHANGED <<clock, session, client, traffic>>

UserAdminStep(q) ==
  \/ \E u \in Users, p \in Patches : UpdateRead(q, u, p)
  \/ UpdateWrite(q) \/ UpdateSync(q)
  \/ \E u \in Users : DeleteRead(q, u)
  \/ DeleteWrite(q)
===============================================================================
