------------------------------- MODULE Accounts -------------------------------
(***************************************************************************)
(* The account services together: sessions, invitations, address changes   *)
(* and the administration of users, with the clock and with processes that *)
(* die between two steps of a request.                                     *)
(*                                                                         *)
(* Bound: a request does not last over two ticks of the clock.             *)
(***************************************************************************)
EXTENDS Sessions, Invitations, EmailChange, UserAdmin

ASSUME SeedAssumption == Seed \in [Users -> UserRow \cup {None}]

Init ==
  /\ clock = 0
  /\ user = Seed
  /\ token = [t \in Tokens |-> None]
  /\ session = [s \in Sids |-> None]
  /\ invite = [i \in Links |-> None]
  /\ change = [i \in Links |-> None]
  /\ access = {} /\ held = {} /\ mailed = {}
  /\ req = [q \in Requests |-> Idle]
  /\ traffic \in Mixes
  /\ hist = [tokens |-> 0, sids |-> 0, invites |-> 0, changes |-> 0,
             tested |-> [u \in Users |-> 0],
             lost |-> [u \in Users |-> [r \in Roles |-> None]],
             ended |-> {}, raced |-> {},
             claims |-> [k \in {"invite", "change"} |-> [i \in Links |-> 0]],
             torn |-> {}]

(* Access tokens that have expired are of no further use to anyone.        *)
Tick ==
  /\ clock < Horizon /\ "time" \in traffic
  /\ \A q \in Requests : req[q] # Idle => req[q].now = clock
  /\ clock' = clock + 1
  /\ access' = {a \in access : clock + 1 < a.exp}
  /\ UNCHANGED <<tables, session, held, mailed, req, traffic, hist>>

(* The process that serves q dies, or a store refuses its next statement.  *)
Die(q) ==
  /\ "failure" \in traffic /\ req[q] # Idle
  /\ End(q)
  /\ hist' = CASE req[q].op = "resend" -> Tear("invite", req[q].user)
               [] req[q].op = "update" -> Tear("update", req[q].user)
               [] OTHER -> hist
  /\ UNCHANGED <<clock, tables, session, client, traffic>>

Next ==
  \/ Tick
  \/ \E q \in Requests :
       \/ SessionStep(q) \/ InvitationStep(q) \/ EmailChangeStep(q)
       \/ UserAdminStep(q) \/ Die(q)

Spec == Init /\ [][Next]_vars

-------------------------------------------------------------------------------
(* The role in an access token is never checked against the database: a    *)
(* user who was demoted, or deleted, keeps the old role.  But not longer   *)
(* than an access token lives: whoever is let in with a role had it, or    *)
(* lost it at most AccessTtl ago, whatever logins and refreshes were under *)
(* way when the row was written (require-auth.ts:122,                      *)
(* auth-service.ts:288 and :358).                                          *)
StaleRoleBounded ==
  \A a \in access : Authorized(a) =>
    \/ Exists(a.user) /\ user[a.user].role = a.role
    \/ /\ hist.lost[a.user][a.role] # None
       /\ clock - hist.lost[a.user][a.role] <= AccessTtl

(* A session that was logged out stays ended: no refresh brings it back,   *)
(* and no token still at hand is let in with it.  The exceptions are the   *)
(* two windows of the code: a refresh that has read the session writes it  *)
(* again (session-store.ts:85), and a logout goes on when Redis fails      *)
(* (auth-service.ts:395).                                                  *)
LogoutEnds ==
  \A s \in hist.ended \ hist.raced : ~Live(s)

(* How many wrong passwords can be tried, and answered, on an account before it is locked *)
(* for good: two logins that overlap read the same count, and the slower   *)
(* one takes away the lock that the faster one has set                     *)
(* (auth-service.ts:194).  Still the count only comes to so many, plus two *)
(* each time the lock runs out, which a slow login makes one tick earlier. *)
GuessesBounded ==
  \A u \in Users :
    Exists(u) /\ Cardinality(Requests) = 2 =>
      hist.tested[u] <= ((LockThreshold * (LockThreshold + 3)) \div 2)
                        + 2 * (clock \div (LockTtl - 1))

(* An invitation, and a link that confirms an address, does its work once, *)
(* however many requests present it at one time                            *)
(* (invitation-service.ts:369, email-change-service.ts:115).               *)
LinkWorksOnce ==
  \A k \in {"invite", "change"}, i \in Links : hist.claims[k][i] <= 1

(* At most one link of a kind can still be used by a user: a new           *)
(* invitation puts the older ones out of use, a new address change too,    *)
(* and nobody who has a password can set another one with an invitation.   *)
(* It takes two overlapping requests for the user, or one that died, to    *)
(* break it (invitation-service.ts:259-287, email-change-service.ts:38).   *)
LatestLinkOnly ==
  LET usable(u) == {i \in Links : /\ ActiveInvitation(i, clock)
                                  /\ invite[i].user = u}
      confirmable(u) == {i \in Links : Confirmable(i, clock)
                                       /\ change[i].user = u}
  IN
  \A u \in Users :
    /\ <<"invite", u>> \notin hist.torn /\ ~Busy("resend", u) =>
         /\ Cardinality(usable(u)) <= 1
         /\ Exists(u) /\ user[u].active => usable(u) = {}
    /\ <<"change", u>> \notin hist.torn => Cardinality(confirmable(u)) <= 1

(* An ADMIN manages the factories of its group, and nobody else manages    *)
(* any, whatever sequence of updates led there, unless an update was       *)
(* overtaken by another, died, or found no factory to give                 *)
(* (user-service.ts:181-195).                                              *)
ScopeMatchesRole ==
  \A u \in Users :
    Exists(u) /\ <<"update", u>> \notin hist.torn /\ ~Busy("update", u) =>
      user[u].managed = IF user[u].role = "ADMIN"
                        THEN FactoriesOf(user[u].group) ELSE {}
===============================================================================
