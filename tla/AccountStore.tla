----------------------------- MODULE AccountStore -----------------------------
(***************************************************************************)
(* What the account services share: the PostgreSQL tables User,            *)
(* RefreshToken, UserInvitation and EmailChangeToken (prisma/schema.prisma), *)
(* the sessions in Redis (modules/auth/session-store.ts), the tokens that  *)
(* clients hold, the clock, and the requests in progress.                  *)
(*                                                                         *)
(* Each service is a module that EXTENDS this one: Sessions.tla,           *)
(* Invitations.tla, EmailChange.tla, UserAdmin.tla.  Accounts.tla puts     *)
(* them together.                                                          *)
(***************************************************************************)
EXTENDS Integers, FiniteSets

CONSTANTS
  Users,           \* primary keys of the User table
  Names, Emails,   \* usernames, addresses
  Groups,          \* production groups
  Factories,       \* the factories
  GroupOf,         \* GroupOf[f]: productionType of the factory
  Requests,        \* the requests that can be in progress at one time
  MaxTokens, MaxSessions, MaxLinks,  \* bounds: rows ever created
  AccessTtl, RefreshTtl,   \* of the two tokens, in ticks of the clock
  LockTtl, LockThreshold,  \* LOGIN_LOCK_MS, LOGIN_LOCK_THRESHOLD
  LinkTtl,         \* of an invitation and of an address change
  Horizon,         \* bound: the clock runs from 0 to this tick
  AskedRoles,      \* the roles that requests give to a user
  Mixes,           \* the mixes of requests; a behaviour has one of them
  Seed,            \* Seed[u]: the row of u at the start, or None
  None             \* null

Roles == {"SUPERADMIN", "ADMIN", "SALES"}
Tokens == 1 .. MaxTokens
Sids == 1 .. MaxSessions
Links == 1 .. MaxLinks
Operations == {"login", "refresh", "logout", "invite", "resend",
               "accept", "change", "confirm", "update", "delete"}
Fields == {"role", "group", "email"}

(* What a mix of requests is made of: operations, the fields that updates  *)
(* write ("demote": a role, and only SALES), "guess" for logins with a     *)
(* wrong password, "time" when the clock runs, "failure" when processes    *)
(* die, and Redis and mail calls fail.                                     *)
Traffic == Operations \cup Fields
           \cup {"demote", "guess", "time", "failure"}

ASSUME StoreAssumption ==
  /\ MaxTokens \in Nat /\ MaxSessions \in Nat /\ MaxLinks \in Nat
  /\ AccessTtl \in Nat \ {0} /\ RefreshTtl \in Nat \ {0}
  /\ LockTtl \in Nat \ {0, 1} /\ LockThreshold \in Nat \ {0}
  /\ LinkTtl \in Nat \ {0} /\ Horizon \in Nat
  /\ GroupOf \in [Factories -> Groups]
  /\ Mixes \subseteq SUBSET Traffic
  /\ AskedRoles \subseteq Roles
  /\ None \notin Users \cup Names \cup Emails \cup Groups \cup Nat \cup Roles
  /\ IsFiniteSet(Requests) /\ IsFiniteSet(Users)

VARIABLES
  clock,    \* the time, in ticks
  user,     \* the User table, with the factories of _FactoryAdmins
  token,    \* the RefreshToken table
  session,  \* the sessions in Redis, under their ids
  invite,   \* the UserInvitation table
  change,   \* the EmailChangeToken table
  access,   \* the access tokens that clients were given
  held,     \* the refresh tokens that clients were given
  mailed,   \* the invitations whose link reached a mailbox
  req,      \* what each request is doing
  traffic,  \* the requests this behaviour is made of (never changes)
  hist      \* history: see below

tables == <<user, token, invite, change>>
client == <<access, held, mailed>>
vars == <<clock, user, token, session, invite, change, access, held, mailed,
          req, traffic, hist>>

UserRow == [name : Names \cup {None}, email : Emails, active : BOOLEAN,
            role : Roles, group : Groups \cup {None}, failed : Nat,
            lockedUntil : Nat \cup {None}, managed : SUBSET Factories]
TokenRow == [user : Users, sid : Sids, exp : Nat, revoked : BOOLEAN]
Session == [user : Users, role : Roles, exp : Nat]
InviteRow == [user : Users, exp : Nat, accepted : BOOLEAN, revoked : BOOLEAN]
ChangeRow == [user : Users, email : Emails, exp : Nat, used : BOOLEAN]
Access == [user : Users, role : Roles, sid : Sids, exp : Nat]
Patches == [role : Roles \cup {None}, group : Groups \cup {None},
            email : Emails \cup {None}]

ASSUME NoneAssumption ==
  None \notin UserRow \cup TokenRow \cup Session \cup InviteRow \cup ChangeRow

(* History: how many identifiers of each table were given out; and, for    *)
(* the properties only: the wrong passwords tested on an account since it  *)
(* was last free of failures; when a user last lost a role; the sessions   *)
(* that were logged out, and those of them that a refresh was using or     *)
(* Redis could not delete; how often a link did its work; the users for    *)
(* whom two requests of one kind overlapped, or one stopped half-way.      *)
Histories == [tokens : 0 .. MaxTokens, sids : 0 .. MaxSessions,
              invites : 0 .. MaxLinks, changes : 0 .. MaxLinks,
              tested : [Users -> Nat],
              lost : [Users -> [Roles -> Nat \cup {None}]],
              ended : SUBSET Sids, raced : SUBSET Sids,
              claims : [{"invite", "change"} -> [Links -> Nat]],
              torn : SUBSET ({"invite", "change", "update"} \X Users)]

Idle == [op |-> "idle"]
LoginReq ==
  [op : {"login"}, at : {"write", "session", "tokens"}, user : Users,
   ok : BOOLEAN, failed : Nat, role : Roles, sid : Sids \cup {None}, now : Nat]
RefreshReq ==
  [op : {"refresh"}, at : {"session", "create", "revoke", "touch"},
   user : Users, token : Tokens, next : Tokens \cup {None}, sid : Sids,
   role : Roles, was : Session \cup {None}, now : Nat]
LogoutReq ==
  [op : {"logout"}, at : {"revoke", "delete"}, token : Tokens, sid : Sids,
   user : Users, now : Nat]
InviteReq ==
  [op : {"invite"}, at : {"create", "mail", "undo"}, user : Users,
   email : Emails, role : Roles, group : Groups \cup {None},
   link : Links \cup {None}, now : Nat]
ResendReq ==
  [op : {"resend"}, at : {"create", "mail", "undo", "revoke"}, user : Users,
   link : Links \cup {None}, now : Nat]
AcceptReq ==
  [op : {"accept"}, at : {"name", "claim"}, user : Users, link : Links,
   name : Names, now : Nat]
ChangeReq ==
  [op : {"change"}, at : {"taken", "delete", "create"}, user : Users,
   email : Emails, now : Nat]
ConfirmReq ==
  [op : {"confirm"}, at : {"taken", "burn", "claim"}, user : Users,
   email : Emails, link : Links, now : Nat]
UpdateReq ==
  [op : {"update"}, at : {"write", "sync"}, user : Users, patch : Patches,
   role : Roles, group : Groups \cup {None}, now : Nat]
DeleteReq == [op : {"delete"}, at : {"write"}, user : Users, now : Nat]
Requested ==
  LoginReq \cup RefreshReq \cup LogoutReq \cup InviteReq \cup ResendReq
  \cup AcceptReq \cup ChangeReq \cup ConfirmReq \cup UpdateReq
  \cup DeleteReq

TypeOK ==
  /\ clock \in 0 .. Horizon
  /\ user \in [Users -> UserRow \cup {None}]
  /\ token \in [Tokens -> TokenRow \cup {None}]
  /\ session \in [Sids -> Session \cup {None}]
  /\ invite \in [Links -> InviteRow \cup {None}]
  /\ change \in [Links -> ChangeRow \cup {None}]
  /\ access \subseteq Access
  /\ held \subseteq Tokens
  /\ mailed \subseteq Links
  /\ req \in [Requests -> Requested \cup {Idle}]
  /\ traffic \in Mixes
  /\ hist \in Histories

-------------------------------------------------------------------------------
Exists(u) == user[u] # None
NeverUsed(u) == ~Exists(u) /\ \A r \in Roles : hist.lost[u][r] = None
Live(s) == session[s] # None /\ clock < session[s].exp

(* A request for which Doing(q, op, at) holds is about to take that step.  *)
Doing(q, op, at) == req[q].op = op /\ req[q].at = at
Busy(op, u) == \E q \in Requests : req[q].op = op /\ req[q].user = u

Begin(q, r) ==
  /\ req[q] = Idle
  /\ r.op \in traffic \/ (r.op = "login" /\ "guess" \in traffic)
  /\ req' = [req EXCEPT ![q] = r]
Goto(q, at) == req' = [req EXCEPT ![q].at = at]
End(q) == req' = [req EXCEPT ![q] = Idle]

(* Identifiers of a table are given out in order, and never twice: n is    *)
(* the one of the row that is created now.                                 *)
NextId(n, made, max) == n = made + 1 /\ n <= max

Tear(kind, u) == [hist EXCEPT !.torn = @ \cup {<<kind, u>>}]

(* The factories of a production group.                                    *)
FactoriesOf(g) == {f \in Factories : GroupOf[f] = g}

(* The unique indexes of the User table.                                   *)
NameFree(n, u) == \A v \in Users \ {u} : Exists(v) => user[v].name # n
EmailFree(e, u) == \A v \in Users \ {u} : Exists(v) => user[v].email # e

(* The role of u is about to become r, None when the row goes.             *)
Losing(u, r) ==
  IF Exists(u) /\ user[u].role # r
  THEN [hist.lost EXCEPT ![u][user[u].role] = clock] ELSE hist.lost

(* user.delete: the tokens and links of the user go with the row           *)
(* (onDelete: Cascade in prisma/schema.prisma).                            *)
DeleteUser(u) ==
  LET without(t) == [i \in DOMAIN t |->
                       IF t[i] # None /\ t[i].user = u THEN None ELSE t[i]]
  IN  /\ user' = [user EXCEPT ![u] = None]
      /\ token' = without(token)
      /\ invite' = without(invite)
      /\ change' = without(change)
===============================================================================
