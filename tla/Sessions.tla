------------------------------- MODULE Sessions -------------------------------
(***************************************************************************)
(* modules/auth/auth-service.ts with session-store.ts, token-service.ts    *)
(* and require-auth.ts: login, refresh, logout, and what an access token   *)
(* entitles its holder to.  The database and Redis are separate stores and *)
(* every await is a step: each request works on the rows it read.          *)
(***************************************************************************)
EXTENDS AccountStore

(* requireAuth: the token verifies, it has not expired and its session is  *)
(* there.  The role is the one the token was issued with.                  *)
Authorized(a) ==
  /\ clock < a.exp
  /\ Live(a.sid)
  /\ session[a.sid].user = a.user

(* Mutant: the lock is written and never looked at.                        *)
IsLockedNever(row) == row.lockedUntil # None /\ FALSE

IsLocked(row) == row.lockedUntil # None /\ row.lockedUntil > clock

(* login, up to verifyPassword: one read of the row.                       *)
LoginRead(q, u, ok) ==
  /\ Exists(u) /\ user[u].active
  /\ ~IsLocked(user[u])
  /\ \/ ok /\ "login" \in traffic
     \/ ~ok /\ "guess" \in traffic
  /\ Begin(q, [op |-> "login", at |-> "write", user |-> u, ok |-> ok,
               failed |-> user[u].failed, role |-> user[u].role,
               sid |-> None, now |-> clock])
  /\ UNCHANGED <<clock, tables, session, client, traffic, hist>>

(* recordFailedLogin: the count is the one that was read, plus one, and    *)
(* below the threshold a lock that was set meanwhile is taken away.        *)
LoginFail(q) ==
  /\ Doing(q, "login", "write") /\ ~req[q].ok
  /\ LET u == req[q].user
         n == req[q].failed + 1
         until == IF n >= LockThreshold THEN req[q].now + LockTtl ELSE None
     IN  /\ user' = IF Exists(u)
                    THEN [user EXCEPT ![u].failed = n,
                                      ![u].lockedUntil = until]
                    ELSE user
         /\ hist' = [hist EXCEPT !.tested[u] = @ + 1]
  /\ End(q)
  /\ UNCHANGED <<clock, token, invite, change, session, client, traffic>>

(* The password is right: the counters are cleared, then the session and   *)
(* the tokens are made with the role that was read.                        *)
LoginClear(q) ==
  /\ Doing(q, "login", "write") /\ req[q].ok
  /\ LET u == req[q].user IN
       IF Exists(u)
       THEN /\ user' = [user EXCEPT ![u].failed = 0, ![u].lockedUntil = None]
            /\ hist' = [hist EXCEPT !.tested[u] = 0]
            /\ Goto(q, "session")
       ELSE End(q) /\ UNCHANGED <<user, hist>>
  /\ UNCHANGED <<clock, token, invite, change, session, client, traffic>>

LoginSession(q) ==
  /\ Doing(q, "login", "session")
  /\ \E s \in Sids :
       /\ NextId(s, hist.sids, MaxSessions)
       /\ session' = [session EXCEPT ![s] =
            [user |-> req[q].user, role |-> req[q].role,
             exp |-> clock + RefreshTtl]]
       /\ req' = [req EXCEPT ![q].sid = s, ![q].at = "tokens"]
       /\ hist' = [hist EXCEPT !.sids = s]
  /\ UNCHANGED <<clock, tables, client, traffic>>

(* createStoredRefreshToken: the row refers to the user, who may be gone.  *)
AddToken(t, u, s, now) ==
  /\ NextId(t, hist.tokens, MaxTokens)
  /\ token' = [token EXCEPT ![t] =
       [user |-> u, sid |-> s, exp |-> now + RefreshTtl, revoked |-> FALSE]]
  /\ hist' = [hist EXCEPT !.tokens = t]

Issue(u, role, s) ==
  access' = access \cup {[user |-> u, role |-> role, sid |-> s,
                          exp |-> clock + AccessTtl]}

LoginTokens(q) ==
  LET r == req[q] IN
  /\ Doing(q, "login", "tokens")
  /\ IF Exists(r.user)
     THEN \E t \in Tokens :
            /\ AddToken(t, r.user, r.sid, r.now)
            /\ held' = held \cup {t}
            /\ Issue(r.user, r.role, r.sid)
     ELSE UNCHANGED <<token, hist, held, access>>
  /\ End(q)
  /\ UNCHANGED <<clock, user, invite, change, session, mailed, traffic>>

Usable(t, now) == token[t] # None /\ ~token[t].revoked /\ token[t].exp > now

(* refresh: the token and its user are read, then the session.             *)
RefreshRead(q, t) ==
  /\ t \in held /\ Usable(t, clock)
  /\ Begin(q, [op |-> "refresh", at |-> "session", user |-> token[t].user,
               token |-> t, next |-> None, sid |-> token[t].sid,
               role |-> user[token[t].user].role, was |-> None,
               now |-> clock])
  /\ UNCHANGED <<clock, tables, session, client, traffic, hist>>

(* Mutant: a session that Redis has lost is made again from the token.     *)
RefreshSessionRemade(q) ==
  LET r == req[q] IN
  /\ Doing(q, "refresh", "session")
  /\ req' = [req EXCEPT ![q].at = "create", ![q].was =
       IF Live(r.sid) THEN session[r.sid]
       ELSE [user |-> r.user, role |-> r.role, exp |-> clock]]
  /\ UNCHANGED <<clock, tables, session, client, traffic, hist>>

RefreshSession(q) ==
  LET s == req[q].sid IN
  /\ Doing(q, "refresh", "session")
  /\ IF Live(s) /\ session[s].user = req[q].user
     THEN req' = [req EXCEPT ![q].at = "create", ![q].was = session[s]]
     ELSE End(q)
  /\ UNCHANGED <<clock, tables, session, client, traffic, hist>>

RefreshCreate(q) ==
  LET r == req[q] IN
  /\ Doing(q, "refresh", "create")
  /\ IF Exists(r.user)
     THEN \E t \in Tokens :
            /\ AddToken(t, r.user, r.sid, r.now)
            /\ req' = [req EXCEPT ![q].next = t, ![q].at = "revoke"]
     ELSE End(q) /\ UNCHANGED <<token, hist>>
  /\ UNCHANGED <<clock, user, invite, change, session, client, traffic>>

RefreshRevoke(q) ==
  LET t == req[q].token IN
  /\ Doing(q, "refresh", "revoke")
  /\ IF token[t] # None
     THEN token' = [token EXCEPT ![t].revoked = TRUE] /\ Goto(q, "touch")
     ELSE End(q) /\ UNCHANGED token
  /\ UNCHANGED <<clock, user, invite, change, session, client, traffic, hist>>

(* touchAuthSession writes the session that was read, whether or not it is *)
(* still there; the access token has the role of the row that was read.    *)
(* Mutant: the role comes from the session, as it was at the login.        *)
RefreshTouchSessionRole(q) ==
  LET r == req[q] IN
  /\ Doing(q, "refresh", "touch")
  /\ session' = [session EXCEPT ![r.sid] =
       [r.was EXCEPT !.exp = clock + RefreshTtl]]
  /\ held' = held \cup {r.next}
  /\ Issue(r.user, r.was.role, r.sid)
  /\ End(q)
  /\ UNCHANGED <<clock, tables, mailed, traffic, hist>>

RefreshTouch(q) ==
  LET r == req[q] IN
  /\ Doing(q, "refresh", "touch")
  /\ session' = [session EXCEPT ![r.sid] =
       [r.was EXCEPT !.exp = clock + RefreshTtl]]
  /\ held' = held \cup {r.next}
  /\ Issue(r.user, r.role, r.sid)
  /\ End(q)
  /\ UNCHANGED <<clock, tables, mailed, traffic, hist>>

(* logout: an unusable token is ignored; the token is revoked and the      *)
(* session deleted, each in its store.  Only this one token is revoked.    *)
LogoutRead(q, t) ==
  /\ t \in held /\ Usable(t, clock)
  /\ Begin(q, [op |-> "logout", at |-> "revoke", token |-> t,
               sid |-> token[t].sid, user |-> token[t].user, now |-> clock])
  /\ UNCHANGED <<clock, tables, session, client, traffic, hist>>

LogoutRevoke(q) ==
  LET t == req[q].token IN
  /\ Doing(q, "logout", "revoke")
  /\ IF token[t] # None
     THEN token' = [token EXCEPT ![t].revoked = TRUE] /\ Goto(q, "delete")
     ELSE End(q) /\ UNCHANGED token
  /\ UNCHANGED <<clock, user, invite, change, session, client, traffic, hist>>

(* A failure of Redis is logged, and the logout succeeds all the same.     *)
LogoutDelete(q, reached) ==
  LET s == req[q].sid
      touching == \E p \in Requests : /\ req[p].op = "refresh"
                                      /\ req[p].sid = s
                                      /\ req[p].at # "session"
  IN
  /\ Doing(q, "logout", "delete")
  /\ reached \/ "failure" \in traffic
  /\ session' = IF reached THEN [session EXCEPT ![s] = None] ELSE session
  /\ hist' = [hist EXCEPT
       !.ended = @ \cup {s},
       !.raced = IF touching \/ ~reached THEN @ \cup {s} ELSE @]
  /\ End(q)
  /\ UNCHANGED <<clock, tables, client, traffic>>

SessionStep(q) ==
  \/ \E u \in Users, ok \in BOOLEAN : LoginRead(q, u, ok)
  \/ LoginFail(q) \/ LoginClear(q) \/ LoginSession(q) \/ LoginTokens(q)
  \/ \E t \in Tokens : RefreshRead(q, t)
  \/ RefreshSession(q) \/ RefreshCreate(q) \/ RefreshRevoke(q)
  \/ RefreshTouch(q)
  \/ \E t \in Tokens : LogoutRead(q, t)
  \/ LogoutRevoke(q)
  \/ \E reached \in BOOLEAN : LogoutDelete(q, reached)
===============================================================================
