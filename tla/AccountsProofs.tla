---------------------------- MODULE AccountsProofs ----------------------------
(***************************************************************************)
(* Theorems about Accounts, for any users, addresses, groups, mixes of     *)
(* requests, lifetimes and bounds, and any number of requests at a time.   *)
(***************************************************************************)
EXTENDS Accounts, FiniteSetTheorems, TLAPS

(* What the step that a request has reached says of the request and of the *)
(* rows it has read.                                                       *)
Timely(q) ==
  req[q] # Idle => req[q].now <= clock /\ clock <= req[q].now + 1
LoginSound(q) ==
  Doing(q, "login", "tokens") => req[q].sid \in 1 .. hist.sids
RefreshSound(q) ==
  req[q].op = "refresh" =>
    /\ req[q].sid <= hist.sids
    /\ req[q].at # "session" => req[q].was \in Session
    /\ req[q].at \in {"revoke", "touch"} => req[q].next \in Tokens
LogoutSound(q) == req[q].op = "logout" => req[q].sid <= hist.sids
MailSound(q) ==
  req[q].op \in {"invite", "resend"} /\ req[q].at # "create" =>
    req[q].link \in Links
AcceptSound(q) ==
  req[q].op = "accept" =>
    /\ req[q].link <= hist.invites
    /\ invite[req[q].link] # None => invite[req[q].link].user = req[q].user
ConfirmSound(q) ==
  req[q].op = "confirm" =>
    /\ req[q].link <= hist.changes
    /\ change[req[q].link] # None => change[req[q].link].user = req[q].user
Sound(q) ==
  /\ Timely(q) /\ LoginSound(q) /\ RefreshSound(q) /\ LogoutSound(q)
  /\ MailSound(q) /\ AcceptSound(q) /\ ConfirmSound(q)

RequestsOK ==
  /\ req \in [Requests -> Requested \cup {Idle}]
  /\ \A q \in Requests : Sound(q)

StoresTyped ==
  /\ clock \in 0 .. Horizon
  /\ user \in [Users -> UserRow \cup {None}]
  /\ token \in [Tokens -> TokenRow \cup {None}]
  /\ session \in [Sids -> Session \cup {None}]
  /\ invite \in [Links -> InviteRow \cup {None}]
  /\ change \in [Links -> ChangeRow \cup {None}]
  /\ access \subseteq Access
  /\ held \subseteq Tokens
  /\ mailed \subseteq Links
  /\ traffic \in Mixes
  /\ hist \in Histories

(* Tokens and links belong to a user who is there (the cascade), and no    *)
(* row has an identifier that was not given out.                           *)
Owned ==
  /\ \A t \in Tokens : token[t] # None =>
       Exists(token[t].user) /\ token[t].sid <= hist.sids
  /\ \A i \in Links : invite[i] # None =>
       Exists(invite[i].user) /\ i <= hist.invites
  /\ \A i \in Links : change[i] # None =>
       Exists(change[i].user) /\ i <= hist.changes

IInv == StoresTyped /\ Owned /\ RequestsOK

(* What every step but a tick does to the rows that requests have read.    *)
Grows ==
  /\ clock' = clock
  /\ hist.sids <= hist'.sids
  /\ hist.invites <= hist'.invites
  /\ hist.changes <= hist'.changes
  /\ \A i \in Links : i <= hist.invites /\ invite'[i] # None =>
       invite[i] # None /\ invite'[i].user = invite[i].user
  /\ \A i \in Links : i <= hist.changes /\ change'[i] # None =>
       change[i] # None /\ change'[i].user = change[i].user

(* The fields of a request, by its operation.                              *)
LEMMA FieldsOf ==
  ASSUME NEW r \in Requested \cup {Idle}
  PROVE  /\ r.op = "login" => r \in LoginReq
         /\ r.op = "refresh" => r \in RefreshReq
         /\ r.op = "logout" => r \in LogoutReq
         /\ r.op = "invite" => r \in InviteReq
         /\ r.op = "resend" => r \in ResendReq
         /\ r.op = "accept" => r \in AcceptReq
         /\ r.op = "change" => r \in ChangeReq
         /\ r.op = "confirm" => r \in ConfirmReq
         /\ r.op = "update" => r \in UpdateReq
         /\ r.op = "delete" => r \in DeleteReq
         /\ r.op = "idle" <=> r = Idle
         /\ r # Idle => r \in Requested
<1>1. CASE r \in LoginReq
  BY <1>1 DEF LoginReq, Idle, Requested
<1>2. CASE r \in RefreshReq
  BY <1>2 DEF RefreshReq, Idle, Requested
<1>3. CASE r \in LogoutReq
  BY <1>3 DEF LogoutReq, Idle, Requested
<1>4. CASE r \in InviteReq
  BY <1>4 DEF InviteReq, Idle, Requested
<1>5. CASE r \in ResendReq
  BY <1>5 DEF ResendReq, Idle, Requested
<1>6. CASE r \in AcceptReq
  BY <1>6 DEF AcceptReq, Idle, Requested
<1>7. CASE r \in ChangeReq
  BY <1>7 DEF ChangeReq, Idle, Requested
<1>8. CASE r \in ConfirmReq
  BY <1>8 DEF ConfirmReq, Idle, Requested
<1>9. CASE r \in UpdateReq
  BY <1>9 DEF UpdateReq, Idle, Requested
<1>10. CASE r \in DeleteReq
  BY <1>10 DEF DeleteReq, Idle, Requested
<1>11. CASE r = Idle
  BY <1>11 DEF Idle
<1> QED
  BY <1>1, <1>2, <1>3, <1>4, <1>5, <1>6, <1>7, <1>8, <1>9, <1>10, <1>11 DEF Requested

LEMMA Counters ==
  /\ hist \in Histories => /\ hist.sids \in Nat /\ hist.tokens \in Nat
                           /\ hist.invites \in Nat /\ hist.changes \in Nat
  /\ hist' \in Histories => /\ hist'.sids \in Nat /\ hist'.tokens \in Nat
                            /\ hist'.invites \in Nat /\ hist'.changes \in Nat
BY DEF Histories

(* A request moves on, and what the others have read stays true.           *)
LEMMA MoveOn ==
  ASSUME RequestsOK, Grows, hist \in Histories, hist' \in Histories,
         NEW q \in Requests, NEW r \in Requested \cup {Idle},
         req' = [req EXCEPT ![q] = r], Sound(q)'
  PROVE  RequestsOK'
<1>1. req' \in [Requests -> Requested \cup {Idle}]
  BY DEF RequestsOK
<1>2. ASSUME NEW p \in Requests PROVE Sound(p)'
  <2>1. CASE p = q
    BY <2>1
  <2>2. CASE p # q
    <3>1. req'[p] = req[p] /\ Sound(p) /\ req[p] \in Requested \cup {Idle}
      BY <2>2 DEF RequestsOK
    <3>2. Timely(p)'
      BY <3>1 DEF Sound, Timely, Grows
    <3>3. LoginSound(p)'
      BY <3>1 DEF Sound, LoginSound, Doing, Grows, Histories
    <3>4. RefreshSound(p)'
      <4> SUFFICES ASSUME req[p].op = "refresh" PROVE RefreshSound(p)'
        BY <3>1 DEF RefreshSound
      <4>1. req[p] \in RefreshReq
        BY <3>1, FieldsOf
      <4> QED
        BY <3>1, <4>1 DEF Sound, RefreshSound, Grows, Histories, RefreshReq, Sids
    <3>5. LogoutSound(p)'
      <4> SUFFICES ASSUME req[p].op = "logout" PROVE LogoutSound(p)'
        BY <3>1 DEF LogoutSound
      <4>1. req[p] \in LogoutReq
        BY <3>1, FieldsOf
      <4> QED
        BY <3>1, <4>1 DEF Sound, LogoutSound, Grows, Histories, LogoutReq, Sids
    <3>6. MailSound(p)'
      BY <3>1 DEF Sound, MailSound
    <3>7. AcceptSound(p)'
      <4> SUFFICES ASSUME req[p].op = "accept" PROVE AcceptSound(p)'
        BY <3>1 DEF AcceptSound
      <4> DEFINE i == req[p].link
      <4>1. i \in Links /\ i \in Nat
        BY <3>1, FieldsOf, StoreAssumption DEF AcceptReq, Links
      <4>2. i <= hist.invites /\ (invite[i] # None => invite[i].user = req[p].user)
        BY <3>1 DEF Sound, AcceptSound
      <4>3. i <= hist'.invites
        BY <4>1, <4>2, Counters DEF Grows
      <4>4. invite'[i] # None => invite'[i].user = req[p].user
        BY <4>1, <4>2 DEF Grows
      <4> QED
        BY <3>1, <4>3, <4>4 DEF AcceptSound
    <3>8. ConfirmSound(p)'
      <4> SUFFICES ASSUME req[p].op = "confirm" PROVE ConfirmSound(p)'
        BY <3>1 DEF ConfirmSound
      <4> DEFINE i == req[p].link
      <4>1. i \in Links /\ i \in Nat
        BY <3>1, FieldsOf, StoreAssumption DEF ConfirmReq, Links
      <4>2. i <= hist.changes /\ (change[i] # None => change[i].user = req[p].user)
        BY <3>1 DEF Sound, ConfirmSound
      <4>3. i <= hist'.changes
        BY <4>1, <4>2, Counters DEF Grows
      <4>4. change'[i] # None => change'[i].user = req[p].user
        BY <4>1, <4>2 DEF Grows
      <4> QED
        BY <3>1, <4>3, <4>4 DEF ConfirmSound
    <3> QED
      BY <3>2, <3>3, <3>4, <3>5, <3>6, <3>7, <3>8 DEF Sound
  <2> QED
    BY <2>1, <2>2
<1> QED
  BY <1>1, <1>2 DEF RequestsOK

(* An action shows three things: what becomes of the stores, that it is a  *)
(* step of Grows, and what its request has become.                         *)
Stores == StoresTyped /\ Owned

LEMMA TearTyped ==
  ASSUME hist \in Histories, NEW kind \in {"invite", "change", "update"},
         NEW u \in Users
  PROVE  /\ Tear(kind, u) \in Histories
         /\ Tear(kind, u).sids = hist.sids
         /\ Tear(kind, u).invites = hist.invites
         /\ Tear(kind, u).changes = hist.changes
<1>1. hist.torn \cup {<<kind, u>>} \in SUBSET ({"invite", "change", "update"} \X Users)
  BY DEF Histories
<1> QED
  BY <1>1 DEF Histories, Tear

(* A step that only moves a request on, and may note that it is torn.      *)
LEMMA OnlyMoves ==
  ASSUME IInv, NEW q \in Requests, NEW r \in Requested \cup {Idle},
         req' = [req EXCEPT ![q] = r], Sound(q)',
         UNCHANGED <<clock, tables, session, client, traffic>>,
         \/ hist' = hist
         \/ \E kind \in {"invite", "change", "update"}, u \in Users :
              hist' = Tear(kind, u)
  PROVE  IInv'
<1>1. /\ hist' \in Histories
      /\ hist'.sids = hist.sids /\ hist'.invites = hist.invites
      /\ hist'.changes = hist.changes
  BY TearTyped DEF IInv, StoresTyped
<1>2. StoresTyped'
  BY <1>1 DEF IInv, StoresTyped, tables, client
<1>3. Owned'
  BY <1>1 DEF IInv, Owned, Exists, tables
<1>4. Grows
  BY <1>1, Counters DEF IInv, StoresTyped, Grows, tables
<1> QED
  BY <1>1, <1>2, <1>3, <1>4, MoveOn DEF IInv, StoresTyped

(* What is true of a request that ends.                                    *)
LEMMA Ended == ASSUME NEW q \in Requests, req \in [Requests -> Requested \cup {Idle}],
                      End(q) PROVE Sound(q)'
<1>1. req'[q] = Idle
  BY DEF End
<1> QED
  BY <1>1 DEF Idle, Sound, Timely, LoginSound, RefreshSound, LogoutSound,
              MailSound, AcceptSound, ConfirmSound, Doing

LEMMA LoginBegins ==
  ASSUME IInv, NEW q \in Requests, NEW u \in Users, NEW ok \in BOOLEAN,
         LoginRead(q, u, ok)
  PROVE  IInv'
<1> DEFINE r == [op |-> "login", at |-> "write", user |-> u, ok |-> ok,
                 failed |-> user[u].failed, role |-> user[u].role,
                 sid |-> None, now |-> clock]
<1>1. r \in LoginReq
  BY StoreAssumption DEF IInv, StoresTyped, LoginRead, Exists, UserRow, LoginReq
<1>2. r \in Requested \cup {Idle}
  BY <1>1 DEF Requested
<1>3. req' = [req EXCEPT ![q] = r]
  BY DEF LoginRead, Begin
<1>4. req'[q] = r /\ clock' = clock /\ clock \in Nat
  BY <1>3, StoreAssumption DEF IInv, RequestsOK, LoginRead, StoresTyped
<1>5. Sound(q)'
  BY <1>4
     DEF Sound, Timely, LoginSound, RefreshSound, LogoutSound,
         MailSound, AcceptSound, ConfirmSound, Doing
<1> QED
  BY <1>2, <1>3, <1>5, OnlyMoves DEF LoginRead

LEMMA RefreshBegins ==
  ASSUME IInv, NEW q \in Requests, NEW t \in Tokens,
         RefreshRead(q, t)
  PROVE  IInv'
<1> DEFINE r == [op |-> "refresh", at |-> "session", user |-> token[t].user,
                 token |-> t, next |-> None, sid |-> token[t].sid,
                 role |-> user[token[t].user].role, was |-> None,
                 now |-> clock]
<1>1. r \in RefreshReq
  BY StoreAssumption DEF IInv, StoresTyped, RefreshRead, Usable, Owned, Exists, TokenRow, UserRow, RefreshReq
<1>2. r \in Requested \cup {Idle}
  BY <1>1 DEF Requested
<1>3. req' = [req EXCEPT ![q] = r]
  BY DEF RefreshRead, Begin
<1>4. req'[q] = r /\ clock' = clock /\ clock \in Nat
  BY <1>3, StoreAssumption DEF IInv, RequestsOK, RefreshRead, StoresTyped
<1>6. r.sid <= hist'.sids
  BY DEF IInv, Owned, Usable, RefreshRead
<1>5. Sound(q)'
  BY <1>4, <1>6
     DEF Sound, Timely, LoginSound, RefreshSound, LogoutSound,
         MailSound, AcceptSound, ConfirmSound, Doing
<1> QED
  BY <1>2, <1>3, <1>5, OnlyMoves DEF RefreshRead

LEMMA LogoutBegins ==
  ASSUME IInv, NEW q \in Requests, NEW t \in Tokens,
         LogoutRead(q, t)
  PROVE  IInv'
<1> DEFINE r == [op |-> "logout", at |-> "revoke", token |-> t,
                 sid |-> token[t].sid, user |-> token[t].user,
                 now |-> clock]
<1>1. r \in LogoutReq
  BY StoreAssumption DEF IInv, StoresTyped, LogoutRead, Usable, TokenRow, LogoutReq
<1>2. r \in Requested \cup {Idle}
  BY <1>1 DEF Requested
<1>3. req' = [req EXCEPT ![q] = r]
  BY DEF LogoutRead, Begin
<1>4. req'[q] = r /\ clock' = clock /\ clock \in Nat
  BY <1>3, StoreAssumption DEF IInv, RequestsOK, LogoutRead, StoresTyped
<1>6. r.sid <= hist'.sids
  BY DEF IInv, Owned, Usable, LogoutRead
<1>5. Sound(q)'
  BY <1>4, <1>6
     DEF Sound, Timely, LoginSound, RefreshSound, LogoutSound,
         MailSound, AcceptSound, ConfirmSound, Doing
<1> QED
  BY <1>2, <1>3, <1>5, OnlyMoves DEF LogoutRead

LEMMA InviteBegins ==
  ASSUME IInv, NEW q \in Requests, NEW u \in Users, NEW e \in Emails,
         NEW x \in AskedRoles, NEW g \in Groups \cup {None},
         InviteCheck(q, u, e, x, g)
  PROVE  IInv'
<1> DEFINE r == [op |-> "invite", at |-> "create", user |-> u, email |-> e,
                 role |-> x, group |-> g, link |-> None, now |-> clock]
<1>1. r \in InviteReq
  BY StoreAssumption DEF IInv, StoresTyped, InviteCheck, InviteReq
<1>2. r \in Requested \cup {Idle}
  BY <1>1 DEF Requested
<1>3. req' = [req EXCEPT ![q] = r]
  BY DEF InviteCheck, Begin
<1>4. req'[q] = r /\ clock' = clock /\ clock \in Nat
  BY <1>3, StoreAssumption DEF IInv, RequestsOK, InviteCheck, StoresTyped
<1>5. Sound(q)'
  BY <1>4
     DEF Sound, Timely, LoginSound, RefreshSound, LogoutSound,
         MailSound, AcceptSound, ConfirmSound, Doing
<1> QED
  BY <1>2, <1>3, <1>5, OnlyMoves DEF InviteCheck

LEMMA ResendBegins ==
  ASSUME IInv, NEW q \in Requests, NEW u \in Users,
         ResendRead(q, u)
  PROVE  IInv'
<1> DEFINE r == [op |-> "resend", at |-> "create", user |-> u, link |-> None,
                 now |-> clock]
<1>1. r \in ResendReq
  BY StoreAssumption DEF IInv, StoresTyped, ResendRead, ResendReq
<1>2. r \in Requested \cup {Idle}
  BY <1>1 DEF Requested
<1>3. req' = [req EXCEPT ![q] = r]
  BY DEF ResendRead, Begin
<1>4. req'[q] = r /\ clock' = clock /\ clock \in Nat
  BY <1>3, StoreAssumption DEF IInv, RequestsOK, ResendRead, StoresTyped
<1>5. Sound(q)'
  BY <1>4
     DEF Sound, Timely, LoginSound, RefreshSound, LogoutSound,
         MailSound, AcceptSound, ConfirmSound, Doing
<1> QED
  BY <1>2, <1>3, <1>5, OnlyMoves DEF ResendRead

LEMMA AcceptBegins ==
  ASSUME IInv, NEW q \in Requests, NEW i \in Links, NEW n \in Names,
         AcceptRead(q, i, n)
  PROVE  IInv'
<1> DEFINE r == [op |-> "accept", at |-> "name", user |-> invite[i].user,
                 link |-> i, name |-> n, now |-> clock]
<1>1. r \in AcceptReq
  BY StoreAssumption DEF IInv, StoresTyped, AcceptRead, ActiveInvitation, Pending, InviteRow, AcceptReq
<1>2. r \in Requested \cup {Idle}
  BY <1>1 DEF Requested
<1>3. req' = [req EXCEPT ![q] = r]
  BY DEF AcceptRead, Begin
<1>4. req'[q] = r /\ clock' = clock /\ clock \in Nat
  BY <1>3, StoreAssumption DEF IInv, RequestsOK, AcceptRead, StoresTyped
<1>6. i <= hist'.invites /\ invite' = invite
  <2>1. i <= hist.invites
    BY DEF IInv, Owned, AcceptRead, ActiveInvitation, Pending
  <2>2. invite[i].user \in Users
    BY <1>1 DEF AcceptReq
  <2>3. hist'.invites = hist.invites
    BY <2>2, TearTyped DEF AcceptRead, IInv, StoresTyped
  <2> QED
    BY <2>1, <2>3 DEF AcceptRead, tables
<1>7. invite[i].user \in Users
  BY <1>1 DEF AcceptReq
<1>5. Sound(q)'
  BY <1>4, <1>6
     DEF Sound, Timely, LoginSound, RefreshSound, LogoutSound,
         MailSound, AcceptSound, ConfirmSound, Doing
<1> QED
  BY <1>2, <1>3, <1>5, OnlyMoves, <1>7 DEF AcceptRead

LEMMA ChangeBegins ==
  ASSUME IInv, NEW q \in Requests, NEW u \in Users, NEW e \in Emails,
         ChangeRead(q, u, e)
  PROVE  IInv'
<1> DEFINE r == [op |-> "change", at |-> "taken", user |-> u, email |-> e,
                 now |-> clock]
<1>1. r \in ChangeReq
  BY StoreAssumption DEF IInv, StoresTyped, ChangeRead, ChangeReq
<1>2. r \in Requested \cup {Idle}
  BY <1>1 DEF Requested
<1>3. req' = [req EXCEPT ![q] = r]
  BY DEF ChangeRead, Begin
<1>4. req'[q] = r /\ clock' = clock /\ clock \in Nat
  BY <1>3, StoreAssumption DEF IInv, RequestsOK, ChangeRead, StoresTyped
<1>5. Sound(q)'
  BY <1>4
     DEF Sound, Timely, LoginSound, RefreshSound, LogoutSound,
         MailSound, AcceptSound, ConfirmSound, Doing
<1> QED
  BY <1>2, <1>3, <1>5, OnlyMoves DEF ChangeRead

LEMMA ConfirmBegins ==
  ASSUME IInv, NEW q \in Requests, NEW i \in Links,
         ConfirmRead(q, i)
  PROVE  IInv'
<1> DEFINE r == [op |-> "confirm", at |-> "taken", user |-> change[i].user,
                 email |-> change[i].email, link |-> i, now |-> clock]
<1>1. r \in ConfirmReq
  BY StoreAssumption DEF IInv, StoresTyped, ConfirmRead, Confirmable, ChangeRow, ConfirmReq
<1>2. r \in Requested \cup {Idle}
  BY <1>1 DEF Requested
<1>3. req' = [req EXCEPT ![q] = r]
  BY DEF ConfirmRead, Begin
<1>4. req'[q] = r /\ clock' = clock /\ clock \in Nat
  BY <1>3, StoreAssumption DEF IInv, RequestsOK, ConfirmRead, StoresTyped
<1>6. i <= hist'.changes /\ change' = change
  BY DEF IInv, Owned, ConfirmRead, Confirmable, tables
<1>5. Sound(q)'
  BY <1>4, <1>6
     DEF Sound, Timely, LoginSound, RefreshSound, LogoutSound,
         MailSound, AcceptSound, ConfirmSound, Doing
<1> QED
  BY <1>2, <1>3, <1>5, OnlyMoves DEF ConfirmRead

LEMMA UpdateBegins ==
  ASSUME IInv, NEW q \in Requests, NEW u \in Users, NEW p \in Patches,
         UpdateRead(q, u, p)
  PROVE  IInv'
<1> DEFINE r == [op |-> "update", at |-> "write", user |-> u, patch |-> p,
                 role |-> user[u].role, group |-> user[u].group,
                 now |-> clock]
<1>1. r \in UpdateReq
  BY StoreAssumption DEF IInv, StoresTyped, UpdateRead, Exists, UserRow, UpdateReq
<1>2. r \in Requested \cup {Idle}
  BY <1>1 DEF Requested
<1>3. req' = [req EXCEPT ![q] = r]
  BY DEF UpdateRead, Begin
<1>4. req'[q] = r /\ clock' = clock /\ clock \in Nat
  BY <1>3, StoreAssumption DEF IInv, RequestsOK, UpdateRead, StoresTyped
<1>5. Sound(q)'
  BY <1>4
     DEF Sound, Timely, LoginSound, RefreshSound, LogoutSound,
         MailSound, AcceptSound, ConfirmSound, Doing
<1> QED
  BY <1>2, <1>3, <1>5, OnlyMoves DEF UpdateRead

LEMMA DeleteBegins ==
  ASSUME IInv, NEW q \in Requests, NEW u \in Users,
         DeleteRead(q, u)
  PROVE  IInv'
<1> DEFINE r == [op |-> "delete", at |-> "write", user |-> u, now |-> clock]
<1>1. r \in DeleteReq
  BY StoreAssumption DEF IInv, StoresTyped, DeleteRead, DeleteReq
<1>2. r \in Requested \cup {Idle}
  BY <1>1 DEF Requested
<1>3. req' = [req EXCEPT ![q] = r]
  BY DEF DeleteRead, Begin
<1>4. req'[q] = r /\ clock' = clock /\ clock \in Nat
  BY <1>3, StoreAssumption DEF IInv, RequestsOK, DeleteRead, StoresTyped
<1>5. Sound(q)'
  BY <1>4
     DEF Sound, Timely, LoginSound, RefreshSound, LogoutSound,
         MailSound, AcceptSound, ConfirmSound, Doing
<1> QED
  BY <1>2, <1>3, <1>5, OnlyMoves DEF DeleteRead

(* A request that ends, with the stores as they are.                       *)
LEMMA Ends ==
  ASSUME IInv, NEW q \in Requests, End(q),
         UNCHANGED <<clock, tables, session, client, traffic>>,
         \/ hist' = hist
         \/ \E kind \in {"invite", "change", "update"}, u \in Users :
              hist' = Tear(kind, u)
  PROVE  IInv'
BY Ended, OnlyMoves DEF End, IInv, RequestsOK

LEMMA RefreshReads ==
  ASSUME IInv, NEW q \in Requests, RefreshSession(q)
  PROVE  IInv'
<1> DEFINE s == req[q].sid
           r == [req[q] EXCEPT !.at = "create", !.was = session[s]]
<1>1. CASE Live(s) /\ session[s].user = req[q].user
  <2>1. req[q] \in RefreshReq
    BY FieldsOf DEF IInv, RequestsOK, RefreshSession, Doing
  <2>2. session[s] \in Session
    BY <1>1, <2>1 DEF IInv, StoresTyped, Live, RefreshReq
  <2>3. r \in RefreshReq /\ r.op = "refresh" /\ r.at = "create"
        /\ r.was = session[s] /\ r.sid = s /\ r.now = req[q].now /\ r # Idle
    BY <2>1, <2>2 DEF RefreshReq, Idle
  <2>4. req' = [req EXCEPT ![q] = r]
    BY <1>1 DEF RefreshSession
  <2>5. req'[q] = r /\ clock' = clock /\ hist' = hist /\ req[q] # Idle
    BY <2>4 DEF IInv, RequestsOK, RefreshSession, Doing, Idle
  <2>6. Sound(q)
    BY DEF IInv, RequestsOK
  <2>7. Sound(q)'
    BY <2>1, <2>2, <2>3, <2>5, <2>6
       DEF Sound, Timely, LoginSound, RefreshSound, LogoutSound,
           MailSound, AcceptSound, ConfirmSound, Doing
  <2> QED
    BY <2>3, <2>4, <2>7, OnlyMoves DEF RefreshSession, Requested
<1>2. CASE ~(Live(s) /\ session[s].user = req[q].user)
  BY <1>2, Ends DEF RefreshSession
<1> QED
  BY <1>1, <1>2

LEMMA LinkStays ==
  ASSUME Grows, hist \in Histories, hist' \in Histories, NEW i \in Links, NEW u
  PROVE  /\ i <= hist.invites /\ (invite[i] # None => invite[i].user = u)
              => /\ i <= hist'.invites
                 /\ invite'[i] # None => invite'[i].user = u
         /\ i <= hist.changes /\ (change[i] # None => change[i].user = u)
              => /\ i <= hist'.changes
                 /\ change'[i] # None => change'[i].user = u
<1>1. i \in Nat
  BY StoreAssumption DEF Links
<1> QED
  BY <1>1, Counters DEF Grows

(* A request goes on to a step that rests on no more than the last one.    *)
LEMMA GoesOn ==
  ASSUME RequestsOK, Grows, hist \in Histories, hist' \in Histories,
         NEW q \in Requests, NEW at, Goto(q, at), req[q] # Idle,
         [req[q] EXCEPT !.at = at] \in Requested,
         \/ req[q].op \in {"accept", "change", "confirm", "update", "logout"}
         \/ req[q].op = "login" /\ at = "session"
         \/ req[q].op \in {"invite", "resend"} /\ req[q].at # "create"
         \/ req[q].op = "refresh" /\ req[q].at = "revoke"
  PROVE  RequestsOK'
<1> DEFINE r == [req[q] EXCEPT !.at = at]
<1>1. /\ req' = [req EXCEPT ![q] = r]
      /\ req'[q] = r /\ r.at = at
  <2>1. req' = [req EXCEPT ![q] = r] /\ req'[q] = r
    BY DEF RequestsOK, Goto
  <2>2. r.at = at
    BY FieldsOf DEF RequestsOK, Requested, LoginReq, RefreshReq, LogoutReq,
       InviteReq, ResendReq, AcceptReq, ChangeReq, ConfirmReq, UpdateReq, DeleteReq
  <2> QED
    BY <2>1, <2>2
<1>2. req[q] \in Requested
  BY FieldsOf DEF RequestsOK
<1>3. r.op = req[q].op /\ r.now = req[q].now
  BY <1>2 DEF Requested, LoginReq, RefreshReq, LogoutReq, InviteReq, ResendReq,
             AcceptReq, ChangeReq, ConfirmReq, UpdateReq, DeleteReq
<1>4. Sound(q)
  BY DEF RequestsOK
<1>5. Timely(q)' /\ LoginSound(q)'
  BY <1>1, <1>3, <1>4 DEF Sound, Timely, LoginSound, Grows, Doing
<1>6. RefreshSound(q)'
  <2> SUFFICES ASSUME req[q].op = "refresh" PROVE RefreshSound(q)'
    BY <1>1, <1>3 DEF RefreshSound
  <2>1. req[q] \in RefreshReq
    BY <1>2, FieldsOf
  <2>2. r.sid = req[q].sid /\ r.was = req[q].was /\ r.next = req[q].next
        /\ r.sid \in Int
    BY <2>1 DEF RefreshReq, Sids
  <2>3. r.sid <= hist'.sids
    BY <1>4, <2>2, Counters DEF Sound, RefreshSound, Grows
  <2> QED
    BY <1>1, <1>4, <2>2, <2>3 DEF Sound, RefreshSound
<1>7. LogoutSound(q)'
  <2> SUFFICES ASSUME req[q].op = "logout" PROVE LogoutSound(q)'
    BY <1>1, <1>3 DEF LogoutSound
  <2>1. req[q] \in LogoutReq
    BY <1>2, FieldsOf
  <2>2. r.sid = req[q].sid /\ r.sid \in Int
    BY <2>1 DEF LogoutReq, Sids
  <2>3. r.sid <= hist'.sids
    BY <1>4, <2>2, Counters DEF Sound, LogoutSound, Grows
  <2> QED
    BY <1>1, <2>3 DEF LogoutSound
<1>8. MailSound(q)'
  <2> SUFFICES ASSUME req[q].op \in {"invite", "resend"} PROVE MailSound(q)'
    BY <1>1, <1>3 DEF MailSound
  <2>1. req[q] \in InviteReq \cup ResendReq
    BY <1>2, FieldsOf
  <2>2. r.link = req[q].link
    BY <2>1 DEF InviteReq, ResendReq
  <2> QED
    BY <1>1, <1>4, <2>2 DEF Sound, MailSound
<1>9. AcceptSound(q)'
  <2> SUFFICES ASSUME req[q].op = "accept" PROVE AcceptSound(q)'
    BY <1>1, <1>3 DEF AcceptSound
  <2>1. req[q] \in AcceptReq
    BY <1>2, FieldsOf
  <2>2. r.link = req[q].link /\ r.user = req[q].user /\ r.link \in Links
    BY <2>1 DEF AcceptReq
  <2>3. /\ req[q].link <= hist.invites
        /\ invite[req[q].link] # None => invite[req[q].link].user = req[q].user
    BY <1>4 DEF Sound, AcceptSound
  <2>4. /\ r.link <= hist'.invites
        /\ invite'[r.link] # None => invite'[r.link].user = r.user
    BY <2>2, <2>3, LinkStays
  <2> QED
    BY <1>1, <2>4 DEF AcceptSound
<1>10. ConfirmSound(q)'
  <2> SUFFICES ASSUME req[q].op = "confirm" PROVE ConfirmSound(q)'
    BY <1>1, <1>3 DEF ConfirmSound
  <2>1. req[q] \in ConfirmReq
    BY <1>2, FieldsOf
  <2>2. r.link = req[q].link /\ r.user = req[q].user /\ r.link \in Links
    BY <2>1 DEF ConfirmReq
  <2>3. /\ req[q].link <= hist.changes
        /\ change[req[q].link] # None => change[req[q].link].user = req[q].user
    BY <1>4 DEF Sound, ConfirmSound
  <2>4. /\ r.link <= hist'.changes
        /\ change'[r.link] # None => change'[r.link].user = r.user
    BY <2>2, <2>3, LinkStays
  <2> QED
    BY <1>1, <2>4 DEF ConfirmSound
<1> QED
  BY <1>1, <1>5, <1>6, <1>7, <1>8, <1>9, <1>10, MoveOn DEF Sound

LEMMA EndsToo ==
  ASSUME RequestsOK, Grows, hist \in Histories, hist' \in Histories,
         NEW q \in Requests, End(q)
  PROVE  RequestsOK'
BY Ended, MoveOn DEF End, RequestsOK

(* The history, field by field.                                            *)
LEMMA HistoryTyped ==
  ASSUME hist \in Histories
  PROVE  /\ \A t \in Tokens : [hist EXCEPT !.tokens = t] \in Histories
         /\ \A s \in Sids : [hist EXCEPT !.sids = s] \in Histories
         /\ \A i \in Links : [hist EXCEPT !.invites = i] \in Histories
         /\ \A i \in Links : [hist EXCEPT !.changes = i] \in Histories
<1>1. ASSUME NEW t \in Tokens PROVE [hist EXCEPT !.tokens = t] \in Histories
  <2>1. t \in 0 .. MaxTokens
    BY StoreAssumption DEF Tokens
  <2> QED
    BY <2>1 DEF Histories
<1>2. ASSUME NEW s \in Sids PROVE [hist EXCEPT !.sids = s] \in Histories
  <2>1. s \in 0 .. MaxSessions
    BY StoreAssumption DEF Sids
  <2> QED
    BY <2>1 DEF Histories
<1>3. ASSUME NEW i \in Links PROVE /\ [hist EXCEPT !.invites = i] \in Histories
                                   /\ [hist EXCEPT !.changes = i] \in Histories
  <2>1. i \in 0 .. MaxLinks
    BY StoreAssumption DEF Links
  <2> QED
    BY <2>1 DEF Histories
<1> QED
  BY <1>1, <1>2, <1>3

LEMMA TestedTyped ==
  ASSUME hist \in Histories, NEW u \in Users
  PROVE  /\ [hist EXCEPT !.tested[u] = @ + 1] \in Histories
         /\ [hist EXCEPT !.tested[u] = 0] \in Histories
<1>1. hist.tested \in [Users -> Nat]
  BY DEF Histories
<1>2. /\ [hist.tested EXCEPT ![u] = @ + 1] \in [Users -> Nat]
      /\ [hist.tested EXCEPT ![u] = 0] \in [Users -> Nat]
  BY <1>1
<1> DEFINE h == [hist EXCEPT !.tested = [hist.tested EXCEPT ![u] = @ + 1]]
           k == [hist EXCEPT !.tested = [hist.tested EXCEPT ![u] = 0]]
<1>3. h \in Histories /\ k \in Histories
  BY <1>2 DEF Histories
<1> QED
  BY <1>3

LEMMA LostTyped ==
  ASSUME StoresTyped, NEW u \in Users, NEW r
  PROVE  [hist EXCEPT !.lost = Losing(u, r)] \in Histories
<1>1. clock \in Nat
  BY StoreAssumption DEF StoresTyped
<1>2. CASE Exists(u) /\ user[u].role # r
  <2>1. user[u].role \in Roles
    BY <1>2 DEF StoresTyped, Exists, UserRow
  <2>2. Losing(u, r) \in [Users -> [Roles -> Nat \cup {None}]]
    BY <1>1, <1>2, <2>1 DEF Losing, StoresTyped, Histories
  <2> QED
    BY <2>2 DEF StoresTyped, Histories
<1>3. CASE ~(Exists(u) /\ user[u].role # r)
  BY <1>3 DEF Losing, StoresTyped, Histories
<1> QED
  BY <1>2, <1>3

LEMMA DeleteTyped ==
  ASSUME Stores, NEW u \in Users, DeleteUser(u),
         NEW r, hist' = [hist EXCEPT !.lost = Losing(u, r)],
         UNCHANGED <<clock, session, client, traffic>>
  PROVE  Stores' /\ Grows
<1>1. hist' \in Histories
  BY LostTyped DEF Stores
<1>2. /\ hist'.sids = hist.sids /\ hist'.invites = hist.invites
      /\ hist'.changes = hist.changes
  BY DEF Stores, StoresTyped, Histories
<1>3. user' \in [Users -> UserRow \cup {None}]
  BY DEF DeleteUser, Stores, StoresTyped
<1>4. /\ token' \in [Tokens -> TokenRow \cup {None}]
      /\ invite' \in [Links -> InviteRow \cup {None}]
      /\ change' \in [Links -> ChangeRow \cup {None}]
  BY DEF DeleteUser, Stores, StoresTyped
<1>5. StoresTyped'
  BY <1>1, <1>3, <1>4 DEF Stores, StoresTyped, client
<1>6. Owned'
  <2>1. \A v \in Users \ {u} : Exists(v) => Exists(v)'
    BY DEF DeleteUser, Exists, Stores, StoresTyped
  <2>2. \A t \in Tokens : token'[t] # None =>
          token'[t] = token[t] /\ token[t] # None /\ token[t].user \in Users \ {u}
    BY DEF DeleteUser, Stores, StoresTyped, TokenRow
  <2>3. \A i \in Links : invite'[i] # None =>
          invite'[i] = invite[i] /\ invite[i] # None /\ invite[i].user \in Users \ {u}
    BY DEF DeleteUser, Stores, StoresTyped, InviteRow
  <2>4. \A i \in Links : change'[i] # None =>
          change'[i] = change[i] /\ change[i] # None /\ change[i].user \in Users \ {u}
    BY DEF DeleteUser, Stores, StoresTyped, ChangeRow
  <2> QED
    BY <1>2, <2>1, <2>2, <2>3, <2>4 DEF Stores, Owned
<1>7. Grows
  <2>1. \A i \in Links : invite'[i] # None => invite'[i] = invite[i]
    BY DEF DeleteUser, Stores, StoresTyped
  <2>2. \A i \in Links : change'[i] # None => change'[i] = change[i]
    BY DEF DeleteUser, Stores, StoresTyped
  <2> QED
    BY <1>2, <2>1, <2>2, Counters DEF Grows, Stores, StoresTyped
<1> QED
  BY <1>5, <1>6, <1>7 DEF Stores

LEMMA DeleteWrites ==
  ASSUME IInv, NEW q \in Requests, DeleteWrite(q) \/ InviteUndo(q)
  PROVE  IInv'
<1>1. req[q].user \in Users
  BY FieldsOf DEF IInv, RequestsOK, DeleteWrite, InviteUndo, Doing, DeleteReq, InviteReq
<1>2. Stores' /\ Grows
  BY <1>1, DeleteTyped DEF DeleteWrite, InviteUndo, IInv, Stores
<1>3. RequestsOK'
  BY <1>2, EndsToo DEF DeleteWrite, InviteUndo, IInv, Stores, StoresTyped
<1> QED
  BY <1>2, <1>3 DEF IInv, Stores

(* The identifiers that were given out are those of before.                *)
SameIds(h) ==
  /\ h.sids = hist.sids /\ h.invites = hist.invites /\ h.changes = hist.changes

(* A row of User is written.                                               *)
LEMMA UserWritten ==
  ASSUME Stores, NEW u \in Users, NEW row \in UserRow,
         user' = [user EXCEPT ![u] = row],
         hist' \in Histories, SameIds(hist'),
         UNCHANGED <<clock, token, invite, change, session, client, traffic>>
  PROVE  Stores' /\ Grows
<1>1. row # None
  BY NoneAssumption
<1>2. \A v \in Users : Exists(v) => Exists(v)'
  BY <1>1 DEF Exists, Stores, StoresTyped
<1>3. StoresTyped'
  BY DEF Stores, StoresTyped, client
<1>4. Owned'
  <2>1. \A t \in Tokens : token[t] # None => token[t].user \in Users
    BY DEF Stores, StoresTyped, TokenRow
  <2>2. \A i \in Links : invite[i] # None => invite[i].user \in Users
    BY DEF Stores, StoresTyped, InviteRow
  <2>3. \A i \in Links : change[i] # None => change[i].user \in Users
    BY DEF Stores, StoresTyped, ChangeRow
  <2> QED
    BY <1>2, <2>1, <2>2, <2>3 DEF Stores, Owned, SameIds
<1>5. Grows
  BY Counters DEF Grows, Stores, StoresTyped, SameIds
<1> QED
  BY <1>3, <1>4, <1>5 DEF Stores

(* Sessions, at most, are written.                                         *)
LEMMA SessionsWritten ==
  ASSUME Stores, hist' \in Histories, SameIds(hist'),
         UNCHANGED <<clock, tables, client, traffic>>,
         session' \in [Sids -> Session \cup {None}]
  PROVE  Stores' /\ Grows
<1>1. StoresTyped'
  BY DEF Stores, StoresTyped, tables, client
<1>2. Owned'
  BY DEF Stores, Owned, SameIds, Exists, tables
<1>3. Grows
  BY Counters DEF Grows, Stores, StoresTyped, SameIds, tables
<1> QED
  BY <1>1, <1>2, <1>3 DEF Stores

LEMMA TestedIds ==
  ASSUME hist \in Histories, NEW u \in Users
  PROVE  /\ SameIds([hist EXCEPT !.tested[u] = @ + 1])
         /\ SameIds([hist EXCEPT !.tested[u] = 0])
BY DEF Histories, SameIds

LEMMA LoginWrites ==
  ASSUME IInv, NEW q \in Requests, LoginFail(q) \/ LoginClear(q)
  PROVE  IInv'
<1> DEFINE u == req[q].user
<1>1. req[q] \in LoginReq /\ u \in Users /\ req[q] # Idle
  BY FieldsOf DEF IInv, RequestsOK, LoginFail, LoginClear, Doing, LoginReq, Idle
<1>2. hist \in Histories /\ Stores
  BY DEF IInv, StoresTyped, Stores
<1>3. CASE LoginFail(q)
  <2> DEFINE n == req[q].failed + 1
             until == IF n >= LockThreshold THEN req[q].now + LockTtl ELSE None
             row == [user[u] EXCEPT !.failed = n, !.lockedUntil = until]
  <2>1. hist' \in Histories /\ SameIds(hist')
    BY <1>1, <1>2, <1>3, TestedTyped, TestedIds DEF LoginFail
  <2>2. n \in Nat /\ until \in Nat \cup {None}
    BY <1>1, StoreAssumption DEF LoginReq
  <2>3. Stores' /\ Grows
    <3>1. CASE Exists(u)
      <4>1. user[u] \in UserRow
        BY <1>1, <1>2, <3>1 DEF Stores, StoresTyped, Exists
      <4>2. row \in UserRow
        BY <2>2, <4>1 DEF UserRow
      <4>3. user' = [user EXCEPT ![u] = row]
        BY <1>3, <3>1 DEF LoginFail
      <4> QED
        BY <1>1, <1>2, <1>3, <2>1, <4>2, <4>3, UserWritten DEF LoginFail
    <3>2. CASE ~Exists(u)
      BY <1>2, <1>3, <2>1, <3>2, SessionsWritten
         DEF LoginFail, tables, Stores, StoresTyped
    <3> QED
      BY <3>1, <3>2
  <2> QED
    BY <1>2, <1>3, <2>1, <2>3, EndsToo DEF LoginFail, IInv, Stores
<1>4. CASE LoginClear(q) /\ Exists(u)
  <2> DEFINE row == [user[u] EXCEPT !.failed = 0, !.lockedUntil = None]
  <2>1. hist' \in Histories /\ SameIds(hist')
    BY <1>1, <1>2, <1>4, TestedTyped, TestedIds DEF LoginClear
  <2>2. user[u] \in UserRow
    BY <1>1, <1>2, <1>4 DEF Stores, StoresTyped, Exists
  <2>3. row \in UserRow
    BY <2>2 DEF UserRow
  <2>4. user' = [user EXCEPT ![u] = row]
    BY <1>4 DEF LoginClear
  <2>5. Stores' /\ Grows
    BY <1>1, <1>2, <1>4, <2>1, <2>3, <2>4, UserWritten DEF LoginClear
  <2>6. [req[q] EXCEPT !.at = "session"] \in LoginReq
    BY <1>1 DEF LoginReq
  <2>7. RequestsOK'
    BY <1>1, <1>2, <1>4, <2>1, <2>5, <2>6, GoesOn
       DEF LoginClear, IInv, Requested, Doing
  <2> QED
    BY <2>5, <2>7 DEF IInv, Stores
<1>5. CASE LoginClear(q) /\ ~Exists(u)
  BY <1>5, Ends DEF LoginClear, tables
<1> QED
  BY <1>3, <1>4, <1>5

LEMMA TokenAdded ==
  ASSUME Stores, NEW t \in Tokens, NEW u \in Users, NEW s \in Sids,
         NEW now \in Nat, AddToken(t, u, s, now), Exists(u), s <= hist.sids,
         held' \subseteq Tokens, access' \subseteq Access,
         UNCHANGED <<clock, user, invite, change, session, mailed, traffic>>
  PROVE  Stores' /\ Grows
<1> DEFINE row == [user |-> u, sid |-> s, exp |-> now + RefreshTtl,
                   revoked |-> FALSE]
<1>1. hist' \in Histories /\ SameIds(hist')
  BY HistoryTyped DEF AddToken, Stores, StoresTyped, Histories, SameIds
<1>2. row \in TokenRow
  BY StoreAssumption DEF TokenRow
<1>3. token' = [token EXCEPT ![t] = row]
  BY DEF AddToken
<1>4. StoresTyped'
  BY <1>1, <1>2, <1>3 DEF Stores, StoresTyped
<1>5. Owned'
  BY <1>1, <1>3 DEF Stores, StoresTyped, Owned, SameIds, Exists
<1>6. Grows
  BY <1>1, Counters DEF Grows, Stores, StoresTyped, SameIds
<1> QED
  BY <1>4, <1>5, <1>6 DEF Stores

LEMMA TokenRevoked ==
  ASSUME Stores, NEW t \in Tokens, token[t] # None,
         token' = [token EXCEPT ![t].revoked = TRUE],
         UNCHANGED <<clock, user, invite, change, session, client, traffic, hist>>
  PROVE  Stores' /\ Grows
<1>1. [token[t] EXCEPT !.revoked = TRUE] \in TokenRow
  BY DEF Stores, StoresTyped, TokenRow
<1>2. StoresTyped'
  BY <1>1 DEF Stores, StoresTyped, client
<1>3. \A x \in Tokens : token'[x] # None =>
        /\ token[x] # None /\ token'[x].user = token[x].user
        /\ token'[x].sid = token[x].sid
  BY DEF Stores, StoresTyped, TokenRow
<1>4. Owned'
  BY <1>3 DEF Stores, Owned, Exists
<1>5. Grows
  BY Counters DEF Grows, Stores, StoresTyped
<1> QED
  BY <1>2, <1>4, <1>5 DEF Stores

LEMMA LoginMakesSession ==
  ASSUME IInv, NEW q \in Requests, LoginSession(q)
  PROVE  IInv'
<1>1. /\ req[q] \in LoginReq /\ req[q] # Idle /\ Sound(q)
      /\ hist \in Histories /\ Stores
  BY FieldsOf DEF IInv, RequestsOK, LoginSession, Doing, LoginReq, Idle, StoresTyped,
                 Stores
<1>2. PICK s \in Sids :
        /\ NextId(s, hist.sids, MaxSessions)
        /\ session' = [session EXCEPT ![s] =
             [user |-> req[q].user, role |-> req[q].role,
              exp |-> clock + RefreshTtl]]
        /\ req' = [req EXCEPT ![q].sid = s, ![q].at = "tokens"]
        /\ hist' = [hist EXCEPT !.sids = s]
  BY DEF LoginSession
<1> DEFINE r == [req[q] EXCEPT !.sid = s, !.at = "tokens"]
<1>3. clock \in Nat /\ clock' = clock
  BY <1>1, StoreAssumption DEF LoginSession, Stores, StoresTyped
<1>4. hist' \in Histories /\ hist'.sids = s /\ s \in Nat /\ hist.sids <= s
      /\ hist'.invites = hist.invites /\ hist'.changes = hist.changes
  <2>1. hist' \in Histories
    BY <1>1, <1>2, HistoryTyped
  <2>2. /\ hist'.sids = s
        /\ hist'.invites = hist.invites /\ hist'.changes = hist.changes
    BY <1>1, <1>2 DEF Histories
  <2>3. s \in Nat /\ hist.sids <= s
    BY <1>1, <1>2, Counters DEF NextId
  <2> QED
    BY <2>1, <2>2, <2>3
<1>5. session' \in [Sids -> Session \cup {None}]
  BY <1>1, <1>2, <1>3, StoreAssumption DEF Stores, StoresTyped, Session, LoginReq
<1>6. StoresTyped'
  BY <1>1, <1>3, <1>4, <1>5 DEF LoginSession, Stores, StoresTyped, tables, client
<1>7. Owned'
  <2>1. \A t \in Tokens : token[t] # None => token[t].sid \in Int
    BY <1>1 DEF Stores, StoresTyped, TokenRow, Sids
  <2> QED
    BY <1>1, <1>4, <2>1, Counters DEF LoginSession, Stores, Owned, Exists, tables
<1>8. Grows
  BY <1>1, <1>3, <1>4, Counters DEF LoginSession, Grows, tables
<1>9. r \in LoginReq /\ r.op = "login" /\ r.at = "tokens" /\ r.sid = s
      /\ r.now = req[q].now /\ r # Idle
  BY <1>1 DEF LoginReq, Idle
<1>10. req' = [req EXCEPT ![q] = r] /\ req'[q] = r
  BY <1>2 DEF IInv, RequestsOK
<1>11. Sound(q)'
  <2>1. s \in 1 .. hist'.sids
    BY <1>4 DEF Sids
  <2> QED
    BY <1>1, <1>3, <1>9, <1>10, <2>1
       DEF Sound, Timely, LoginSound, RefreshSound, LogoutSound,
           MailSound, AcceptSound, ConfirmSound, Doing
<1> QED
  BY <1>1, <1>4, <1>6, <1>7, <1>8, <1>9, <1>10, <1>11, MoveOn DEF IInv, Requested

LEMMA IssueTyped ==
  ASSUME Stores, NEW u \in Users, NEW role \in Roles, NEW s \in Sids,
         Issue(u, role, s)
  PROVE  access' \subseteq Access
<1>1. clock \in Nat
  BY StoreAssumption DEF Stores, StoresTyped
<1> QED
  BY <1>1, StoreAssumption DEF Issue, Access, Stores, StoresTyped

LEMMA LoginGivesTokens ==
  ASSUME IInv, NEW q \in Requests, LoginTokens(q)
  PROVE  IInv'
<1> DEFINE r == req[q]
<1>1. /\ r \in LoginReq /\ Sound(q) /\ hist \in Histories /\ Stores
  BY FieldsOf DEF IInv, RequestsOK, LoginTokens, Doing, LoginReq, StoresTyped, Stores
<1>2. r.user \in Users /\ r.role \in Roles /\ r.now \in Nat
  BY <1>1 DEF LoginReq
<1>3. r.sid \in Sids /\ r.sid <= hist.sids
  <2>1. r.sid \in 1 .. hist.sids
    BY <1>1 DEF Sound, LoginSound, LoginTokens
  <2> QED
    BY <1>1, <2>1, StoreAssumption DEF Histories, Sids
<1>4. CASE Exists(r.user)
  <2>1. PICK t \in Tokens : /\ AddToken(t, r.user, r.sid, r.now)
                            /\ held' = held \cup {t}
                            /\ Issue(r.user, r.role, r.sid)
    BY <1>4 DEF LoginTokens
  <2>2. held' \subseteq Tokens /\ access' \subseteq Access
    BY <1>1, <1>2, <1>3, <2>1, IssueTyped DEF Stores, StoresTyped
  <2>3. Stores' /\ Grows
    BY <1>1, <1>2, <1>3, <1>4, <2>1, <2>2, TokenAdded DEF LoginTokens
  <2>4. RequestsOK'
    BY <1>1, <2>3, EndsToo DEF LoginTokens, IInv, Stores, StoresTyped
  <2> QED
    BY <2>3, <2>4 DEF IInv, Stores
<1>5. CASE ~Exists(r.user)
  BY <1>5, Ends DEF LoginTokens, tables, client
<1> QED
  BY <1>4, <1>5

LEMMA RefreshAddsToken ==
  ASSUME IInv, NEW q \in Requests, RefreshCreate(q)
  PROVE  IInv'
<1>1. /\ req[q] \in RefreshReq /\ req[q] # Idle /\ Sound(q)
      /\ hist \in Histories /\ Stores
  BY FieldsOf DEF IInv, RequestsOK, RefreshCreate, Doing, RefreshReq, Idle,
                 StoresTyped, Stores
<1>2. /\ req[q].user \in Users /\ req[q].sid \in Sids /\ req[q].now \in Nat
      /\ req[q].sid <= hist.sids /\ req[q].was \in Session
  BY <1>1 DEF RefreshReq, Sound, RefreshSound, RefreshCreate, Doing
<1>3. CASE Exists(req[q].user)
  <2>1. PICK t \in Tokens :
          /\ AddToken(t, req[q].user, req[q].sid, req[q].now)
          /\ req' = [req EXCEPT ![q].next = t, ![q].at = "revoke"]
    BY <1>3 DEF RefreshCreate
  <2> DEFINE r == [req[q] EXCEPT !.next = t, !.at = "revoke"]
  <2>2. Stores' /\ Grows
    BY <1>1, <1>2, <1>3, <2>1, TokenAdded DEF RefreshCreate, client, Stores, StoresTyped
  <2>3. /\ r \in RefreshReq /\ r.op = "refresh" /\ r.at = "revoke"
        /\ r.sid = req[q].sid /\ r.was = req[q].was /\ r.next = t
        /\ r.now = req[q].now
    BY <1>1 DEF RefreshReq
  <2>4. req' = [req EXCEPT ![q] = r] /\ req'[q] = r
    BY <2>1 DEF IInv, RequestsOK
  <2>5. hist'.sids = hist.sids /\ clock' = clock
    BY <1>1, <2>1 DEF AddToken, Histories, RefreshCreate
  <2>6. Sound(q)'
    BY <1>1, <1>2, <2>3, <2>4, <2>5
       DEF Sound, Timely, LoginSound, RefreshSound, LogoutSound,
           MailSound, AcceptSound, ConfirmSound, Doing
  <2>7. r \in Requested \cup {Idle} /\ hist' \in Histories
    BY <2>2, <2>3 DEF Requested, Stores, StoresTyped
  <2>8. RequestsOK'
    BY <1>1, <2>2, <2>4, <2>6, <2>7, MoveOn DEF IInv
  <2> QED
    BY <2>2, <2>8 DEF IInv, Stores
<1>4. CASE ~Exists(req[q].user)
  BY <1>4, Ends DEF RefreshCreate, tables
<1> QED
  BY <1>3, <1>4

LEMMA Revokes ==
  ASSUME IInv, NEW q \in Requests, RefreshRevoke(q) \/ LogoutRevoke(q)
  PROVE  IInv'
<1> DEFINE t == req[q].token
           at == IF req[q].op = "refresh" THEN "touch" ELSE "delete"
<1>1. /\ req[q] \in RefreshReq \cup LogoutReq /\ t \in Tokens /\ req[q] # Idle
      /\ hist \in Histories /\ Stores
  BY FieldsOf DEF IInv, RequestsOK, RefreshRevoke, LogoutRevoke, Doing, RefreshReq,
                 LogoutReq, Idle, StoresTyped, Stores
<1>2. CASE token[t] # None
  <2>1. token' = [token EXCEPT ![t].revoked = TRUE] /\ Goto(q, at) /\ hist' = hist
    BY <1>2 DEF RefreshRevoke, LogoutRevoke, Doing
  <2>2. Stores' /\ Grows
    BY <1>1, <1>2, <2>1, TokenRevoked DEF RefreshRevoke, LogoutRevoke
  <2>3. [req[q] EXCEPT !.at = at] \in Requested
    BY <1>1 DEF Requested, RefreshReq, LogoutReq
  <2>4. req[q].op = "logout" \/ (req[q].op = "refresh" /\ req[q].at = "revoke")
    BY DEF RefreshRevoke, LogoutRevoke, Doing
  <2>5. RequestsOK'
    BY <1>1, <2>1, <2>2, <2>3, <2>4, GoesOn DEF IInv
  <2> QED
    BY <2>2, <2>5 DEF IInv, Stores
<1>3. CASE token[t] = None
  BY <1>3, Ends DEF RefreshRevoke, LogoutRevoke, tables
<1> QED
  BY <1>2, <1>3

LEMMA RefreshTouches ==
  ASSUME IInv, NEW q \in Requests, RefreshTouch(q)
  PROVE  IInv'
<1> DEFINE r == req[q]
<1>1. /\ r \in RefreshReq /\ Sound(q) /\ hist \in Histories /\ Stores
  BY FieldsOf DEF IInv, RequestsOK, RefreshTouch, Doing, RefreshReq, StoresTyped, Stores
<1>2. /\ r.user \in Users /\ r.sid \in Sids /\ r.role \in Roles
      /\ r.was \in Session /\ r.next \in Tokens
  BY <1>1 DEF RefreshReq, Sound, RefreshSound, RefreshTouch, Doing
<1>3. clock + RefreshTtl \in Nat
  BY <1>1, StoreAssumption DEF Stores, StoresTyped
<1>4. [r.was EXCEPT !.exp = clock + RefreshTtl] \in Session
  BY <1>2, <1>3 DEF Session
<1>5. session' \in [Sids -> Session \cup {None}]
  BY <1>1, <1>4 DEF RefreshTouch, Stores, StoresTyped
<1>6. held' \subseteq Tokens
  BY <1>1, <1>2 DEF RefreshTouch, Stores, StoresTyped
<1>7. access' \subseteq Access
  BY <1>1, <1>2, IssueTyped DEF RefreshTouch
<1>8. Stores' /\ Grows
  <2>1. StoresTyped'
    BY <1>1, <1>5, <1>6, <1>7 DEF RefreshTouch, Stores, StoresTyped, tables
  <2>2. Owned'
    BY <1>1 DEF RefreshTouch, Stores, Owned, Exists, tables
  <2>3. Grows
    BY <1>1, Counters DEF RefreshTouch, Grows, tables
  <2> QED
    BY <2>1, <2>2, <2>3 DEF Stores
<1> QED
  BY <1>1, <1>8, EndsToo DEF RefreshTouch, IInv, Stores

LEMMA LogoutDeletes ==
  ASSUME IInv, NEW q \in Requests, NEW reached \in BOOLEAN, LogoutDelete(q, reached)
  PROVE  IInv'
<1> DEFINE s == req[q].sid
<1>1. /\ req[q] \in LogoutReq /\ s \in Sids /\ hist \in Histories /\ Stores
  BY FieldsOf DEF IInv, RequestsOK, LogoutDelete, Doing, LogoutReq, StoresTyped, Stores
<1>2. PICK raced \in SUBSET Sids :
        hist' = [hist EXCEPT !.ended = @ \cup {s}, !.raced = raced]
  <2>1. hist.raced \in SUBSET Sids /\ hist.raced \cup {s} \in SUBSET Sids
    BY <1>1 DEF Histories
  <2> QED
    BY <2>1 DEF LogoutDelete
<1>3. hist' \in Histories /\ SameIds(hist')
  <2>1. hist.ended \cup {s} \in SUBSET Sids
    BY <1>1 DEF Histories
  <2> QED
    BY <1>1, <1>2, <2>1 DEF Histories, SameIds
<1>4. session' \in [Sids -> Session \cup {None}]
  BY <1>1 DEF LogoutDelete, Stores, StoresTyped
<1>5. Stores' /\ Grows
  BY <1>1, <1>3, <1>4, SessionsWritten DEF LogoutDelete
<1> QED
  BY <1>1, <1>3, <1>5, EndsToo DEF LogoutDelete, IInv, Stores

(* Links are written or removed, and rows of User written.                 *)
LEMMA LinksWritten ==
  ASSUME Stores,
         user' \in [Users -> UserRow \cup {None}],
         \A v \in Users : Exists(v) => Exists(v)',
         invite' \in [Links -> InviteRow \cup {None}],
         \A i \in Links : invite'[i] # None =>
           invite[i] # None /\ invite'[i].user = invite[i].user,
         change' \in [Links -> ChangeRow \cup {None}],
         \A i \in Links : change'[i] # None =>
           change[i] # None /\ change'[i].user = change[i].user,
         mailed' \subseteq Links,
         hist' \in Histories, SameIds(hist'),
         UNCHANGED <<clock, token, session, access, held, traffic>>
  PROVE  Stores' /\ Grows
<1>1. StoresTyped'
  BY DEF Stores, StoresTyped
<1>2. Owned'
  <2>1. \A t \in Tokens : token[t] # None => token[t].user \in Users
    BY DEF Stores, StoresTyped, TokenRow
  <2>2. \A i \in Links : invite[i] # None => invite[i].user \in Users
    BY DEF Stores, StoresTyped, InviteRow
  <2>3. \A i \in Links : change[i] # None => change[i].user \in Users
    BY DEF Stores, StoresTyped, ChangeRow
  <2> QED
    BY <2>1, <2>2, <2>3 DEF Stores, Owned, SameIds
<1>3. Grows
  BY Counters DEF Grows, Stores, StoresTyped, SameIds
<1> QED
  BY <1>1, <1>2, <1>3 DEF Stores

(* An invitation is created, for a user who may be new.                    *)
LEMMA InviteMade ==
  ASSUME Stores, NEW i \in Links, NEW u \in Users, NewInvite(i, u),
         hist' = [hist EXCEPT !.invites = i],
         user' \in [Users -> UserRow \cup {None}], user'[u] # None,
         \A v \in Users : Exists(v) => Exists(v)',
         UNCHANGED <<clock, token, change, session, client, traffic>>
  PROVE  Stores' /\ Grows
<1> DEFINE row == [user |-> u, exp |-> clock + LinkTtl, accepted |-> FALSE,
                   revoked |-> FALSE]
<1>1. clock \in Nat /\ i \in Nat /\ i = hist.invites + 1 /\ hist.invites \in Nat
  BY Counters, StoreAssumption DEF Stores, StoresTyped, Links, NewInvite, NextId
<1>2. hist' \in Histories
  BY HistoryTyped DEF Stores, StoresTyped
<1>3. /\ hist'.sids = hist.sids /\ hist'.invites = i
      /\ hist'.changes = hist.changes
  BY DEF Stores, StoresTyped, Histories
<1>4. row \in InviteRow
  BY <1>1, StoreAssumption DEF InviteRow
<1>5. invite' = [invite EXCEPT ![i] = row]
  BY DEF NewInvite
<1>6. StoresTyped'
  BY <1>2, <1>4, <1>5 DEF Stores, StoresTyped, client
<1>7. Owned'
  <2>1. \A t \in Tokens : token[t] # None => token[t].user \in Users
    BY DEF Stores, StoresTyped, TokenRow
  <2>2. \A j \in Links : invite[j] # None => invite[j].user \in Users
    BY DEF Stores, StoresTyped, InviteRow
  <2>3. \A j \in Links : change[j] # None => change[j].user \in Users
    BY DEF Stores, StoresTyped, ChangeRow
  <2>4. \A j \in Links : invite'[j] # None =>
          user'[invite'[j].user] # None /\ j <= hist'.invites
    <3> SUFFICES ASSUME NEW j \in Links, invite'[j] # None
                 PROVE  user'[invite'[j].user] # None /\ j <= hist'.invites
      OBVIOUS
    <3>1. CASE j = i
      <4>1. invite'[j] = row
        BY <1>5, <3>1 DEF Stores, StoresTyped
      <4> QED
        BY <1>1, <1>3, <3>1, <4>1 DEF Exists
    <3>2. CASE j # i
      <4>1. invite'[j] = invite[j] /\ j \in Int
        BY <1>5, <3>2 DEF Stores, StoresTyped, Links
      <4> QED
        BY <1>1, <1>3, <2>2, <4>1 DEF Stores, Owned, Exists
    <3> QED
      BY <3>1, <3>2
  <2> QED
    BY <1>3, <2>1, <2>3, <2>4 DEF Stores, Owned, Exists
<1>8. Grows
  BY <1>1, <1>3, <1>5, Counters DEF Grows, Stores, StoresTyped
<1> QED
  BY <1>6, <1>7, <1>8 DEF Stores

LEMMA InviteCreates ==
  ASSUME IInv, NEW q \in Requests, InviteCreate(q)
  PROVE  IInv'
<1>1. /\ req[q] \in InviteReq /\ req[q] # Idle /\ Sound(q)
      /\ hist \in Histories /\ Stores
  BY FieldsOf DEF IInv, RequestsOK, InviteCreate, Doing, InviteReq, Idle,
                 StoresTyped, Stores
<1> DEFINE u == req[q].user
           managed == IF req[q].role = "ADMIN" THEN FactoriesOf(req[q].group) ELSE {}
           row == [name |-> None, email |-> req[q].email, active |-> FALSE,
                   role |-> req[q].role, group |-> req[q].group, failed |-> 0,
                   lockedUntil |-> None, managed |-> managed]
           made == EmailFree(req[q].email, u) /\ (req[q].role = "ADMIN" => managed # {})
<1>2. CASE made
  <2>1. PICK i \in Links :
          /\ NewInvite(i, u)
          /\ user' = [user EXCEPT ![u] = row]
          /\ req' = [req EXCEPT ![q].link = i, ![q].at = "mail"]
          /\ hist' = [hist EXCEPT !.invites = i]
    BY <1>2 DEF InviteCreate
  <2>2. row \in UserRow /\ row # None
    <3>1. managed \in SUBSET Factories
      BY DEF FactoriesOf
    <3>2. row \in UserRow
      BY <1>1, <3>1 DEF UserRow, InviteReq
    <3> QED
      BY <3>2, NoneAssumption
  <2>3. /\ user' \in [Users -> UserRow \cup {None}] /\ user'[u] # None
        /\ \A v \in Users : Exists(v) => Exists(v)'
        /\ u \in Users
    <3>1. u \in Users
      BY <1>1 DEF InviteReq
    <3>2. user \in [Users -> UserRow \cup {None}]
      BY <1>1 DEF Stores, StoresTyped
    <3> QED
      BY <2>1, <2>2, <3>1, <3>2 DEF Exists
  <2>4. Stores' /\ Grows
    <3>1. UNCHANGED <<clock, token, change, session, client, traffic>>
      BY DEF InviteCreate
    <3> QED
      BY <1>1, <2>1, <2>3, <3>1, InviteMade
  <2> DEFINE r == [req[q] EXCEPT !.link = i, !.at = "mail"]
  <2>5. r \in InviteReq /\ r.op = "invite" /\ r.link = i /\ r.now = req[q].now
    BY <1>1 DEF InviteReq
  <2>6. req' = [req EXCEPT ![q] = r] /\ req'[q] = r
    BY <2>1 DEF IInv, RequestsOK
  <2>7. Sound(q)'
    BY <1>1, <2>4, <2>5, <2>6
       DEF Sound, Timely, LoginSound, RefreshSound, LogoutSound,
           MailSound, AcceptSound, ConfirmSound, Doing, Grows
  <2>8. r \in Requested \cup {Idle} /\ hist' \in Histories
    BY <2>4, <2>5 DEF Requested, Stores, StoresTyped
  <2>9. RequestsOK'
    BY <1>1, <2>4, <2>6, <2>7, <2>8, MoveOn DEF IInv
  <2> QED
    BY <2>4, <2>9 DEF IInv, Stores
<1>3. CASE ~made
  BY <1>3, Ends DEF InviteCreate, tables
<1> QED
  BY <1>2, <1>3

LEMMA ResendCreates ==
  ASSUME IInv, NEW q \in Requests, ResendCreate(q)
  PROVE  IInv'
<1>1. /\ req[q] \in ResendReq /\ req[q] # Idle /\ Sound(q)
      /\ hist \in Histories /\ Stores
  BY FieldsOf DEF IInv, RequestsOK, ResendCreate, Doing, ResendReq, Idle,
                 StoresTyped, Stores
<1> DEFINE u == req[q].user
<1>2. CASE Exists(u)
  <2>1. PICK i \in Links :
          /\ NewInvite(i, u)
          /\ req' = [req EXCEPT ![q].link = i, ![q].at = "mail"]
          /\ hist' = [hist EXCEPT !.invites = i]
    BY <1>2 DEF ResendCreate
  <2>2. /\ user' \in [Users -> UserRow \cup {None}] /\ user'[u] # None
        /\ \A v \in Users : Exists(v) => Exists(v)'
        /\ u \in Users
    <3>1. user' = user
      BY DEF ResendCreate
    <3>2. u \in Users
      BY <1>1 DEF ResendReq
    <3> QED
      BY <1>1, <1>2, <3>1, <3>2 DEF Exists, Stores, StoresTyped
  <2>3. Stores' /\ Grows
    <3>1. UNCHANGED <<clock, token, change, session, client, traffic>>
      BY DEF ResendCreate
    <3> QED
      BY <1>1, <2>1, <2>2, <3>1, InviteMade
  <2> DEFINE r == [req[q] EXCEPT !.link = i, !.at = "mail"]
  <2>5. r \in ResendReq /\ r.op = "resend" /\ r.link = i /\ r.now = req[q].now
    BY <1>1 DEF ResendReq
  <2>6. req' = [req EXCEPT ![q] = r] /\ req'[q] = r
    BY <2>1 DEF IInv, RequestsOK
  <2>7. Sound(q)'
    BY <1>1, <2>3, <2>5, <2>6
       DEF Sound, Timely, LoginSound, RefreshSound, LogoutSound,
           MailSound, AcceptSound, ConfirmSound, Doing, Grows
  <2>8. r \in Requested \cup {Idle} /\ hist' \in Histories
    BY <2>3, <2>5 DEF Requested, Stores, StoresTyped
  <2>9. RequestsOK'
    BY <1>1, <2>3, <2>6, <2>7, <2>8, MoveOn DEF IInv
  <2> QED
    BY <2>3, <2>9 DEF IInv, Stores
<1>3. CASE ~Exists(u)
  BY <1>3, Ends DEF ResendCreate, tables
<1> QED
  BY <1>2, <1>3

LEMMA ClaimTyped ==
  ASSUME hist \in Histories, NEW i \in Links, NEW u \in Users
  PROVE  /\ LET h == [hist EXCEPT !.claims["invite"][i] = @ + 1, !.tested[u] = 0]
            IN  h \in Histories /\ SameIds(h)
         /\ LET h == [hist EXCEPT !.claims["change"][i] = @ + 1]
            IN  h \in Histories /\ SameIds(h)
<1> DEFINE claims(k) == [hist.claims EXCEPT ![k] = [hist.claims[k] EXCEPT ![i] = @ + 1]]
           tested == [hist.tested EXCEPT ![u] = 0]
<1>1. hist.claims \in [{"invite", "change"} -> [Links -> Nat]]
  BY DEF Histories
<1>2. \A k \in {"invite", "change"} :
        claims(k) \in [{"invite", "change"} -> [Links -> Nat]]
  BY <1>1
<1>3. tested \in [Users -> Nat]
  BY DEF Histories
<1>4. LET h == [hist EXCEPT !.claims = claims("invite"), !.tested = tested]
      IN  h \in Histories /\ SameIds(h)
  BY <1>2, <1>3 DEF Histories, SameIds
<1>5. LET h == [hist EXCEPT !.claims = claims("change")]
      IN  h \in Histories /\ SameIds(h)
  BY <1>2 DEF Histories, SameIds
<1> QED
  BY <1>4, <1>5

LEMMA MailSends ==
  ASSUME IInv, NEW q \in Requests, NEW delivered \in BOOLEAN, NEW ok \in BOOLEAN,
         SendMail(q, delivered, ok)
  PROVE  IInv'
<1>1. /\ req[q] \in InviteReq \cup ResendReq /\ req[q] # Idle /\ Sound(q)
      /\ hist \in Histories /\ Stores
  BY FieldsOf DEF IInv, RequestsOK, SendMail, InviteReq, ResendReq, Idle,
                 StoresTyped, Stores
<1>2. req[q].link \in Links
  BY <1>1 DEF Sound, MailSound, SendMail
<1>3. mailed' \subseteq Links
  BY <1>1, <1>2 DEF SendMail, Stores, StoresTyped
<1>4. Stores' /\ Grows
  BY <1>1, <1>3, LinksWritten
     DEF SendMail, Stores, StoresTyped, tables, SameIds, Exists
<1>5. CASE ok /\ req[q].op # "resend"
  BY <1>1, <1>4, <1>5, EndsToo DEF SendMail, IInv, Stores, StoresTyped
<1>6. CASE ~ok \/ req[q].op = "resend"
  <2> DEFINE at == IF ok THEN "revoke" ELSE "undo"
  <2>1. Goto(q, at)
    BY <1>6 DEF SendMail
  <2>2. [req[q] EXCEPT !.at = at] \in Requested
    BY <1>1, <1>6 DEF Requested, InviteReq, ResendReq
  <2>3. req[q].op \in {"invite", "resend"} /\ req[q].at # "create"
    BY DEF SendMail
  <2>4. RequestsOK'
    BY <1>1, <1>4, <2>1, <2>2, <2>3, GoesOn DEF IInv, Stores, StoresTyped
  <2> QED
    BY <1>4, <2>4 DEF IInv, Stores
<1> QED
  BY <1>5, <1>6

(* The three steps that write or remove links and end their request.       *)
LEMMA ResendEnds ==
  ASSUME IInv, NEW q \in Requests, ResendUndo(q) \/ ResendRevoke(q)
  PROVE  IInv'
<1>1. hist \in Histories /\ Stores
  BY DEF IInv, StoresTyped, Stores
<1>2. invite' \in [Links -> InviteRow \cup {None}]
  <2>1. CASE ResendUndo(q)
    BY <1>1, <2>1 DEF ResendUndo, Stores, StoresTyped
  <2>2. CASE ResendRevoke(q)
    <3>1. ASSUME NEW i \in Links, Pending(i)
          PROVE  [invite[i] EXCEPT !.revoked = TRUE] \in InviteRow
      BY <1>1, <3>1 DEF Pending, Stores, StoresTyped, InviteRow
    <3>2. invite \in [Links -> InviteRow \cup {None}]
      BY <1>1 DEF Stores, StoresTyped
    <3> QED
      BY <2>2, <3>1, <3>2 DEF ResendRevoke
  <2> QED
    BY <2>1, <2>2
<1>3. \A i \in Links : invite'[i] # None =>
        invite[i] # None /\ invite'[i].user = invite[i].user
  <2>1. CASE ResendUndo(q)
    BY <1>1, <2>1 DEF ResendUndo, Stores, StoresTyped
  <2>2. CASE ResendRevoke(q)
    <3> SUFFICES ASSUME NEW i \in Links, invite'[i] # None
                 PROVE  invite[i] # None /\ invite'[i].user = invite[i].user
      OBVIOUS
    <3>1. invite'[i] = invite[i] \/ (/\ Pending(i)
                                     /\ invite'[i] = [invite[i] EXCEPT !.revoked = TRUE])
      BY <2>2 DEF ResendRevoke
    <3>2. invite[i] # None => invite[i] \in InviteRow
      BY <1>1 DEF Stores, StoresTyped
    <3> QED
      BY <3>1, <3>2 DEF Pending, InviteRow
  <2> QED
    BY <2>1, <2>2
<1>4. Stores' /\ Grows
  BY <1>1, <1>2, <1>3, LinksWritten
     DEF ResendUndo, ResendRevoke, client, Stores, StoresTyped, SameIds, Exists
<1> QED
  BY <1>1, <1>4, EndsToo DEF ResendUndo, ResendRevoke, IInv, Stores

LEMMA AcceptNames ==
  ASSUME IInv, NEW q \in Requests, AcceptName(q)
  PROVE  IInv'
<1>1. /\ req[q] \in AcceptReq /\ req[q] # Idle /\ Sound(q)
      /\ hist \in Histories /\ Stores
  BY FieldsOf DEF IInv, RequestsOK, AcceptName, Doing, AcceptReq, Idle, StoresTyped, Stores
<1>2. CASE End(q)
  BY <1>2, Ends DEF AcceptName
<1>3. CASE Goto(q, "claim")
  <2>1. Stores' /\ Grows
    BY <1>1, SessionsWritten DEF AcceptName, Stores, StoresTyped, SameIds
  <2>2. [req[q] EXCEPT !.at = "claim"] \in Requested
    BY <1>1 DEF Requested, AcceptReq
  <2>3. RequestsOK'
    BY <1>1, <1>3, <2>1, <2>2, GoesOn DEF AcceptName, Doing, IInv, Stores, StoresTyped
  <2> QED
    BY <2>1, <2>3 DEF IInv, Stores
<1> QED
  BY <1>2, <1>3 DEF AcceptName

LEMMA AcceptClaims ==
  ASSUME IInv, NEW q \in Requests, AcceptClaim(q)
  PROVE  IInv'
<1> DEFINE i == req[q].link
           u == req[q].user
           claimed == ClaimInvitation(i, req[q].now) /\ NameFree(req[q].name, u)
<1>1. /\ req[q] \in AcceptReq /\ req[q] # Idle /\ Sound(q)
      /\ hist \in Histories /\ Stores
  BY FieldsOf DEF IInv, RequestsOK, AcceptClaim, Doing, AcceptReq, Idle, StoresTyped, Stores
<1>2. CASE claimed
  <2> DEFINE row == [user[u] EXCEPT !.name = req[q].name, !.active = TRUE,
                                    !.failed = 0, !.lockedUntil = None]
             used == [invite[i] EXCEPT !.accepted = TRUE]
  <2>1. i \in Links /\ u \in Users /\ req[q].name \in Names
    BY <1>1 DEF AcceptReq
  <2>2. invite[i] # None /\ invite[i] \in InviteRow
    BY <1>1, <1>2, <2>1
       DEF ClaimInvitation, ActiveInvitation, Pending, Stores, StoresTyped
  <2>3. invite[i].user = u
    BY <1>1, <2>2 DEF Sound, AcceptSound, AcceptClaim, Doing
  <2>4. user[u] \in UserRow
    BY <1>1, <2>1, <2>2, <2>3 DEF Stores, StoresTyped, Owned, Exists
  <2>5. row \in UserRow /\ row # None
    <3>1. row \in UserRow
      BY <2>1, <2>4 DEF UserRow
    <3> QED
      BY <3>1, NoneAssumption
  <2>6. used \in InviteRow /\ used.user = u
    BY <2>2, <2>3 DEF InviteRow
  <2>7. /\ invite' = [invite EXCEPT ![i] = used]
        /\ user' = [user EXCEPT ![u] = row]
    BY <1>2 DEF AcceptClaim
  <2>8. /\ user' \in [Users -> UserRow \cup {None}]
        /\ \A v \in Users : Exists(v) => Exists(v)'
    BY <1>1, <2>1, <2>5, <2>7 DEF Stores, StoresTyped, Exists
  <2>9. /\ invite' \in [Links -> InviteRow \cup {None}]
        /\ \A j \in Links : invite'[j] # None =>
             invite[j] # None /\ invite'[j].user = invite[j].user
    BY <1>1, <2>1, <2>2, <2>3, <2>6, <2>7 DEF Stores, StoresTyped
  <2>10. hist' \in Histories /\ SameIds(hist')
    BY <1>1, <1>2, <2>1, ClaimTyped DEF AcceptClaim
  <2>11. Stores' /\ Grows
    BY <1>1, <2>8, <2>9, <2>10, LinksWritten DEF AcceptClaim, client, Stores, StoresTyped
  <2> QED
    BY <1>1, <2>11, EndsToo DEF AcceptClaim, IInv, Stores, StoresTyped
<1>3. CASE ~claimed
  BY <1>3, Ends DEF AcceptClaim, tables
<1> QED
  BY <1>2, <1>3

LEMMA ChangeTakes ==
  ASSUME IInv, NEW q \in Requests, ChangeTaken(q)
  PROVE  IInv'
<1>1. /\ req[q] \in ChangeReq /\ req[q] # Idle /\ Sound(q)
      /\ hist \in Histories /\ Stores
  BY FieldsOf DEF IInv, RequestsOK, ChangeTaken, Doing, ChangeReq, Idle, StoresTyped, Stores
<1>2. CASE End(q)
  BY <1>2, Ends DEF ChangeTaken
<1>3. CASE Goto(q, "delete")
  <2>1. Stores' /\ Grows
    BY <1>1, SessionsWritten DEF ChangeTaken, Stores, StoresTyped, SameIds
  <2>2. [req[q] EXCEPT !.at = "delete"] \in Requested
    BY <1>1 DEF Requested, ChangeReq
  <2>3. RequestsOK'
    BY <1>1, <1>3, <2>1, <2>2, GoesOn DEF ChangeTaken, Doing, IInv, Stores, StoresTyped
  <2> QED
    BY <2>1, <2>3 DEF IInv, Stores
<1> QED
  BY <1>2, <1>3 DEF ChangeTaken

LEMMA ChangeDeletes ==
  ASSUME IInv, NEW q \in Requests, ChangeDelete(q)
  PROVE  IInv'
<1>1. /\ req[q] \in ChangeReq /\ req[q] # Idle /\ Sound(q)
      /\ hist \in Histories /\ Stores
  BY FieldsOf DEF IInv, RequestsOK, ChangeDelete, Doing, ChangeReq, Idle, StoresTyped, Stores
<1>2. change \in [Links -> ChangeRow \cup {None}]
  BY <1>1 DEF Stores, StoresTyped
<1>3. /\ change' \in [Links -> ChangeRow \cup {None}]
      /\ \A i \in Links : change'[i] # None =>
           change[i] # None /\ change'[i].user = change[i].user
  BY <1>2 DEF ChangeDelete
<1>4. Stores' /\ Grows
  BY <1>1, <1>3, LinksWritten
     DEF ChangeDelete, client, Stores, StoresTyped, SameIds, Exists
<1>5. [req[q] EXCEPT !.at = "create"] \in Requested
  BY <1>1 DEF Requested, ChangeReq
<1>6. RequestsOK'
  BY <1>1, <1>4, <1>5, GoesOn DEF ChangeDelete, Doing, IInv, Stores, StoresTyped
<1> QED
  BY <1>4, <1>6 DEF IInv, Stores

LEMMA ChangeCreates ==
  ASSUME IInv, NEW q \in Requests, ChangeCreate(q)
  PROVE  IInv'
<1> DEFINE u == req[q].user
<1>1. /\ req[q] \in ChangeReq /\ req[q] # Idle /\ Sound(q)
      /\ hist \in Histories /\ Stores
  BY FieldsOf DEF IInv, RequestsOK, ChangeCreate, Doing, ChangeReq, Idle, StoresTyped, Stores
<1>2. CASE Exists(u)
  <2> DEFINE row == [user |-> u, email |-> req[q].email, exp |-> clock + LinkTtl,
                     used |-> FALSE]
  <2>1. PICK i \in Links : /\ NextId(i, hist.changes, MaxLinks)
                           /\ change' = [change EXCEPT ![i] = row]
                           /\ hist' = [hist EXCEPT !.changes = i]
    BY <1>2 DEF ChangeCreate
  <2>2. clock \in Nat /\ i \in Nat /\ i = hist.changes + 1 /\ hist.changes \in Nat
    BY <1>1, <2>1, Counters, StoreAssumption DEF Stores, StoresTyped, Links, NextId
  <2>3. hist' \in Histories
    BY <1>1, <2>1, HistoryTyped
  <2>4. /\ hist'.sids = hist.sids /\ hist'.changes = i
        /\ hist'.invites = hist.invites
    BY <1>1, <2>1 DEF Histories
  <2>5. row \in ChangeRow /\ u \in Users
    BY <1>1, <2>2, StoreAssumption DEF ChangeRow, ChangeReq
  <2>6. change \in [Links -> ChangeRow \cup {None}]
    BY <1>1 DEF Stores, StoresTyped
  <2>7. StoresTyped'
    BY <1>1, <2>1, <2>3, <2>5, <2>6 DEF ChangeCreate, Stores, StoresTyped, client
  <2>8. \A j \in Links : change'[j] # None =>
          user'[change'[j].user] # None /\ j <= hist'.changes
    <3> SUFFICES ASSUME NEW j \in Links, change'[j] # None
                 PROVE  user'[change'[j].user] # None /\ j <= hist'.changes
      OBVIOUS
    <3>1. user' = user
      BY DEF ChangeCreate
    <3>2. CASE j = i
      <4>1. change'[j] = row
        BY <2>1, <2>6, <3>2
      <4> QED
        BY <1>2, <2>2, <2>4, <3>1, <3>2, <4>1 DEF Exists
    <3>3. CASE j # i
      <4>1. change'[j] = change[j] /\ j \in Int
        BY <2>1, <2>6, <3>3 DEF Links
      <4> QED
        BY <1>1, <2>2, <2>4, <3>1, <4>1 DEF Stores, Owned, Exists
    <3> QED
      BY <3>2, <3>3
  <2>9. Owned'
    BY <1>1, <2>4, <2>8 DEF ChangeCreate, Stores, Owned, Exists
  <2>10. Grows
    BY <1>1, <2>1, <2>2, <2>4, <2>6, Counters DEF ChangeCreate, Grows
  <2> QED
    BY <1>1, <2>3, <2>7, <2>9, <2>10, EndsToo DEF ChangeCreate, IInv
<1>3. CASE ~Exists(u)
  BY <1>3, Ends DEF ChangeCreate, tables
<1> QED
  BY <1>2, <1>3

LEMMA ConfirmTakes ==
  ASSUME IInv, NEW q \in Requests, ConfirmTaken(q)
  PROVE  IInv'
<1> DEFINE at == IF EmailFree(req[q].email, req[q].user) THEN "claim" ELSE "burn"
<1>1. /\ req[q] \in ConfirmReq /\ req[q] # Idle /\ Sound(q)
      /\ hist \in Histories /\ Stores
  BY FieldsOf DEF IInv, RequestsOK, ConfirmTaken, Doing, ConfirmReq, Idle, StoresTyped, Stores
<1>2. Stores' /\ Grows
  BY <1>1, SessionsWritten DEF ConfirmTaken, Stores, StoresTyped, SameIds
<1>3. [req[q] EXCEPT !.at = at] \in Requested
  BY <1>1 DEF Requested, ConfirmReq
<1>4. RequestsOK'
  BY <1>1, <1>2, <1>3, GoesOn DEF ConfirmTaken, Doing, IInv, Stores, StoresTyped
<1> QED
  BY <1>2, <1>4 DEF IInv, Stores

LEMMA ConfirmEnds ==
  ASSUME IInv, NEW q \in Requests, ConfirmBurn(q) \/ ConfirmClaim(q)
  PROVE  IInv'
<1> DEFINE i == req[q].link
           u == req[q].user
           used == [change[i] EXCEPT !.used = TRUE]
           row == [user[u] EXCEPT !.email = req[q].email]
<1>1. /\ req[q] \in ConfirmReq /\ req[q] # Idle /\ Sound(q)
      /\ hist \in Histories /\ Stores
  BY FieldsOf DEF IInv, RequestsOK, ConfirmBurn, ConfirmClaim, Doing, ConfirmReq, Idle, StoresTyped, Stores
<1>2. i \in Links /\ u \in Users /\ req[q].email \in Emails
  BY <1>1 DEF ConfirmReq
<1>3. ASSUME change[i] # None
      PROVE  /\ used \in ChangeRow /\ used.user = change[i].user
             /\ row \in UserRow /\ row # None
  <2>1. change[i] \in ChangeRow
    BY <1>1, <1>2, <1>3 DEF Stores, StoresTyped
  <2>2. change[i].user = u
    BY <1>1, <1>3 DEF Sound, ConfirmSound, ConfirmBurn, ConfirmClaim, Doing
  <2>3. user[u] \in UserRow
    BY <1>1, <1>2, <1>3, <2>2 DEF Stores, StoresTyped, Owned, Exists
  <2>4. row \in UserRow
    BY <1>2, <2>3 DEF UserRow
  <2> QED
    BY <2>1, <2>4, NoneAssumption DEF ChangeRow
<1>4. change \in [Links -> ChangeRow \cup {None}]
      /\ user \in [Users -> UserRow \cup {None}]
  BY <1>1 DEF Stores, StoresTyped
<1>5. ASSUME change[i] # None, change' = [change EXCEPT ![i] = used]
      PROVE  /\ change' \in [Links -> ChangeRow \cup {None}]
             /\ \A j \in Links : change'[j] # None =>
                  change[j] # None /\ change'[j].user = change[j].user
  BY <1>2, <1>3, <1>4, <1>5
<1>6. CASE ConfirmBurn(q)
  <2>1. Stores' /\ Grows
    <3>1. CASE change[i] # None
      <4>1. change' = [change EXCEPT ![i] = used]
        BY <1>6, <3>1 DEF ConfirmBurn
      <4> QED
        BY <1>1, <1>4, <1>5, <1>6, <3>1, <4>1, LinksWritten
           DEF ConfirmBurn, client, Stores, StoresTyped, SameIds, Exists
    <3>2. CASE change[i] = None
      BY <1>1, <1>6, <3>2, SessionsWritten
         DEF ConfirmBurn, tables, Stores, StoresTyped, SameIds
    <3> QED
      BY <3>1, <3>2
  <2> QED
    BY <1>1, <1>6, <2>1, EndsToo DEF ConfirmBurn, IInv, Stores
<1>7. CASE ConfirmClaim(q) /\ Confirmable(i, req[q].now) /\ EmailFree(req[q].email, u)
  <2>1. change[i] # None
    BY <1>7 DEF Confirmable
  <2>2. change' = [change EXCEPT ![i] = used] /\ user' = [user EXCEPT ![u] = row]
    BY <1>7 DEF ConfirmClaim
  <2>3. /\ user' \in [Users -> UserRow \cup {None}]
        /\ \A v \in Users : Exists(v) => Exists(v)'
    BY <1>2, <1>3, <1>4, <2>1, <2>2 DEF Exists
  <2>4. hist' \in Histories /\ SameIds(hist')
    BY <1>1, <1>2, <1>7, ClaimTyped DEF ConfirmClaim
  <2>5. Stores' /\ Grows
    BY <1>1, <1>5, <1>7, <2>1, <2>2, <2>3, <2>4, LinksWritten
       DEF ConfirmClaim, client, Stores, StoresTyped
  <2> QED
    BY <1>1, <1>7, <2>5, EndsToo DEF ConfirmClaim, IInv, Stores, StoresTyped
<1>8. CASE ConfirmClaim(q) /\ ~(Confirmable(i, req[q].now) /\ EmailFree(req[q].email, u))
  BY <1>8, Ends DEF ConfirmClaim, tables
<1> QED
  BY <1>6, <1>7, <1>8

LEMMA UpdateWrites ==
  ASSUME IInv, NEW q \in Requests, UpdateWrite(q)
  PROVE  IInv'
<1> DEFINE u == req[q].user
           p == req[q].patch
           row == [user[u] EXCEPT !.role = Given(p.role, @),
                                  !.group = Given(p.group, @),
                                  !.email = Given(p.email, @)]
           written == Exists(u) /\ (p.email # None => EmailFree(p.email, u))
<1>1. /\ req[q] \in UpdateReq /\ req[q] # Idle /\ Sound(q)
      /\ hist \in Histories /\ Stores
  BY FieldsOf DEF IInv, RequestsOK, UpdateWrite, Doing, UpdateReq, Idle, StoresTyped, Stores
<1>2. u \in Users /\ p \in Patches
  BY <1>1 DEF UpdateReq
<1>3. CASE written
  <2>1. user[u] \in UserRow
    BY <1>1, <1>2, <1>3 DEF Stores, StoresTyped, Exists
  <2>2. row \in UserRow
    BY <1>2, <2>1 DEF UserRow, Patches, Given
  <2>3. user' = [user EXCEPT ![u] = row]
    BY <1>3 DEF UpdateWrite
  <2>4. hist' = [hist EXCEPT !.lost = Losing(u, Given(p.role, user[u].role))]
    BY <1>3 DEF UpdateWrite
  <2>5. hist' \in Histories
    BY <1>1, <1>2, <2>4, LostTyped DEF Stores
  <2>6. SameIds(hist')
    BY <1>1, <2>4 DEF Histories, SameIds
  <2>7. Stores' /\ Grows
    BY <1>1, <1>2, <2>2, <2>3, <2>5, <2>6, UserWritten DEF UpdateWrite
  <2>8. CASE NeedsSync(req[q])
    <3>1. [req[q] EXCEPT !.at = "sync"] \in Requested
      BY <1>1 DEF Requested, UpdateReq
    <3>2. Goto(q, "sync") /\ req[q].op = "update"
      BY <1>3, <2>8 DEF UpdateWrite, Doing
    <3>3. RequestsOK'
      BY <1>1, <2>5, <2>7, <3>1, <3>2, GoesOn DEF IInv
    <3> QED
      BY <2>7, <3>3 DEF IInv, Stores
  <2>9. CASE ~NeedsSync(req[q])
    BY <1>1, <1>3, <2>5, <2>7, <2>9, EndsToo DEF UpdateWrite, IInv, Stores
  <2> QED
    BY <2>8, <2>9
<1>4. CASE ~written
  BY <1>4, Ends DEF UpdateWrite, tables
<1> QED
  BY <1>3, <1>4

LEMMA UpdateSyncs ==
  ASSUME IInv, NEW q \in Requests, UpdateSync(q)
  PROVE  IInv'
<1> DEFINE u == req[q].user
<1>1. /\ req[q] \in UpdateReq /\ req[q] # Idle /\ Sound(q)
      /\ hist \in Histories /\ Stores
  BY FieldsOf DEF IInv, RequestsOK, UpdateSync, Doing, UpdateReq, Idle, StoresTyped, Stores
<1>2. u \in Users
  BY <1>1 DEF UpdateReq
<1>3. hist' \in Histories /\ SameIds(hist')
  BY <1>1, <1>2, TearTyped DEF UpdateSync, SameIds
<1>4. PICK managed \in SUBSET Factories :
        user' = user \/ (Exists(u) /\ user' = [user EXCEPT ![u].managed = managed])
  <2>1. FactoriesOf(Given(req[q].patch.group, req[q].group)) \in SUBSET Factories
    BY DEF FactoriesOf
  <2> QED
    BY <2>1 DEF UpdateSync
<1>5. CASE user' = user
  <2>1. Stores' /\ Grows
    BY <1>1, <1>3, <1>5, SessionsWritten DEF UpdateSync, tables, Stores, StoresTyped
  <2> QED
    BY <1>1, <1>3, <2>1, EndsToo DEF UpdateSync, IInv, Stores
<1>6. CASE Exists(u) /\ user' = [user EXCEPT ![u].managed = managed]
  <2>1. user[u] \in UserRow
    BY <1>1, <1>2, <1>6 DEF Stores, StoresTyped, Exists
  <2>2. [user[u] EXCEPT !.managed = managed] \in UserRow
    BY <2>1 DEF UserRow
  <2>3. Stores' /\ Grows
    BY <1>1, <1>2, <1>3, <1>6, <2>2, UserWritten DEF UpdateSync
  <2> QED
    BY <1>1, <1>3, <2>3, EndsToo DEF UpdateSync, IInv, Stores
<1> QED
  BY <1>4, <1>5, <1>6

LEMMA Dies ==
  ASSUME IInv, NEW q \in Requests, Die(q)
  PROVE  IInv'
<1>1. req[q].op \in {"resend", "update"} => req[q].user \in Users
  BY FieldsOf DEF IInv, RequestsOK, ResendReq, UpdateReq
<1>2. hist' = hist \/ \E kind \in {"invite", "change", "update"}, u \in Users :
                        hist' = Tear(kind, u)
  BY <1>1 DEF Die
<1> QED
  BY <1>2, Ends DEF Die

LEMMA Ticks ==
  ASSUME IInv, Tick
  PROVE  IInv'
<1>1. clock \in Nat /\ clock' = clock + 1 /\ clock' \in 0 .. Horizon
  BY StoreAssumption DEF IInv, StoresTyped, Tick
<1>2. StoresTyped'
  BY <1>1 DEF IInv, StoresTyped, Tick, tables
<1>3. Owned'
  BY DEF IInv, Owned, Exists, Tick, tables
<1>4. ASSUME NEW q \in Requests PROVE Sound(q)'
  <2>1. Sound(q) /\ (req[q] # Idle => req[q].now = clock)
    BY DEF IInv, RequestsOK, Tick
  <2>2. Timely(q)'
    BY <1>1, <2>1 DEF Timely, Tick
  <2> QED
    BY <2>1, <2>2
       DEF Tick, tables, Sound, LoginSound, RefreshSound, LogoutSound,
           MailSound, AcceptSound, ConfirmSound, Doing
<1> QED
  BY <1>2, <1>3, <1>4 DEF IInv, RequestsOK, Tick

LEMMA InitInv == Init => IInv
<1> SUFFICES ASSUME Init PROVE IInv
  OBVIOUS
<1>1. hist \in Histories
  <2>1. /\ [u \in Users |-> 0] \in [Users -> Nat]
        /\ [u \in Users |-> [r \in Roles |-> None]]
             \in [Users -> [Roles -> Nat \cup {None}]]
        /\ [k \in {"invite", "change"} |-> [i \in Links |-> 0]]
             \in [{"invite", "change"} -> [Links -> Nat]]
    OBVIOUS
  <2>2. 0 \in 0 .. MaxTokens /\ 0 \in 0 .. MaxSessions /\ 0 \in 0 .. MaxLinks
    BY StoreAssumption
  <2> QED
    BY <2>1, <2>2 DEF Init, Histories
<1>2. StoresTyped
  BY <1>1, StoreAssumption, SeedAssumption DEF Init, StoresTyped
<1>3. Owned
  BY DEF Init, Owned
<1>4. ASSUME NEW q \in Requests PROVE req[q] = Idle /\ Sound(q)
  BY DEF Init, Idle, Sound, Timely, LoginSound, RefreshSound, LogoutSound,
         MailSound, AcceptSound, ConfirmSound, Doing
<1>5. req \in [Requests -> Requested \cup {Idle}]
  BY DEF Init
<1> QED
  BY <1>2, <1>3, <1>4, <1>5 DEF IInv, RequestsOK

LEMMA Stutters == IInv /\ UNCHANGED vars => IInv'
<1> SUFFICES ASSUME IInv, UNCHANGED vars PROVE IInv'
  OBVIOUS
<1>1. StoresTyped'
  BY DEF vars, tables, client, IInv, StoresTyped
<1>2. Owned'
  BY DEF vars, tables, IInv, Owned, Exists
<1>3. ASSUME NEW q \in Requests PROVE Sound(q)'
  <2>1. Sound(q)
    BY DEF IInv, RequestsOK
  <2> QED
    BY <2>1 DEF vars, tables, Sound, Timely, LoginSound, RefreshSound,
                LogoutSound, MailSound, AcceptSound, ConfirmSound, Doing
<1> QED
  BY <1>1, <1>2, <1>3 DEF vars, IInv, RequestsOK

LEMMA StepInv == IInv /\ [Next]_vars => IInv'
<1> SUFFICES ASSUME IInv, [Next]_vars PROVE IInv'
  OBVIOUS
<1>1. CASE Tick
  BY <1>1, Ticks
<1>2. ASSUME NEW q \in Requests, SessionStep(q) PROVE IInv'
  BY <1>2, LoginBegins, LoginWrites, LoginMakesSession, LoginGivesTokens,
     RefreshBegins, RefreshReads, RefreshAddsToken, Revokes, RefreshTouches,
     LogoutBegins, LogoutDeletes DEF SessionStep
<1>3. ASSUME NEW q \in Requests, InvitationStep(q) PROVE IInv'
  BY <1>3, InviteBegins, InviteCreates, DeleteWrites, ResendBegins, ResendCreates,
     ResendEnds, MailSends, AcceptBegins, AcceptNames, AcceptClaims
     DEF InvitationStep
<1>4. ASSUME NEW q \in Requests, EmailChangeStep(q) PROVE IInv'
  BY <1>4, ChangeBegins, ChangeTakes, ChangeDeletes, ChangeCreates,
     ConfirmBegins, ConfirmTakes, ConfirmEnds DEF EmailChangeStep
<1>5. ASSUME NEW q \in Requests, UserAdminStep(q) PROVE IInv'
  BY <1>5, UpdateBegins, UpdateWrites, UpdateSyncs, DeleteBegins, DeleteWrites
     DEF UserAdminStep
<1>6. ASSUME NEW q \in Requests, Die(q) PROVE IInv'
  BY <1>6, Dies
<1>7. CASE UNCHANGED vars
  BY <1>7, Stutters
<1> QED
  BY <1>1, <1>2, <1>3, <1>4, <1>5, <1>6, <1>7 DEF Next

(* The tables, the sessions, the tokens and the requests have the types    *)
(* the code gives them, and a token or a link always has its user: the     *)
(* cascade of a deletion (prisma/schema.prisma, user-service.ts) leaves    *)
(* none behind, whatever requests were under way for the user.             *)
THEOREM TypeCorrect == Spec => [](TypeOK /\ Owned)
<1>1. IInv => TypeOK /\ Owned
  BY DEF IInv, StoresTyped, RequestsOK, TypeOK
<1> QED
  BY <1>1, InitInv, StepInv, PTL DEF Spec

-------------------------------------------------------------------------------
(* LinkWorksOnce: what a link did is recorded in its row as long as there  *)
(* is one, and an identifier that was not given out did nothing.           *)
ClaimsRecorded ==
  \A i \in Links :
    /\ hist.claims["invite"][i] <= 1 /\ hist.claims["change"][i] <= 1
    /\ hist.claims["invite"][i] # 0 =>
         i <= hist.invites /\ (invite[i] # None => invite[i].accepted)
    /\ hist.claims["change"][i] # 0 =>
         i <= hist.changes /\ (change[i] # None => change[i].used)

(* A step that does the work of no link, and sets none back.               *)
ClaimsKept ==
  /\ hist'.claims = hist.claims
  /\ hist.invites <= hist'.invites /\ hist.changes <= hist'.changes
  /\ \A i \in Links : i <= hist.invites /\ invite'[i] # None =>
       invite[i] # None /\ (invite[i].accepted => invite'[i].accepted)
  /\ \A i \in Links : i <= hist.changes /\ change'[i] # None =>
       change[i] # None /\ (change[i].used => change'[i].used)

LEMMA KeptClaims ==
  ASSUME IInv, hist' \in Histories, ClaimsRecorded, ClaimsKept
  PROVE  ClaimsRecorded'
<1> SUFFICES ASSUME NEW i \in Links
             PROVE  /\ hist'.claims["invite"][i] <= 1
                    /\ hist'.claims["change"][i] <= 1
                    /\ hist'.claims["invite"][i] # 0 =>
                         i <= hist'.invites /\ (invite'[i] # None => invite'[i].accepted)
                    /\ hist'.claims["change"][i] # 0 =>
                         i <= hist'.changes /\ (change'[i] # None => change'[i].used)
  BY DEF ClaimsRecorded
<1>1. /\ i \in Nat /\ hist.invites \in Nat /\ hist.changes \in Nat
      /\ hist'.invites \in Nat /\ hist'.changes \in Nat
  BY Counters, StoreAssumption DEF Links, IInv, StoresTyped
<1> QED
  BY <1>1 DEF ClaimsRecorded, ClaimsKept

(* Most steps leave the links alone.                                       *)
LinksAlone ==
  /\ UNCHANGED <<invite, change>>
  /\ hist'.claims = hist.claims
  /\ hist'.invites = hist.invites /\ hist'.changes = hist.changes

LEMMA QuietSessions ==
  ASSUME IInv, NEW q \in Requests, SessionStep(q)
  PROVE  LinksAlone
<1>1. hist \in Histories
  BY DEF IInv, StoresTyped
<1>2. CASE \/ \E u \in Users, ok \in BOOLEAN : LoginRead(q, u, ok)
           \/ \E t \in Tokens : RefreshRead(q, t) \/ LogoutRead(q, t)
           \/ RefreshSession(q) \/ RefreshRevoke(q) \/ RefreshTouch(q)
           \/ LogoutRevoke(q)
  BY <1>2 DEF LinksAlone, LoginRead, RefreshRead, LogoutRead, RefreshSession,
              RefreshRevoke, RefreshTouch, LogoutRevoke, tables
<1>3. CASE LoginFail(q) \/ LoginClear(q)
  BY <1>1, <1>3 DEF LinksAlone, LoginFail, LoginClear, Histories
<1>4. CASE LoginSession(q)
  BY <1>1, <1>4 DEF LinksAlone, LoginSession, Histories, tables
<1>5. CASE LoginTokens(q) \/ RefreshCreate(q)
  BY <1>1, <1>5 DEF LinksAlone, LoginTokens, RefreshCreate, AddToken, Histories
<1>6. CASE \E reached \in BOOLEAN : LogoutDelete(q, reached)
  <2>1. PICK e, r : hist' = [hist EXCEPT !.ended = e, !.raced = r]
    BY <1>6 DEF LogoutDelete
  <2>2. UNCHANGED <<invite, change>>
    BY <1>6 DEF LogoutDelete, tables
  <2> QED
    BY <1>1, <2>1, <2>2 DEF LinksAlone, Histories
<1> QED
  BY <1>2, <1>3, <1>4, <1>5, <1>6 DEF SessionStep

LEMMA QuietAdmin ==
  ASSUME IInv, NEW q \in Requests, UserAdminStep(q), ~DeleteWrite(q)
  PROVE  LinksAlone
<1>1. hist \in Histories
  BY DEF IInv, StoresTyped
<1>2. CASE \/ \E u \in Users, p \in Patches : UpdateRead(q, u, p)
           \/ \E u \in Users : DeleteRead(q, u)
  BY <1>1, <1>2 DEF LinksAlone, UpdateRead, DeleteRead, Tear, Histories, tables
<1>3. CASE UpdateWrite(q)
  BY <1>1, <1>3 DEF LinksAlone, UpdateWrite, Histories
<1>4. CASE UpdateSync(q)
  BY <1>1, <1>4 DEF LinksAlone, UpdateSync, Tear, Histories
<1> QED
  BY <1>2, <1>3, <1>4 DEF UserAdminStep

LEMMA QuietLinks ==
  ASSUME IInv, NEW q \in Requests,
         \/ \E u \in Users, e \in Emails, r \in AskedRoles, g \in Groups \cup {None} :
              InviteCheck(q, u, e, r, g)
         \/ \E u \in Users : ResendRead(q, u)
         \/ \E delivered, ok \in BOOLEAN : SendMail(q, delivered, ok)
         \/ \E i \in Links, n \in Names : AcceptRead(q, i, n)
         \/ AcceptName(q)
         \/ \E u \in Users, e \in Emails : ChangeRead(q, u, e)
         \/ ChangeTaken(q) \/ ConfirmTaken(q)
         \/ \E i \in Links : ConfirmRead(q, i)
         \/ Die(q)
  PROVE  LinksAlone
<1>1. hist \in Histories
  BY DEF IInv, StoresTyped
<1>2. hist' = hist \/ \E kind, u : hist' = Tear(kind, u)
  BY DEF InviteCheck, ResendRead, SendMail, AcceptRead, AcceptName, ChangeRead,
         ChangeTaken, ConfirmTaken, ConfirmRead, Die
<1>3. UNCHANGED <<invite, change>>
  BY DEF InviteCheck, ResendRead, SendMail, AcceptRead, AcceptName, ChangeRead,
         ChangeTaken, ConfirmTaken, ConfirmRead, Die, tables
<1> QED
  BY <1>1, <1>2, <1>3 DEF LinksAlone, Tear, Histories

LEMMA AloneKept ==
  ASSUME IInv, LinksAlone PROVE ClaimsKept
BY Counters DEF LinksAlone, ClaimsKept, IInv, StoresTyped

(* The steps that write links.                                             *)
LEMMA LinksMadeKept ==
  ASSUME IInv, NEW q \in Requests,
         InviteCreate(q) \/ ResendCreate(q) \/ ChangeCreate(q)
  PROVE  ClaimsKept
<1>1. /\ hist \in Histories /\ hist.invites \in Nat /\ hist.changes \in Nat
      /\ \A i \in Links : i \in Nat
      /\ invite \in [Links -> InviteRow \cup {None}]
      /\ change \in [Links -> ChangeRow \cup {None}]
  BY Counters, StoreAssumption DEF IInv, StoresTyped, Links
<1>2. CASE LinksAlone
  BY <1>2, AloneKept
<1>3. ASSUME NEW i \in Links, NEW u, NewInvite(i, u),
             hist' = [hist EXCEPT !.invites = i], change' = change
      PROVE  ClaimsKept
  <2>1. /\ hist'.claims = hist.claims /\ hist'.invites = i
        /\ hist'.changes = hist.changes
    BY <1>1, <1>3 DEF Histories
  <2>2. i = hist.invites + 1 /\ \A j \in Links \ {i} : invite'[j] = invite[j]
    BY <1>1, <1>3 DEF NewInvite, NextId
  <2> QED
    BY <1>1, <1>3, <2>1, <2>2 DEF ClaimsKept
<1>4. ASSUME NEW i \in Links, NEW row, NextId(i, hist.changes, MaxLinks),
             change' = [change EXCEPT ![i] = row],
             hist' = [hist EXCEPT !.changes = i], invite' = invite
      PROVE  ClaimsKept
  <2>1. /\ hist'.claims = hist.claims /\ hist'.changes = i
        /\ hist'.invites = hist.invites
    BY <1>1, <1>4 DEF Histories
  <2>2. i = hist.changes + 1 /\ \A j \in Links \ {i} : change'[j] = change[j]
    BY <1>1, <1>4 DEF NextId
  <2> QED
    BY <1>1, <1>4, <2>1, <2>2 DEF ClaimsKept
<1>5. CASE InviteCreate(q) \/ ResendCreate(q)
  BY <1>2, <1>3, <1>5 DEF InviteCreate, ResendCreate, LinksAlone
<1>6. CASE ChangeCreate(q)
  BY <1>2, <1>4, <1>6 DEF ChangeCreate, LinksAlone
<1> QED
  BY <1>5, <1>6

LEMMA LinksGoneKept ==
  ASSUME IInv, NEW q \in Requests,
         \/ InviteUndo(q) \/ DeleteWrite(q) \/ ResendUndo(q) \/ ResendRevoke(q)
         \/ ChangeDelete(q) \/ ConfirmBurn(q)
  PROVE  ClaimsKept
<1>1. /\ hist \in Histories /\ hist.invites \in Nat /\ hist.changes \in Nat
      /\ invite \in [Links -> InviteRow \cup {None}]
      /\ change \in [Links -> ChangeRow \cup {None}]
  BY Counters DEF IInv, StoresTyped
<1>2. /\ hist'.claims = hist.claims /\ hist'.invites = hist.invites
      /\ hist'.changes = hist.changes
  BY <1>1 DEF InviteUndo, DeleteWrite, ResendUndo, ResendRevoke, ChangeDelete,
              ConfirmBurn, Histories
<1>3. CASE InviteUndo(q) \/ DeleteWrite(q)
  <2>1. PICK u : DeleteUser(u)
    BY <1>3 DEF InviteUndo, DeleteWrite
  <2> QED
    BY <1>1, <1>2, <2>1 DEF DeleteUser, ClaimsKept
<1>4. CASE ResendUndo(q) \/ ChangeDelete(q)
  BY <1>1, <1>2, <1>4 DEF ResendUndo, ChangeDelete, ClaimsKept
<1>5. CASE ResendRevoke(q)
  <2>1. \A i \in Links : invite'[i] = invite[i] \/
          (Pending(i) /\ invite'[i] = [invite[i] EXCEPT !.revoked = TRUE])
    BY <1>5 DEF ResendRevoke
  <2>2. change' = change
    BY <1>5 DEF ResendRevoke
  <2>3. \A i \in Links : invite[i] # None =>
          [invite[i] EXCEPT !.revoked = TRUE].accepted = invite[i].accepted
    BY <1>1 DEF InviteRow
  <2>4. ASSUME NEW i \in Links, invite'[i] # None
        PROVE  invite[i] # None /\ (invite[i].accepted => invite'[i].accepted)
    BY <2>1, <2>3, <2>4 DEF Pending
  <2> QED
    BY <1>1, <1>2, <2>2, <2>4 DEF ClaimsKept
<1>6. CASE ConfirmBurn(q)
  <2>1. /\ invite' = invite
        /\ \/ change' = change
           \/ /\ change[req[q].link] # None
              /\ change' = [change EXCEPT ![req[q].link].used = TRUE]
    BY <1>6 DEF ConfirmBurn
  <2>2. \A i \in Links : change'[i] = change[i] \/
          (change[i] # None /\ change'[i] = [change[i] EXCEPT !.used = TRUE])
    BY <1>1, <2>1
  <2>3. \A i \in Links : change[i] # None =>
          [change[i] EXCEPT !.used = TRUE].used
    BY <1>1 DEF ChangeRow
  <2>4. ASSUME NEW i \in Links, change'[i] # None
        PROVE  change[i] # None /\ (change[i].used => change'[i].used)
    BY <2>2, <2>3, <2>4
  <2> QED
    BY <1>1, <1>2, <2>1, <2>4 DEF ClaimsKept
<1> QED
  BY <1>3, <1>4, <1>5, <1>6

(* The two steps in which a link does its work.                            *)
LEMMA AcceptRecords ==
  ASSUME IInv, ClaimsRecorded, NEW q \in Requests, AcceptClaim(q)
  PROVE  ClaimsRecorded'
<1> DEFINE i == req[q].link
<1>1. /\ req[q] \in AcceptReq /\ hist \in Histories /\ Sound(q)
      /\ invite \in [Links -> InviteRow \cup {None}]
  BY FieldsOf DEF IInv, RequestsOK, AcceptClaim, Doing, StoresTyped
<1>2. i \in Links /\ i <= hist.invites
  BY <1>1 DEF AcceptReq, Sound, AcceptSound, AcceptClaim, Doing
<1>3. CASE ClaimInvitation(i, req[q].now) /\ NameFree(req[q].name, req[q].user)
  <2>1. invite[i] # None /\ invite[i] \in InviteRow /\ ~invite[i].accepted
    BY <1>1, <1>2, <1>3 DEF ClaimInvitation, ActiveInvitation, Pending
  <2>2. hist.claims["invite"][i] = 0
    BY <1>1, <1>2, <2>1 DEF ClaimsRecorded, Histories
  <2>3. /\ invite' = [invite EXCEPT ![i].accepted = TRUE] /\ change' = change
        /\ hist' = [hist EXCEPT !.claims["invite"][i] = @ + 1,
                                !.tested[req[q].user] = 0]
    BY <1>3 DEF AcceptClaim
  <2>4. /\ hist'.invites = hist.invites /\ hist'.changes = hist.changes
        /\ hist'.claims = [hist.claims EXCEPT !["invite"][i] = @ + 1]
    BY <1>1, <2>3 DEF Histories
  <2>5. /\ hist'.claims["change"] = hist.claims["change"]
        /\ hist'.claims["invite"][i] = 1
        /\ \A j \in Links \ {i} : hist'.claims["invite"][j] = hist.claims["invite"][j]
    BY <1>1, <1>2, <2>2, <2>4 DEF Histories
  <2>6. invite'[i].accepted /\ \A j \in Links \ {i} : invite'[j] = invite[j]
    BY <1>1, <1>2, <2>1, <2>3 DEF InviteRow
  <2> QED
    BY <1>2, <2>3, <2>4, <2>5, <2>6 DEF ClaimsRecorded
<1>4. CASE ~(ClaimInvitation(i, req[q].now) /\ NameFree(req[q].name, req[q].user))
  <2>1. LinksAlone
    BY <1>4 DEF AcceptClaim, LinksAlone
  <2> QED
    BY <2>1 DEF LinksAlone, ClaimsRecorded
<1> QED
  BY <1>3, <1>4

LEMMA ConfirmRecords ==
  ASSUME IInv, ClaimsRecorded, NEW q \in Requests, ConfirmClaim(q)
  PROVE  ClaimsRecorded'
<1> DEFINE i == req[q].link
<1>1. /\ req[q] \in ConfirmReq /\ hist \in Histories /\ Sound(q)
      /\ change \in [Links -> ChangeRow \cup {None}]
  BY FieldsOf DEF IInv, RequestsOK, ConfirmClaim, Doing, StoresTyped
<1>2. i \in Links /\ i <= hist.changes
  BY <1>1 DEF ConfirmReq, Sound, ConfirmSound, ConfirmClaim, Doing
<1>3. CASE Confirmable(i, req[q].now) /\ EmailFree(req[q].email, req[q].user)
  <2>1. change[i] # None /\ change[i] \in ChangeRow /\ ~change[i].used
    BY <1>1, <1>2, <1>3 DEF Confirmable
  <2>2. hist.claims["change"][i] = 0
    BY <1>1, <1>2, <2>1 DEF ClaimsRecorded, Histories
  <2>3. /\ change' = [change EXCEPT ![i].used = TRUE] /\ invite' = invite
        /\ hist' = [hist EXCEPT !.claims["change"][i] = @ + 1]
    BY <1>3 DEF ConfirmClaim
  <2>4. /\ hist'.invites = hist.invites /\ hist'.changes = hist.changes
        /\ hist'.claims = [hist.claims EXCEPT !["change"][i] = @ + 1]
    BY <1>1, <2>3 DEF Histories
  <2>5. /\ hist'.claims["invite"] = hist.claims["invite"]
        /\ hist'.claims["change"][i] = 1
        /\ \A j \in Links \ {i} : hist'.claims["change"][j] = hist.claims["change"][j]
    BY <1>1, <1>2, <2>2, <2>4 DEF Histories
  <2>6. change'[i].used /\ \A j \in Links \ {i} : change'[j] = change[j]
    BY <1>1, <1>2, <2>1, <2>3 DEF ChangeRow
  <2> QED
    BY <1>2, <2>3, <2>4, <2>5, <2>6 DEF ClaimsRecorded
<1>4. CASE ~(Confirmable(i, req[q].now) /\ EmailFree(req[q].email, req[q].user))
  <2>1. LinksAlone
    BY <1>4 DEF ConfirmClaim, LinksAlone
  <2> QED
    BY <2>1 DEF LinksAlone, ClaimsRecorded
<1> QED
  BY <1>3, <1>4

(* An invitation, and a link that confirms an address, does its work once, *)
(* for any number of requests that present it: the claim in the            *)
(* transaction repeats the conditions of the read                          *)
(* (invitation-service.ts:369, email-change-service.ts:115).               *)
THEOREM LinksWorkOnce == Spec => []LinkWorksOnce
<1>1. Init => ClaimsRecorded
  BY DEF Init, ClaimsRecorded
<1>2. IInv /\ IInv' /\ ClaimsRecorded /\ [Next]_vars => ClaimsRecorded'
  <2> SUFFICES ASSUME IInv, IInv', ClaimsRecorded, [Next]_vars
               PROVE  ClaimsRecorded'
    OBVIOUS
  <2>1. hist' \in Histories
    BY DEF IInv, StoresTyped
  <2>2. CASE ClaimsKept
    BY <2>1, <2>2, KeptClaims
  <2>3. CASE LinksAlone
    BY <2>2, <2>3, AloneKept
  <2>4. CASE Tick \/ UNCHANGED vars
    BY <2>3, <2>4 DEF Tick, vars, tables, LinksAlone
  <2>5. ASSUME NEW q \in Requests, SessionStep(q) PROVE ClaimsRecorded'
    BY <2>3, <2>5, QuietSessions
  <2>6. ASSUME NEW q \in Requests, UserAdminStep(q) PROVE ClaimsRecorded'
    BY <2>2, <2>3, <2>6, QuietAdmin, LinksGoneKept
  <2>7. ASSUME NEW q \in Requests, InvitationStep(q) PROVE ClaimsRecorded'
    BY <2>2, <2>3, <2>7, QuietLinks, LinksMadeKept, LinksGoneKept, AcceptRecords
       DEF InvitationStep
  <2>8. ASSUME NEW q \in Requests, EmailChangeStep(q) PROVE ClaimsRecorded'
    BY <2>2, <2>3, <2>8, QuietLinks, LinksMadeKept, LinksGoneKept, ConfirmRecords
       DEF EmailChangeStep
  <2>9. ASSUME NEW q \in Requests, Die(q) PROVE ClaimsRecorded'
    BY <2>3, <2>9, QuietLinks
  <2> QED
    BY <2>4, <2>5, <2>6, <2>7, <2>8, <2>9 DEF Next
<1>3. ClaimsRecorded => LinkWorksOnce
  BY DEF ClaimsRecorded, LinkWorksOnce
<1> QED
  BY <1>1, <1>2, <1>3, InitInv, StepInv, PTL DEF Spec

-------------------------------------------------------------------------------
(* LogoutEnds: a session that was ended is gone from Redis, its identifier *)
(* is not given out again, and no refresh holds a copy of it.              *)
Touching(p, s) ==
  req[p].op = "refresh" /\ req[p].sid = s /\ req[p].at # "session"

EndedGone ==
  \A s \in hist.ended \ hist.raced :
    /\ session[s] = None /\ s <= hist.sids
    /\ \A p \in Requests : ~Touching(p, s)

(* A step that writes no session, and in which no request reads one.       *)
SessionsAlone ==
  /\ session' = session
  /\ hist'.ended = hist.ended /\ hist'.raced = hist.raced
  /\ hist'.sids = hist.sids
  /\ \A p \in Requests, s \in Sids : Touching(p, s)' => Touching(p, s)

LEMMA AloneGone ==
  ASSUME IInv, IInv', EndedGone, SessionsAlone
  PROVE  EndedGone'
<1> SUFFICES ASSUME NEW s \in hist'.ended \ hist'.raced
             PROVE  /\ session'[s] = None /\ s <= hist'.sids
                    /\ \A p \in Requests : ~Touching(p, s)'
  BY DEF EndedGone
<1>1. s \in Sids /\ s \in Int /\ hist.sids \in Nat /\ hist'.sids \in Nat
  BY Counters DEF IInv, StoresTyped, Histories, Sids
<1> QED
  BY <1>1 DEF EndedGone, SessionsAlone

(* What a step may make of its request without reading a session.          *)
LEMMA NoTouch ==
  ASSUME IInv, NEW q \in Requests,
         \/ End(q)
         \/ \E r : r.op # "refresh" /\ req' = [req EXCEPT ![q] = r]
         \/ req[q].op # "refresh" /\ \E at : Goto(q, at)
         \/ Doing(q, "refresh", "revoke") /\ Goto(q, "touch")
  PROVE  \A p \in Requests, s \in Sids : Touching(p, s)' => Touching(p, s)
<1> SUFFICES ASSUME NEW p \in Requests, NEW s \in Sids, Touching(p, s)'
             PROVE  Touching(p, s)
  OBVIOUS
<1>1. req \in [Requests -> Requested \cup {Idle}]
  BY DEF IInv, RequestsOK
<1>2. CASE p # q
  BY <1>1, <1>2 DEF Touching, End, Goto
<1>3. CASE p = q /\ End(q)
  BY <1>1, <1>3 DEF Touching, End, Idle
<1>4. CASE p = q /\ \E r : r.op # "refresh" /\ req' = [req EXCEPT ![q] = r]
  BY <1>1, <1>4 DEF Touching
<1>5. CASE p = q /\ req[q].op # "refresh" /\ \E at : Goto(q, at)
  <2>1. PICK at : req'[q] = [req[q] EXCEPT !.at = at]
    BY <1>1, <1>5 DEF Goto
  <2>2. req'[q].op = req[q].op
    BY <1>1, <2>1
       DEF Requested, LoginReq, RefreshReq, LogoutReq, InviteReq, ResendReq,
           AcceptReq, ChangeReq, ConfirmReq, UpdateReq, DeleteReq, Idle
  <2> QED
    BY <1>5, <2>2 DEF Touching
<1>6. CASE p = q /\ Doing(q, "refresh", "revoke") /\ Goto(q, "touch")
  <2>1. req[q] \in RefreshReq
    BY <1>1, <1>6, FieldsOf DEF Doing
  <2>2. req'[q] = [req[q] EXCEPT !.at = "touch"]
    BY <1>1, <1>6 DEF Goto
  <2> QED
    BY <1>6, <2>1, <2>2 DEF Touching, RefreshReq, Doing
<1> QED
  BY <1>2, <1>3, <1>4, <1>5, <1>6

(* The history of sessions is left alone by all but four steps.            *)
LEMMA QuietHistory ==
  ASSUME hist \in Histories,
         \/ hist' = hist
         \/ \E kind, u : hist' = Tear(kind, u)
         \/ \E t : hist' = [hist EXCEPT !.tokens = t]
         \/ \E i : hist' = [hist EXCEPT !.invites = i]
         \/ \E i : hist' = [hist EXCEPT !.changes = i]
         \/ \E l : hist' = [hist EXCEPT !.lost = l]
         \/ \E u, n : hist' = [hist EXCEPT !.tested[u] = n]
         \/ \E k, i, n : hist' = [hist EXCEPT !.claims[k][i] = n]
         \/ \E k, i, n, u : hist' = [hist EXCEPT !.claims[k][i] = n, !.tested[u] = 0]
  PROVE  /\ hist'.ended = hist.ended /\ hist'.raced = hist.raced
         /\ hist'.sids = hist.sids
BY DEF Histories, Tear

LEMMA AloneByParts ==
  ASSUME IInv, NEW q \in Requests, session' = session,
         \/ hist' = hist
         \/ \E kind, u : hist' = Tear(kind, u)
         \/ \E t : hist' = [hist EXCEPT !.tokens = t]
         \/ \E i : hist' = [hist EXCEPT !.invites = i]
         \/ \E i : hist' = [hist EXCEPT !.changes = i]
         \/ \E l : hist' = [hist EXCEPT !.lost = l]
         \/ \E u, n : hist' = [hist EXCEPT !.tested[u] = n]
         \/ \E k, i, n : hist' = [hist EXCEPT !.claims[k][i] = n]
         \/ \E k, i, n, u : hist' = [hist EXCEPT !.claims[k][i] = n, !.tested[u] = 0],
         \/ End(q)
         \/ \E r : r.op # "refresh" /\ req' = [req EXCEPT ![q] = r]
         \/ req[q].op # "refresh" /\ \E at : Goto(q, at)
         \/ Doing(q, "refresh", "revoke") /\ Goto(q, "touch")
  PROVE  SessionsAlone
<1>1. hist \in Histories /\ hist.sids \in Nat
  BY Counters DEF IInv, StoresTyped
<1>2. /\ hist'.ended = hist.ended /\ hist'.raced = hist.raced
      /\ hist'.sids = hist.sids
  BY <1>1, QuietHistory
<1>3. \A p \in Requests, s \in Sids : Touching(p, s)' => Touching(p, s)
  BY NoTouch
<1> QED
  BY <1>2, <1>3 DEF SessionsAlone

(* What the other services do to sessions, to the history and to requests. *)
LEMMA OthersStep ==
  ASSUME IInv, NEW q \in Requests,
         \/ InvitationStep(q) \/ EmailChangeStep(q) \/ UserAdminStep(q) \/ Die(q)
  PROVE  /\ session' = session
         /\ \/ hist' = hist
            \/ \E kind, u : hist' = Tear(kind, u)
            \/ \E i : hist' = [hist EXCEPT !.invites = i]
            \/ \E i : hist' = [hist EXCEPT !.changes = i]
            \/ \E l : hist' = [hist EXCEPT !.lost = l]
            \/ \E k, i, n : hist' = [hist EXCEPT !.claims[k][i] = n]
            \/ \E k, i, n, u : hist' = [hist EXCEPT !.claims[k][i] = n,
                                                    !.tested[u] = 0]
         /\ \/ End(q)
            \/ \E r : /\ r.op \notin {"login", "refresh"}
                      /\ req' = [req EXCEPT ![q] = r]
            \/ req[q].op \notin {"login", "refresh"} /\ \E at : Goto(q, at)
<1>2. CASE \/ \E u \in Users, e \in Emails, r \in AskedRoles, g \in Groups \cup {None} :
                InviteCheck(q, u, e, r, g)
           \/ \E u \in Users : ResendRead(q, u) \/ DeleteRead(q, u)
           \/ \E i \in Links, n \in Names : AcceptRead(q, i, n)
           \/ \E u \in Users, e \in Emails : ChangeRead(q, u, e)
           \/ \E i \in Links : ConfirmRead(q, i)
           \/ \E u \in Users, p \in Patches : UpdateRead(q, u, p)
  BY <1>2 DEF InviteCheck, ResendRead, DeleteRead, AcceptRead, ChangeRead,
              ConfirmRead, UpdateRead, Begin
<1>3. CASE InviteCreate(q) \/ ResendCreate(q)
  <2> SUFFICES ASSUME NEW i \in Links,
                      req' = [req EXCEPT ![q].link = i, ![q].at = "mail"],
                      hist' = [hist EXCEPT !.invites = i], session' = session
               PROVE  \E r : r.op \notin {"login", "refresh"} /\ req' = [req EXCEPT ![q] = r]
    BY <1>3 DEF InviteCreate, ResendCreate
  <2> DEFINE r == [req[q] EXCEPT !.link = i, !.at = "mail"]
  <2>1. req[q] \in InviteReq \cup ResendReq
    BY <1>3, FieldsOf DEF InviteCreate, ResendCreate, Doing, IInv, RequestsOK
  <2>2. r.op \notin {"login", "refresh"}
    BY <2>1 DEF InviteReq, ResendReq
  <2>3. req' = [req EXCEPT ![q] = r]
    OBVIOUS
  <2> QED
    BY <2>2, <2>3
<1>4. CASE InviteUndo(q) \/ DeleteWrite(q) \/ UpdateWrite(q) \/ UpdateSync(q)
  BY <1>4 DEF InviteUndo, DeleteWrite, UpdateWrite, UpdateSync, Doing
<1>5. CASE \/ ResendUndo(q) \/ ResendRevoke(q) \/ AcceptName(q)
           \/ ChangeTaken(q) \/ ChangeDelete(q) \/ ConfirmTaken(q) \/ ConfirmBurn(q)
           \/ \E delivered, ok \in BOOLEAN : SendMail(q, delivered, ok)
  BY <1>5 DEF ResendUndo, ResendRevoke, AcceptName, ChangeTaken, ChangeDelete,
              ConfirmTaken, ConfirmBurn, SendMail, Doing
<1>6. CASE AcceptClaim(q) \/ ConfirmClaim(q) \/ ChangeCreate(q)
  <2>1. CASE AcceptClaim(q)
    <3>1. \/ hist' = hist
          \/ \E i, n, u : hist' = [hist EXCEPT !.claims["invite"][i] = n, !.tested[u] = 0]
      <4> DEFINE i == req[q].link
                 n == hist.claims["invite"][i] + 1
      <4>1. CASE ClaimInvitation(i, req[q].now) /\ NameFree(req[q].name, req[q].user)
        <5>1. hist' = [hist EXCEPT !.claims["invite"][i] = n,
                                   !.tested[req[q].user] = 0]
          BY <2>1, <4>1 DEF AcceptClaim
        <5> QED
          BY <5>1
      <4>2. CASE ~(ClaimInvitation(i, req[q].now) /\ NameFree(req[q].name, req[q].user))
        BY <2>1, <4>2 DEF AcceptClaim
      <4> QED
        BY <4>1, <4>2
    <3> QED
      BY <2>1, <3>1 DEF AcceptClaim
  <2>2. CASE ConfirmClaim(q)
    <3>1. hist' = hist \/ \E i, n : hist' = [hist EXCEPT !.claims["change"][i] = n]
      BY <2>2 DEF ConfirmClaim
    <3> QED
      BY <2>2, <3>1 DEF ConfirmClaim
  <2>3. CASE ChangeCreate(q)
    BY <2>3 DEF ChangeCreate
  <2> QED
    BY <1>6, <2>1, <2>2, <2>3
<1>7. CASE Die(q)
  BY <1>7 DEF Die
<1> QED
  BY <1>2, <1>3, <1>4, <1>5, <1>6, <1>7
     DEF InvitationStep, EmailChangeStep, UserAdminStep

LEMMA OthersAlone ==
  ASSUME IInv, NEW q \in Requests,
         \/ InvitationStep(q) \/ EmailChangeStep(q) \/ UserAdminStep(q) \/ Die(q)
  PROVE  SessionsAlone
BY OthersStep, AloneByParts

LEMMA SessionStepsAlone ==
  ASSUME IInv, NEW q \in Requests,
         \/ \E u \in Users, ok \in BOOLEAN : LoginRead(q, u, ok)
         \/ \E t \in Tokens : RefreshRead(q, t) \/ LogoutRead(q, t)
         \/ LoginFail(q) \/ LoginClear(q) \/ LoginTokens(q)
         \/ RefreshRevoke(q) \/ LogoutRevoke(q)
  PROVE  SessionsAlone
<1>1. hist \in Histories /\ hist.sids \in Nat
  BY Counters DEF IInv, StoresTyped
<1>2. CASE \/ \E u \in Users, ok \in BOOLEAN : LoginRead(q, u, ok)
           \/ \E t \in Tokens : LogoutRead(q, t)
  <2>1. session' = session /\ hist' = hist
    BY <1>2 DEF LoginRead, LogoutRead
  <2>2. \E r : r.op # "refresh" /\ req' = [req EXCEPT ![q] = r]
    BY <1>2 DEF LoginRead, LogoutRead, Begin
  <2> QED
    BY <2>1, <2>2, AloneByParts
<1>3. CASE \E t \in Tokens : RefreshRead(q, t)
  <2>1. session' = session /\ hist' = hist
    BY <1>3 DEF RefreshRead
  <2>2. \E r : r.at = "session" /\ req' = [req EXCEPT ![q] = r]
    BY <1>3 DEF RefreshRead, Begin
  <2>3. \A p \in Requests, s \in Sids : Touching(p, s)' => Touching(p, s)
    BY <2>2 DEF IInv, RequestsOK, Touching
  <2> QED
    BY <1>1, <2>1, <2>3 DEF SessionsAlone
<1>4. CASE LoginFail(q) \/ LoginClear(q)
  <2>1. hist' = hist \/ \E u, n : hist' = [hist EXCEPT !.tested[u] = n]
    BY <1>4 DEF LoginFail, LoginClear
  <2>2. session' = session
    BY <1>4 DEF LoginFail, LoginClear
  <2>3. End(q) \/ (req[q].op # "refresh" /\ \E at : Goto(q, at))
    BY <1>4 DEF LoginFail, LoginClear, Doing
  <2> QED
    BY <2>1, <2>2, <2>3, AloneByParts
<1>5. CASE LoginTokens(q)
  <2>1. hist' = hist \/ \E t : hist' = [hist EXCEPT !.tokens = t]
    BY <1>5 DEF LoginTokens, AddToken
  <2> QED
    BY <1>5, <2>1, AloneByParts DEF LoginTokens
<1>6. CASE RefreshRevoke(q) \/ LogoutRevoke(q)
  <2>1. session' = session /\ hist' = hist
    BY <1>6 DEF RefreshRevoke, LogoutRevoke
  <2>2. \/ End(q) \/ (req[q].op # "refresh" /\ \E at : Goto(q, at))
        \/ Doing(q, "refresh", "revoke") /\ Goto(q, "touch")
    BY <1>6 DEF RefreshRevoke, LogoutRevoke, Doing
  <2> QED
    BY <2>1, <2>2, AloneByParts
<1> QED
  BY <1>2, <1>3, <1>4, <1>5, <1>6

(* A session that is made has a new identifier.                            *)
LEMMA LoginGone ==
  ASSUME IInv, EndedGone, NEW q \in Requests, LoginSession(q)
  PROVE  EndedGone'
<1>1. /\ hist \in Histories /\ hist.sids \in Nat /\ req[q] \in LoginReq
      /\ session \in [Sids -> Session \cup {None}]
      /\ req \in [Requests -> Requested \cup {Idle}]
  BY Counters, FieldsOf DEF IInv, StoresTyped, RequestsOK, LoginSession, Doing
<1>2. PICK s \in Sids :
        /\ NextId(s, hist.sids, MaxSessions)
        /\ session' = [session EXCEPT ![s] =
             [user |-> req[q].user, role |-> req[q].role,
              exp |-> clock + RefreshTtl]]
        /\ req' = [req EXCEPT ![q].sid = s, ![q].at = "tokens"]
        /\ hist' = [hist EXCEPT !.sids = s]
  BY DEF LoginSession
<1>3. /\ hist'.ended = hist.ended /\ hist'.raced = hist.raced
      /\ hist'.sids = s /\ s = hist.sids + 1
  BY <1>1, <1>2 DEF Histories, NextId
<1>4. [req[q] EXCEPT !.sid = s, !.at = "tokens"].op = "login"
  BY <1>1 DEF LoginReq
<1>5. req'[q].op = "login" /\ \A p \in Requests \ {q} : req'[p] = req[p]
  BY <1>1, <1>2, <1>4
<1> SUFFICES ASSUME NEW x \in hist.ended \ hist.raced
             PROVE  /\ session'[x] = None /\ x <= s
                    /\ \A p \in Requests : ~Touching(p, x)'
  BY <1>3 DEF EndedGone
<1>6. x \in Sids /\ x \in Int /\ x <= hist.sids /\ session[x] = None
  BY <1>1 DEF EndedGone, Histories, Sids
<1>7. x # s /\ x <= s
  BY <1>1, <1>3, <1>6
<1>8. session'[x] = None
  BY <1>1, <1>2, <1>6, <1>7
<1>9. \A p \in Requests : ~Touching(p, x)'
  BY <1>5 DEF EndedGone, Touching
<1> QED
  BY <1>7, <1>8, <1>9

(* A refresh reads a session that is there, and writes the one it has read. *)
LEMMA RefreshGone ==
  ASSUME IInv, EndedGone, NEW q \in Requests,
         RefreshSession(q) \/ RefreshCreate(q) \/ RefreshTouch(q)
  PROVE  EndedGone'
<1>1. /\ hist \in Histories /\ req[q] \in RefreshReq
      /\ session \in [Sids -> Session \cup {None}]
      /\ req \in [Requests -> Requested \cup {Idle}]
  BY FieldsOf DEF IInv, StoresTyped, RequestsOK, RefreshSession, RefreshCreate,
                  RefreshTouch, Doing
<1>2. /\ hist'.ended = hist.ended /\ hist'.raced = hist.raced
      /\ hist'.sids = hist.sids
  BY <1>1, QuietHistory DEF RefreshSession, RefreshCreate, RefreshTouch, AddToken
<1> SUFFICES ASSUME NEW s \in hist.ended \ hist.raced
             PROVE  /\ session'[s] = None
                    /\ \A p \in Requests : ~Touching(p, s)'
  BY <1>2 DEF EndedGone
<1>3. session[s] = None /\ \A p \in Requests : ~Touching(p, s)
  BY DEF EndedGone
<1>4. CASE RefreshSession(q)
  <2>1. req[q].sid # s \/ End(q)
    BY <1>3, <1>4 DEF RefreshSession, Live
  <2>2. req'[q] = Idle \/ (req[q].sid # s /\ req'[q].sid = req[q].sid)
    BY <1>1, <1>4, <2>1 DEF RefreshSession, End, RefreshReq
  <2>3. session' = session /\ \A p \in Requests \ {q} : req'[p] = req[p]
    BY <1>1, <1>4 DEF RefreshSession, End
  <2> QED
    BY <1>3, <2>2, <2>3 DEF Touching, Idle
<1>5. CASE RefreshCreate(q)
  <2>1. req[q].sid # s
    BY <1>3, <1>5 DEF RefreshCreate, Doing, Touching
  <2>2. req'[q] = Idle \/ req'[q].sid = req[q].sid
    BY <1>1, <1>5 DEF RefreshCreate, End, RefreshReq
  <2>3. session' = session /\ \A p \in Requests \ {q} : req'[p] = req[p]
    BY <1>1, <1>5 DEF RefreshCreate, End
  <2> QED
    BY <1>3, <2>1, <2>2, <2>3 DEF Touching, Idle
<1>6. CASE RefreshTouch(q)
  <2>1. req[q].sid # s
    BY <1>3, <1>6 DEF RefreshTouch, Doing, Touching
  <2>2. req'[q] = Idle /\ \A p \in Requests \ {q} : req'[p] = req[p]
    BY <1>1, <1>6 DEF RefreshTouch, End
  <2>3. session'[s] = session[s]
    BY <1>1, <1>6, <2>1 DEF RefreshTouch, Histories
  <2> QED
    BY <1>3, <2>2, <2>3 DEF Touching, Idle
<1> QED
  BY <1>4, <1>5, <1>6

(* A logout takes a session away, and notes the refreshes it may lose to.  *)
LEMMA LogoutGone ==
  ASSUME IInv, EndedGone, NEW q \in Requests, NEW reached \in BOOLEAN,
         LogoutDelete(q, reached)
  PROVE  EndedGone'
<1> DEFINE s == req[q].sid
           touching == \E p \in Requests : Touching(p, s)
<1>1. /\ hist \in Histories /\ req[q] \in LogoutReq /\ Sound(q)
      /\ session \in [Sids -> Session \cup {None}]
      /\ req \in [Requests -> Requested \cup {Idle}]
  BY FieldsOf DEF IInv, StoresTyped, RequestsOK, LogoutDelete, Doing
<1>2. s \in Sids /\ s <= hist.sids
  BY <1>1 DEF LogoutReq, Sound, LogoutSound, LogoutDelete, Doing
<1>3. hist' = [hist EXCEPT
        !.ended = @ \cup {s},
        !.raced = IF touching \/ ~reached THEN @ \cup {s} ELSE @]
  BY DEF LogoutDelete, Touching
<1>4. /\ hist'.sids = hist.sids /\ hist'.ended = hist.ended \cup {s}
      /\ hist'.raced = IF touching \/ ~reached THEN hist.raced \cup {s} ELSE hist.raced
  BY <1>1, <1>3 DEF Histories
<1>5. req'[q] = Idle /\ \A p \in Requests \ {q} : req'[p] = req[p]
  BY <1>1 DEF LogoutDelete, End
<1>6. session' = session \/ session' = [session EXCEPT ![s] = None]
  BY DEF LogoutDelete
<1> SUFFICES ASSUME NEW x \in hist'.ended \ hist'.raced
             PROVE  /\ session'[x] = None /\ x <= hist.sids
                    /\ \A p \in Requests : ~Touching(p, x)'
  BY <1>4 DEF EndedGone
<1>7. CASE x \in hist.ended \ hist.raced
  <2>1. session[x] = None /\ x <= hist.sids /\ \A p \in Requests : ~Touching(p, x)
    BY <1>7 DEF EndedGone
  <2>2. x \in Sids
    BY <1>1, <1>7 DEF Histories
  <2> QED
    BY <1>1, <1>2, <1>5, <1>6, <2>1, <2>2 DEF Touching, Idle
<1>8. CASE x \notin hist.ended \ hist.raced
  <2>1. x = s /\ ~touching /\ reached
    BY <1>4, <1>8
  <2>2. session'[s] = None
    BY <1>1, <1>2, <2>1 DEF LogoutDelete
  <2> QED
    BY <1>2, <1>5, <2>1, <2>2 DEF Touching, Idle
<1> QED
  BY <1>7, <1>8

(* A session that was logged out stays ended, for any number of logins and *)
(* refreshes, but for the two windows of the code: a refresh that has read *)
(* the session (session-store.ts:85) and a Redis that fails                *)
(* (auth-service.ts:395).                                                  *)
THEOREM LogoutsEnd == Spec => []LogoutEnds
<1>1. Init => EndedGone
  BY DEF Init, EndedGone
<1>2. IInv /\ IInv' /\ EndedGone /\ [Next]_vars => EndedGone'
  <2> SUFFICES ASSUME IInv, IInv', EndedGone, [Next]_vars
               PROVE  EndedGone'
    OBVIOUS
  <2>1. CASE SessionsAlone
    BY <2>1, AloneGone
  <2>2. CASE Tick \/ UNCHANGED vars
    <3>1. SessionsAlone
      BY <2>2, Counters DEF Tick, vars, SessionsAlone, Touching, IInv, StoresTyped
    <3> QED
      BY <2>1, <3>1
  <2>3. ASSUME NEW q \in Requests, SessionStep(q) PROVE EndedGone'
    BY <2>1, <2>3, SessionStepsAlone, LoginGone, RefreshGone, LogoutGone DEF SessionStep
  <2>4. ASSUME NEW q \in Requests,
               InvitationStep(q) \/ EmailChangeStep(q) \/ UserAdminStep(q) \/ Die(q)
        PROVE  EndedGone'
    BY <2>1, <2>4, OthersAlone
  <2> QED
    BY <2>2, <2>3, <2>4 DEF Next
<1>3. EndedGone => LogoutEnds
  BY DEF EndedGone, LogoutEnds, Live
<1> QED
  BY <1>1, <1>2, <1>3, InitInv, StepInv, PTL DEF Spec

-------------------------------------------------------------------------------
(* StaleRoleBounded: whoever was given a role in an answer, or is about to *)
(* be, had it when the row was read, and the time it was lost is known.    *)
HadSince(u, r, t) ==
  \/ Exists(u) /\ user[u].role = r
  \/ hist.lost[u][r] # None /\ t <= hist.lost[u][r]

LostKnown ==
  \A u \in Users, r \in Roles : hist.lost[u][r] # None => hist.lost[u][r] <= clock
ReadersKnown ==
  \A p \in Requests : req[p].op \in {"login", "refresh"} =>
    HadSince(req[p].user, req[p].role, req[p].now)
AccessKnown ==
  \A a \in access : /\ a.exp <= clock + AccessTtl
                    /\ HadSince(a.user, a.role, a.exp - (AccessTtl + 1))
(* An account that is about to be created is not there, and is created by  *)
(* one request only.                                                       *)
FreshUsers ==
  \A p \in Requests : Doing(p, "invite", "create") =>
    /\ ~Exists(req[p].user)
    /\ \A x \in Requests \ {p} : req[x].op = "invite" => req[x].user # req[p].user

RolesKnown == LostKnown /\ ReadersKnown /\ AccessKnown /\ FreshUsers

(* A role that goes is noted with the time.                                *)
RolesNoted ==
  /\ clock' = clock
  /\ \A u \in Users, r \in Roles :
       /\ hist'.lost[u][r] \in {hist.lost[u][r], clock}
       /\ Exists(u) /\ user[u].role = r =>
            \/ user'[u] # None /\ user'[u].role = r
            \/ hist'.lost[u][r] = clock

ReadersKept ==
  \A p \in Requests : req'[p].op \in {"login", "refresh"} =>
    \/ /\ req[p].op \in {"login", "refresh"} /\ req'[p].user = req[p].user
       /\ req'[p].role = req[p].role /\ req'[p].now = req[p].now
    \/ /\ req'[p].user \in Users /\ user' = user /\ Exists(req'[p].user)
       /\ req'[p].role = user[req'[p].user].role

AccessIssued ==
  \A a \in access' :
    \/ a \in access
    \/ \E p \in Requests :
         /\ req[p].op \in {"login", "refresh"}
         /\ a.user = req[p].user /\ a.role = req[p].role
         /\ a.exp = clock + AccessTtl

LEMMA StillHad ==
  ASSUME IInv, IInv', LostKnown, RolesNoted, NEW u \in Users, NEW r \in Roles,
         NEW t \in Int, t <= clock, HadSince(u, r, t)
  PROVE  \/ user'[u] # None /\ user'[u].role = r
         \/ hist'.lost[u][r] # None /\ t <= hist'.lost[u][r]
<1>1. clock \in Nat /\ clock # None
  BY StoreAssumption DEF IInv, StoresTyped
<1>2. CASE Exists(u) /\ user[u].role = r
  BY <1>1, <1>2 DEF RolesNoted
<1>3. CASE hist.lost[u][r] # None /\ t <= hist.lost[u][r]
  BY <1>1, <1>3 DEF RolesNoted
<1> QED
  BY <1>2, <1>3 DEF HadSince

LEMMA RolesStep ==
  ASSUME IInv, IInv', RolesKnown, RolesNoted, ReadersKept, AccessIssued
  PROVE  LostKnown' /\ ReadersKnown' /\ AccessKnown'
<1>1. clock \in Nat /\ clock' = clock /\ clock # None
  BY StoreAssumption DEF IInv, StoresTyped, RolesNoted
<1>2. LostKnown'
  BY <1>1 DEF RolesNoted, RolesKnown, LostKnown
<1>3. ASSUME NEW p \in Requests, req[p].op \in {"login", "refresh"}
      PROVE  /\ req[p].user \in Users /\ req[p].role \in Roles /\ req[p].now \in Nat
             /\ req[p].now <= clock /\ clock <= req[p].now + 1
  <2>1. req[p] \in LoginReq \cup RefreshReq
    BY <1>3, FieldsOf DEF IInv, RequestsOK
  <2>2. req[p] # Idle
    BY <1>3 DEF Idle
  <2> QED
    BY <2>1, <2>2 DEF LoginReq, RefreshReq, IInv, RequestsOK, Sound, Timely
<1>4. ReadersKnown'
  <2> SUFFICES ASSUME NEW p \in Requests, req'[p].op \in {"login", "refresh"}
               PROVE  \/ /\ user'[req'[p].user] # None
                         /\ user'[req'[p].user].role = req'[p].role
                      \/ /\ hist'.lost[req'[p].user][req'[p].role] # None
                         /\ req'[p].now <= hist'.lost[req'[p].user][req'[p].role]
    BY DEF ReadersKnown, HadSince, Exists
  <2>1. CASE /\ req[p].op \in {"login", "refresh"} /\ req'[p].user = req[p].user
             /\ req'[p].role = req[p].role /\ req'[p].now = req[p].now
    BY <1>3, <2>1, StillHad DEF RolesKnown, ReadersKnown
  <2>2. CASE /\ req'[p].user \in Users /\ user' = user /\ Exists(req'[p].user)
             /\ req'[p].role = user[req'[p].user].role
    BY <2>2 DEF Exists
  <2> QED
    BY <2>1, <2>2 DEF ReadersKept
<1>5. AccessKnown'
  <2> SUFFICES ASSUME NEW a \in access'
               PROVE  /\ a.exp <= clock + AccessTtl
                      /\ \/ user'[a.user] # None /\ user'[a.user].role = a.role
                         \/ /\ hist'.lost[a.user][a.role] # None
                            /\ a.exp - (AccessTtl + 1) <= hist'.lost[a.user][a.role]
    BY <1>1 DEF AccessKnown, HadSince, Exists
  <2>1. a.user \in Users /\ a.role \in Roles /\ a.exp \in Nat /\ AccessTtl \in Nat
    BY StoreAssumption DEF IInv, StoresTyped, Access
  <2> DEFINE t == a.exp - (AccessTtl + 1)
  <2>2. t \in Int
    BY <2>1
  <2>3. CASE a \in access
    <3>1. a.exp <= clock + AccessTtl /\ HadSince(a.user, a.role, t)
      BY <2>3 DEF RolesKnown, AccessKnown
    <3>2. t <= clock
      BY <1>1, <2>1, <3>1
    <3> QED
      BY <2>1, <2>2, <3>1, <3>2, StillHad DEF RolesKnown
  <2>4. CASE a \notin access
    <3>1. PICK p \in Requests :
            /\ req[p].op \in {"login", "refresh"}
            /\ a.user = req[p].user /\ a.role = req[p].role
            /\ a.exp = clock + AccessTtl
      BY <2>4 DEF AccessIssued
    <3>2. HadSince(a.user, a.role, req[p].now)
      BY <3>1 DEF RolesKnown, ReadersKnown
    <3>3. t <= req[p].now /\ req[p].now \in Nat /\ req[p].now <= clock
      BY <1>1, <1>3, <2>1, <3>1
    <3>4. \/ user'[a.user] # None /\ user'[a.user].role = a.role
          \/ /\ hist'.lost[a.user][a.role] # None
             /\ req[p].now <= hist'.lost[a.user][a.role]
      BY <2>1, <3>2, <3>3, StillHad DEF RolesKnown
    <3>5. hist'.lost[a.user][a.role] \in Nat \cup {None}
      BY <2>1 DEF IInv, StoresTyped, Histories
    <3> QED
      BY <1>1, <2>1, <2>2, <3>1, <3>3, <3>4, <3>5
  <2> QED
    BY <2>3, <2>4
<1> QED
  BY <1>2, <1>4, <1>5

(* RolesNoted, by what a step does to the User table.                      *)
LEMMA RoleUnchanged ==
  ASSUME IInv, clock' = clock, hist'.lost = hist.lost,
         \/ user' = user
         \/ \E u \in Users, row \in UserRow :
              /\ ~Exists(u) \/ row.role = user[u].role
              /\ user' = [user EXCEPT ![u] = row]
  PROVE  RolesNoted
<1>1. user \in [Users -> UserRow \cup {None}]
  BY DEF IInv, StoresTyped
<1> SUFFICES ASSUME NEW v \in Users, NEW r \in Roles, Exists(v), user[v].role = r
             PROVE  user'[v] # None /\ user'[v].role = r
  BY DEF RolesNoted
<1>2. CASE user' = user
  BY <1>2 DEF Exists
<1>3. CASE \E u \in Users, row \in UserRow :
              /\ ~Exists(u) \/ row.role = user[u].role
              /\ user' = [user EXCEPT ![u] = row]
  <2>1. PICK u \in Users, row \in UserRow :
               /\ ~Exists(u) \/ row.role = user[u].role
               /\ user' = [user EXCEPT ![u] = row]
    BY <1>3
  <2>2. row # None
    BY NoneAssumption
  <2> QED
    BY <1>1, <2>1, <2>2 DEF Exists
<1> QED
  BY <1>2, <1>3

LEMMA RoleLosing ==
  ASSUME IInv, clock' = clock, NEW u \in Users, NEW r,
         hist' = [hist EXCEPT !.lost = Losing(u, r)],
         \A v \in Users \ {u} : user'[v] = user[v],
         r \in Roles => user'[u] # None /\ user'[u].role = r,
         r \in Roles \cup {None}
  PROVE  RolesNoted
<1>1. /\ hist \in Histories /\ hist.lost \in [Users -> [Roles -> Nat \cup {None}]]
      /\ hist'.lost = Losing(u, r)
  BY DEF IInv, StoresTyped, Histories
<1>2. Exists(u) => user[u].role \in Roles
  BY DEF IInv, StoresTyped, Exists, UserRow
<1> SUFFICES ASSUME NEW v \in Users, NEW x \in Roles
             PROVE  /\ hist'.lost[v][x] \in {hist.lost[v][x], clock}
                    /\ Exists(v) /\ user[v].role = x =>
                         \/ user'[v] # None /\ user'[v].role = x
                         \/ hist'.lost[v][x] = clock
  BY DEF RolesNoted
<1>3. CASE Exists(u) /\ user[u].role # r
  <2>1. hist'.lost = [hist.lost EXCEPT ![u][user[u].role] = clock]
    BY <1>1, <1>3 DEF Losing
  <2> QED
    BY <1>1, <1>2, <1>3, <2>1 DEF Exists
<1>4. CASE ~Exists(u) \/ user[u].role = r
  <2>1. hist'.lost = hist.lost
    BY <1>1, <1>4 DEF Losing
  <2>2. None \notin Roles
    BY StoreAssumption
  <2> QED
    BY <1>1, <1>2, <1>4, <2>1, <2>2 DEF Exists
<1> QED
  BY <1>3, <1>4

(* Roles are not in the history of tokens, sessions, links and guesses.    *)
LEMMA LostSame ==
  ASSUME hist \in Histories,
         \/ hist' = hist
         \/ \E kind, u : hist' = Tear(kind, u)
         \/ \E t : hist' = [hist EXCEPT !.tokens = t]
         \/ \E s : hist' = [hist EXCEPT !.sids = s]
         \/ \E i : hist' = [hist EXCEPT !.invites = i]
         \/ \E i : hist' = [hist EXCEPT !.changes = i]
         \/ \E u, n : hist' = [hist EXCEPT !.tested[u] = n]
         \/ \E k, i, n : hist' = [hist EXCEPT !.claims[k][i] = n]
         \/ \E k, i, n, u : hist' = [hist EXCEPT !.claims[k][i] = n, !.tested[u] = 0]
         \/ \E e, r : hist' = [hist EXCEPT !.ended = e, !.raced = r]
  PROVE  hist'.lost = hist.lost
BY DEF Histories, Tear

LEMMA SessionsNote ==
  ASSUME IInv, NEW q \in Requests, SessionStep(q)
  PROVE  RolesNoted
<1>1. hist \in Histories /\ user \in [Users -> UserRow \cup {None}]
  BY DEF IInv, StoresTyped
<1>2. CASE \/ \E u \in Users, ok \in BOOLEAN : LoginRead(q, u, ok)
           \/ \E t \in Tokens : RefreshRead(q, t) \/ LogoutRead(q, t)
           \/ RefreshSession(q) \/ RefreshRevoke(q) \/ RefreshTouch(q)
           \/ LogoutRevoke(q)
  <2>1. user' = user /\ hist' = hist /\ clock' = clock
    BY <1>2 DEF LoginRead, RefreshRead, LogoutRead, RefreshSession,
                RefreshRevoke, RefreshTouch, LogoutRevoke, tables
  <2> QED
    BY <2>1, RoleUnchanged
<1>3. CASE LoginFail(q)
  <2> DEFINE u == req[q].user
             n == req[q].failed + 1
             until == IF n >= LockThreshold THEN req[q].now + LockTtl ELSE None
             row == [user[u] EXCEPT !.failed = n, !.lockedUntil = until]
  <2>1. req[q] \in LoginReq
    BY <1>3, FieldsOf DEF LoginFail, Doing, IInv, RequestsOK
  <2>2. hist'.lost = hist.lost
    BY <1>1, <1>3 DEF LoginFail, Histories
  <2>3. user' = user \/ (Exists(u) /\ user' = [user EXCEPT ![u] = row])
    BY <1>3 DEF LoginFail
  <2>4. Exists(u) => row \in UserRow /\ row.role = user[u].role
    <3>1. n \in Nat /\ until \in Nat \cup {None}
      BY <2>1, StoreAssumption DEF LoginReq
    <3>2. Exists(u) => user[u] \in UserRow
      BY <1>1, <2>1 DEF Exists, LoginReq
    <3> QED
      BY <3>1, <3>2 DEF UserRow
  <2>5. u \in Users /\ clock' = clock
    BY <1>3, <2>1 DEF LoginReq, LoginFail
  <2> QED
    BY <2>2, <2>3, <2>4, <2>5, RoleUnchanged
<1>4. CASE LoginClear(q)
  <2> DEFINE u == req[q].user
             row == [user[u] EXCEPT !.failed = 0, !.lockedUntil = None]
  <2>1. req[q] \in LoginReq
    BY <1>4, FieldsOf DEF LoginClear, Doing, IInv, RequestsOK
  <2>2. hist'.lost = hist.lost
    BY <1>1, <1>4 DEF LoginClear, Histories
  <2>3. user' = user \/ (Exists(u) /\ user' = [user EXCEPT ![u] = row])
    BY <1>4 DEF LoginClear
  <2>4. Exists(u) => row \in UserRow /\ row.role = user[u].role
    BY <1>1, <2>1 DEF Exists, UserRow, LoginReq
  <2>5. u \in Users /\ clock' = clock
    BY <1>4, <2>1 DEF LoginReq, LoginClear
  <2> QED
    BY <2>2, <2>3, <2>4, <2>5, RoleUnchanged
<1>5. CASE LoginSession(q) \/ LoginTokens(q) \/ RefreshCreate(q)
  <2>1. hist'.lost = hist.lost
    BY <1>1, <1>5, LostSame DEF LoginSession, LoginTokens, RefreshCreate, AddToken
  <2>2. user' = user /\ clock' = clock
    BY <1>5 DEF LoginSession, LoginTokens, RefreshCreate, tables
  <2> QED
    BY <2>1, <2>2, RoleUnchanged
<1>6. CASE \E reached \in BOOLEAN : LogoutDelete(q, reached)
  <2>1. \E e, r : hist' = [hist EXCEPT !.ended = e, !.raced = r]
    BY <1>6 DEF LogoutDelete
  <2>2. user' = user /\ clock' = clock
    BY <1>6 DEF LogoutDelete, tables
  <2> QED
    BY <1>1, <2>1, <2>2, LostSame, RoleUnchanged
<1> QED
  BY <1>2, <1>3, <1>4, <1>5, <1>6 DEF SessionStep

LEMMA OthersNote ==
  ASSUME IInv, FreshUsers, NEW q \in Requests,
         \/ InvitationStep(q) \/ EmailChangeStep(q) \/ UserAdminStep(q) \/ Die(q)
  PROVE  RolesNoted
<1>1. hist \in Histories /\ user \in [Users -> UserRow \cup {None}] /\ clock' = clock
  BY DEF IInv, StoresTyped, InvitationStep, EmailChangeStep, UserAdminStep, Die,
         InviteCheck, InviteCreate, InviteUndo, ResendRead, ResendCreate, ResendUndo,
         ResendRevoke, SendMail, AcceptRead, AcceptName, AcceptClaim, ChangeRead,
         ChangeTaken, ChangeDelete, ChangeCreate, ConfirmRead, ConfirmTaken,
         ConfirmBurn, ConfirmClaim, UpdateRead, UpdateWrite, UpdateSync,
         DeleteRead, DeleteWrite
<1>2. CASE \/ \E u \in Users, e \in Emails, r \in AskedRoles, g \in Groups \cup {None} :
                InviteCheck(q, u, e, r, g)
           \/ \E u \in Users : ResendRead(q, u) \/ DeleteRead(q, u)
           \/ \E i \in Links, n \in Names : AcceptRead(q, i, n)
           \/ \E u \in Users, e \in Emails : ChangeRead(q, u, e)
           \/ \E i \in Links : ConfirmRead(q, i)
           \/ \E u \in Users, p \in Patches : UpdateRead(q, u, p)
           \/ \E delivered, ok \in BOOLEAN : SendMail(q, delivered, ok)
           \/ ResendUndo(q) \/ ResendRevoke(q) \/ AcceptName(q)
           \/ ChangeTaken(q) \/ ChangeDelete(q) \/ ConfirmTaken(q) \/ ConfirmBurn(q)
           \/ Die(q)
  <2>1. user' = user /\ (hist' = hist \/ \E kind, u : hist' = Tear(kind, u))
    BY <1>2 DEF InviteCheck, ResendRead, DeleteRead, AcceptRead, ChangeRead,
                ConfirmRead, UpdateRead, SendMail, ResendUndo, ResendRevoke,
                AcceptName, ChangeTaken, ChangeDelete, ConfirmTaken, ConfirmBurn,
                Die, tables
  <2> QED
    BY <1>1, <2>1, LostSame, RoleUnchanged
<1>3. CASE ResendCreate(q) \/ ChangeCreate(q)
  <2>1. user' = user
    BY <1>3 DEF ResendCreate, ChangeCreate
  <2>2. \/ hist' = hist \/ \E i : hist' = [hist EXCEPT !.invites = i]
        \/ \E i : hist' = [hist EXCEPT !.changes = i]
    BY <1>3 DEF ResendCreate, ChangeCreate
  <2> QED
    BY <1>1, <2>1, <2>2, LostSame, RoleUnchanged
<1>4. CASE InviteCreate(q)
  <2> DEFINE u == req[q].user
             managed == IF req[q].role = "ADMIN"
                        THEN FactoriesOf(req[q].group) ELSE {}
             row == [name |-> None, email |-> req[q].email, active |-> FALSE,
                     role |-> req[q].role, group |-> req[q].group, failed |-> 0,
                     lockedUntil |-> None, managed |-> managed]
  <2>1. req[q] \in InviteReq
    BY <1>4, FieldsOf DEF InviteCreate, Doing, IInv, RequestsOK
  <2>2. u \in Users /\ ~Exists(u)
    BY <1>4, <2>1 DEF InviteReq, FreshUsers, InviteCreate
  <2>3. row \in UserRow
    <3>1. managed \in SUBSET Factories
      BY DEF FactoriesOf
    <3> QED
      BY <2>1, <3>1 DEF UserRow, InviteReq
  <2>4. user' = user \/ user' = [user EXCEPT ![u] = row]
    BY <1>4 DEF InviteCreate
  <2>5. hist' = hist \/ \E i : hist' = [hist EXCEPT !.invites = i]
    BY <1>4 DEF InviteCreate
  <2>6. hist'.lost = hist.lost
    BY <1>1, <2>5, LostSame
  <2> QED
    BY <1>1, <2>2, <2>3, <2>4, <2>6, RoleUnchanged
<1>5. CASE InviteUndo(q) \/ DeleteWrite(q)
  <2>1. req[q].user \in Users
    BY <1>5, FieldsOf DEF IInv, RequestsOK, DeleteWrite, InviteUndo, Doing,
                          DeleteReq, InviteReq
  <2>2. \A v \in Users \ {req[q].user} : user'[v] = user[v]
    BY <1>1, <1>5, <2>1 DEF InviteUndo, DeleteWrite, DeleteUser
  <2>3. hist' = [hist EXCEPT !.lost = Losing(req[q].user, None)]
    BY <1>5 DEF InviteUndo, DeleteWrite
  <2>4. None \notin Roles
    BY StoreAssumption
  <2> QED
    BY <1>1, <2>1, <2>2, <2>3, <2>4, RoleLosing
<1>6. CASE AcceptClaim(q)
  <2> DEFINE i == req[q].link
             u == req[q].user
             row == [user[u] EXCEPT !.name = req[q].name, !.active = TRUE,
                                    !.failed = 0, !.lockedUntil = None]
             n == hist.claims["invite"][i] + 1
  <2>1. req[q] \in AcceptReq /\ Sound(q)
    BY <1>6, FieldsOf DEF AcceptClaim, Doing, IInv, RequestsOK
  <2>2. CASE ClaimInvitation(i, req[q].now) /\ NameFree(req[q].name, u)
    <3>1. /\ user' = [user EXCEPT ![u] = row]
          /\ hist' = [hist EXCEPT !.claims["invite"][i] = n, !.tested[u] = 0]
      BY <1>6, <2>2 DEF AcceptClaim
    <3>2. u \in Users /\ i \in Links /\ invite[i] # None /\ invite[i].user = u
      BY <1>6, <2>1, <2>2 DEF AcceptReq, Sound, AcceptSound, AcceptClaim, Doing,
                              ClaimInvitation, ActiveInvitation, Pending
    <3>3. user[u] \in UserRow
      BY <1>1, <3>2 DEF IInv, Owned, Exists
    <3>4. row \in UserRow /\ row.role = user[u].role
      BY <2>1, <3>3 DEF UserRow, AcceptReq
    <3>5. hist'.lost = hist.lost
      BY <1>1, <3>1, LostSame
    <3> QED
      BY <1>1, <3>1, <3>2, <3>4, <3>5, RoleUnchanged
  <2>3. CASE ~(ClaimInvitation(i, req[q].now) /\ NameFree(req[q].name, u))
    BY <1>1, <1>6, <2>3, RoleUnchanged DEF AcceptClaim
  <2> QED
    BY <2>2, <2>3
<1>7. CASE ConfirmClaim(q)
  <2> DEFINE i == req[q].link
             u == req[q].user
             row == [user[u] EXCEPT !.email = req[q].email]
             n == hist.claims["change"][i] + 1
  <2>1. req[q] \in ConfirmReq /\ Sound(q)
    BY <1>7, FieldsOf DEF ConfirmClaim, Doing, IInv, RequestsOK
  <2>2. CASE Confirmable(i, req[q].now) /\ EmailFree(req[q].email, u)
    <3>1. /\ user' = [user EXCEPT ![u] = row]
          /\ hist' = [hist EXCEPT !.claims["change"][i] = n]
      BY <1>7, <2>2 DEF ConfirmClaim
    <3>2. u \in Users /\ i \in Links /\ change[i] # None /\ change[i].user = u
      BY <1>7, <2>1, <2>2 DEF ConfirmReq, Sound, ConfirmSound, ConfirmClaim, Doing,
                              Confirmable
    <3>3. user[u] \in UserRow
      BY <1>1, <3>2 DEF IInv, Owned, Exists
    <3>4. row \in UserRow /\ row.role = user[u].role
      BY <2>1, <3>3 DEF UserRow, ConfirmReq
    <3>5. hist'.lost = hist.lost
      BY <1>1, <3>1, LostSame
    <3> QED
      BY <1>1, <3>1, <3>2, <3>4, <3>5, RoleUnchanged
  <2>3. CASE ~(Confirmable(i, req[q].now) /\ EmailFree(req[q].email, u))
    BY <1>1, <1>7, <2>3, RoleUnchanged DEF ConfirmClaim
  <2> QED
    BY <2>2, <2>3
<1>8. CASE UpdateWrite(q)
  <2> DEFINE u == req[q].user
             p == req[q].patch
             row == [user[u] EXCEPT !.role = Given(p.role, @),
                                    !.group = Given(p.group, @),
                                    !.email = Given(p.email, @)]
             r == Given(p.role, user[u].role)
  <2>1. req[q] \in UpdateReq
    BY <1>8, FieldsOf DEF UpdateWrite, Doing, IInv, RequestsOK
  <2>2. u \in Users /\ p \in Patches
    BY <2>1 DEF UpdateReq
  <2>3. CASE Exists(u) /\ (p.email # None => EmailFree(p.email, u))
    <3>1. /\ user' = [user EXCEPT ![u] = row]
          /\ hist' = [hist EXCEPT !.lost = Losing(u, r)]
      BY <1>8, <2>3 DEF UpdateWrite
    <3>2. user[u] \in UserRow
      BY <1>1, <2>2, <2>3 DEF Exists
    <3>3. row \in UserRow /\ row.role = r /\ r \in Roles
      BY <2>2, <3>2 DEF UserRow, Patches, Given
    <3>4. row # None
      BY <3>3, NoneAssumption
    <3>5. user'[u] = row /\ \A v \in Users \ {u} : user'[v] = user[v]
      BY <1>1, <2>2, <3>1
    <3> QED
      BY <1>1, <2>2, <3>1, <3>3, <3>4, <3>5, RoleLosing
  <2>4. CASE ~(Exists(u) /\ (p.email # None => EmailFree(p.email, u)))
    BY <1>1, <1>8, <2>4, RoleUnchanged DEF UpdateWrite
  <2> QED
    BY <2>3, <2>4
<1>9. CASE UpdateSync(q)
  <2> DEFINE u == req[q].user
  <2>1. req[q] \in UpdateReq /\ u \in Users
    BY <1>9, FieldsOf DEF UpdateSync, Doing, IInv, RequestsOK, UpdateReq
  <2>2. hist'.lost = hist.lost
    BY <1>1, <1>9, LostSame DEF UpdateSync
  <2>3. PICK managed \in SUBSET Factories :
          user' = user \/ (Exists(u) /\ user' = [user EXCEPT ![u].managed = managed])
    <3>1. FactoriesOf(Given(req[q].patch.group, req[q].group)) \in SUBSET Factories
      BY DEF FactoriesOf
    <3> QED
      BY <1>9, <3>1 DEF UpdateSync
  <2> DEFINE row == [user[u] EXCEPT !.managed = managed]
  <2>4. Exists(u) => row \in UserRow /\ row.role = user[u].role
    BY <1>1, <2>1 DEF Exists, UserRow
  <2> QED
    BY <1>1, <2>1, <2>2, <2>3, <2>4, RoleUnchanged
<1> QED
  BY <1>2, <1>3, <1>4, <1>5, <1>6, <1>7, <1>8, <1>9
     DEF InvitationStep, EmailChangeStep, UserAdminStep

(* The requests that carry a role keep it, or have read it just now.       *)
LEMMA OthersKeepReaders ==
  ASSUME IInv, NEW q \in Requests,
         \/ InvitationStep(q) \/ EmailChangeStep(q) \/ UserAdminStep(q) \/ Die(q)
  PROVE  ReadersKept
<1>1. req \in [Requests -> Requested \cup {Idle}]
  BY DEF IInv, RequestsOK
<1>2. \/ End(q)
      \/ \E r : r.op \notin {"login", "refresh"} /\ req' = [req EXCEPT ![q] = r]
      \/ req[q].op \notin {"login", "refresh"} /\ \E at : Goto(q, at)
  BY OthersStep
<1>3. req'[q].op \notin {"login", "refresh"} /\ \A p \in Requests \ {q} : req'[p] = req[p]
  <2>1. CASE End(q)
    BY <1>1, <2>1 DEF End, Idle
  <2>2. CASE \E r : r.op \notin {"login", "refresh"} /\ req' = [req EXCEPT ![q] = r]
    BY <1>1, <2>2
  <2>3. CASE req[q].op \notin {"login", "refresh"} /\ \E at : Goto(q, at)
    <3>1. PICK at : req' = [req EXCEPT ![q].at = at]
      BY <2>3 DEF Goto
    <3>2. req'[q] = [req[q] EXCEPT !.at = at] /\ \A p \in Requests \ {q} : req'[p] = req[p]
      BY <1>1, <3>1
    <3>3. req'[q].op = req[q].op
      BY <1>1, <3>2
         DEF Requested, LoginReq, RefreshReq, LogoutReq, InviteReq, ResendReq,
             AcceptReq, ChangeReq, ConfirmReq, UpdateReq, DeleteReq, Idle
    <3> QED
      BY <2>3, <3>2, <3>3
  <2> QED
    BY <1>2, <2>1, <2>2, <2>3
<1> QED
  BY <1>3 DEF ReadersKept

LEMMA SessionsKeepReaders ==
  ASSUME IInv, NEW q \in Requests, SessionStep(q)
  PROVE  ReadersKept
<1>1. req \in [Requests -> Requested \cup {Idle}]
  BY DEF IInv, RequestsOK
<1>2. CASE \E u \in Users, ok \in BOOLEAN : LoginRead(q, u, ok)
  <2>1. PICK u \in Users, ok \in BOOLEAN : LoginRead(q, u, ok)
    BY <1>2
  <2> DEFINE r == [op |-> "login", at |-> "write", user |-> u, ok |-> ok,
                   failed |-> user[u].failed, role |-> user[u].role,
                   sid |-> None, now |-> clock]
  <2>2. req' = [req EXCEPT ![q] = r]
    BY <2>1 DEF LoginRead, Begin
  <2>3. req'[q] = r /\ \A p \in Requests \ {q} : req'[p] = req[p]
    BY <1>1, <2>2
  <2>4. r.user = u /\ r.role = user[u].role
    OBVIOUS
  <2>5. Exists(u) /\ user' = user
    BY <2>1 DEF LoginRead, tables
  <2> HIDE DEF r
  <2> QED
    BY <2>3, <2>4, <2>5 DEF ReadersKept
<1>3. CASE \E t \in Tokens : RefreshRead(q, t)
  <2>1. PICK t \in Tokens : RefreshRead(q, t)
    BY <1>3
  <2> DEFINE u == token[t].user
             r == [op |-> "refresh", at |-> "session", user |-> u,
                   token |-> t, next |-> None, sid |-> token[t].sid,
                   role |-> user[u].role, was |-> None, now |-> clock]
  <2>2. req' = [req EXCEPT ![q] = r]
    BY <2>1 DEF RefreshRead, Begin
  <2>3. req'[q] = r /\ \A p \in Requests \ {q} : req'[p] = req[p]
    BY <1>1, <2>2
  <2>4. r.user = u /\ r.role = user[u].role
    OBVIOUS
  <2>5. Exists(u) /\ u \in Users /\ user' = user
    BY <2>1 DEF RefreshRead, Usable, IInv, Owned, StoresTyped, TokenRow, tables
  <2> HIDE DEF r, u
  <2> QED
    BY <2>3, <2>4, <2>5 DEF ReadersKept
<1>4. CASE \/ \E t \in Tokens : LogoutRead(q, t)
           \/ LogoutRevoke(q)
           \/ \E reached \in BOOLEAN : LogoutDelete(q, reached)
           \/ LoginFail(q) \/ LoginTokens(q) \/ RefreshTouch(q)
  <2>1. \/ req' = [req EXCEPT ![q] = Idle]
        \/ \E r : r.op = "logout" /\ req' = [req EXCEPT ![q] = r]
        \/ req[q].op = "logout" /\ req' = [req EXCEPT ![q].at = "delete"]
    BY <1>4 DEF LogoutRead, LogoutRevoke, LogoutDelete, LoginFail, LoginTokens,
                RefreshTouch, Begin, End, Goto, Doing
  <2>2. req[q].op = "logout" => req[q] \in LogoutReq
    BY <1>1, FieldsOf
  <2>3. req'[q].op \in {"idle", "logout"} /\ \A p \in Requests \ {q} : req'[p] = req[p]
    BY <1>1, <2>1, <2>2 DEF Idle, LogoutReq
  <2> QED
    BY <2>3 DEF ReadersKept
<1>5. CASE LoginClear(q) \/ LoginSession(q)
  <2>1. req[q] \in LoginReq
    BY <1>1, <1>5, FieldsOf DEF LoginClear, LoginSession, Doing
  <2>2. \/ req' = [req EXCEPT ![q] = Idle]
        \/ \E at : req' = [req EXCEPT ![q].at = at]
        \/ \E s, at : req' = [req EXCEPT ![q].sid = s, ![q].at = at]
    BY <1>5 DEF LoginClear, LoginSession, End, Goto
  <2>3. \/ req'[q] = Idle
        \/ /\ req'[q].user = req[q].user /\ req'[q].role = req[q].role
           /\ req'[q].now = req[q].now /\ req[q].op = "login"
    <3>1. CASE req' = [req EXCEPT ![q] = Idle]
      BY <1>1, <3>1
    <3>2. CASE \E at : req' = [req EXCEPT ![q].at = at]
      <4>1. PICK at : req' = [req EXCEPT ![q].at = at]
        BY <3>2
      <4>2. req'[q] = [req[q] EXCEPT !.at = at]
        BY <1>1, <4>1
      <4> QED
        BY <2>1, <4>2 DEF LoginReq
    <3>3. CASE \E s, at : req' = [req EXCEPT ![q].sid = s, ![q].at = at]
      <4>1. PICK s, at : req' = [req EXCEPT ![q].sid = s, ![q].at = at]
        BY <3>3
      <4>2. req'[q] = [req[q] EXCEPT !.sid = s, !.at = at]
        BY <1>1, <4>1
      <4> QED
        BY <2>1, <4>2 DEF LoginReq
    <3> QED
      BY <2>2, <3>1, <3>2, <3>3
  <2>4. \A p \in Requests \ {q} : req'[p] = req[p]
    BY <1>1, <2>2
  <2> QED
    BY <2>3, <2>4 DEF ReadersKept, Idle
<1>6. CASE RefreshSession(q) \/ RefreshCreate(q) \/ RefreshRevoke(q)
  <2>1. req[q] \in RefreshReq
    BY <1>1, <1>6, FieldsOf DEF RefreshSession, RefreshCreate, RefreshRevoke, Doing
  <2>2. \/ req' = [req EXCEPT ![q] = Idle]
        \/ \E at : req' = [req EXCEPT ![q].at = at]
        \/ \E w, at : req' = [req EXCEPT ![q].at = at, ![q].was = w]
        \/ \E t, at : req' = [req EXCEPT ![q].next = t, ![q].at = at]
    BY <1>6 DEF RefreshSession, RefreshCreate, RefreshRevoke, End, Goto
  <2>3. \/ req'[q] = Idle
        \/ /\ req'[q].user = req[q].user /\ req'[q].role = req[q].role
           /\ req'[q].now = req[q].now /\ req[q].op = "refresh"
    <3>1. CASE req' = [req EXCEPT ![q] = Idle]
      BY <1>1, <3>1
    <3>2. CASE \E at : req' = [req EXCEPT ![q].at = at]
      <4>1. PICK at : req' = [req EXCEPT ![q].at = at]
        BY <3>2
      <4>2. req'[q] = [req[q] EXCEPT !.at = at]
        BY <1>1, <4>1
      <4> QED
        BY <2>1, <4>2 DEF RefreshReq
    <3>3. CASE \E w, at : req' = [req EXCEPT ![q].at = at, ![q].was = w]
      <4>1. PICK w, at : req' = [req EXCEPT ![q].at = at, ![q].was = w]
        BY <3>3
      <4>2. req'[q] = [req[q] EXCEPT !.at = at, !.was = w]
        BY <1>1, <4>1
      <4> QED
        BY <2>1, <4>2 DEF RefreshReq
    <3>4. CASE \E t, at : req' = [req EXCEPT ![q].next = t, ![q].at = at]
      <4>1. PICK t, at : req' = [req EXCEPT ![q].next = t, ![q].at = at]
        BY <3>4
      <4>2. req'[q] = [req[q] EXCEPT !.next = t, !.at = at]
        BY <1>1, <4>1
      <4> QED
        BY <2>1, <4>2 DEF RefreshReq
    <3> QED
      BY <2>2, <3>1, <3>2, <3>3, <3>4
  <2>4. \A p \in Requests \ {q} : req'[p] = req[p]
    BY <1>1, <2>2
  <2> QED
    BY <2>3, <2>4 DEF ReadersKept, Idle
<1> QED
  BY <1>2, <1>3, <1>4, <1>5, <1>6 DEF SessionStep

(* Access tokens are issued by two steps, with the role of the request.    *)
LEMMA SessionsIssue ==
  ASSUME IInv, NEW q \in Requests, SessionStep(q)
  PROVE  AccessIssued
<1>1. CASE LoginTokens(q) \/ RefreshTouch(q)
  <2>1. /\ req[q].op \in {"login", "refresh"}
        /\ \/ access' = access
           \/ Issue(req[q].user, req[q].role, req[q].sid)
    BY <1>1 DEF LoginTokens, RefreshTouch, Doing
  <2> QED
    BY <2>1 DEF AccessIssued, Issue
<1>2. CASE ~(LoginTokens(q) \/ RefreshTouch(q))
  <2>1. access' = access
    BY <1>2 DEF SessionStep, LoginRead, LoginFail, LoginClear, LoginSession,
                RefreshRead, RefreshSession, RefreshCreate, RefreshRevoke,
                LogoutRead, LogoutRevoke, LogoutDelete, client
  <2> QED
    BY <2>1 DEF AccessIssued
<1> QED
  BY <1>1, <1>2

LEMMA OthersIssue ==
  ASSUME NEW q \in Requests,
         \/ InvitationStep(q) \/ EmailChangeStep(q) \/ UserAdminStep(q) \/ Die(q)
  PROVE  AccessIssued
<1>1. access' = access
  BY DEF InvitationStep, EmailChangeStep, UserAdminStep, Die,
         InviteCheck, InviteCreate, InviteUndo, ResendRead, ResendCreate, ResendUndo,
         ResendRevoke, SendMail, AcceptRead, AcceptName, AcceptClaim, ChangeRead,
         ChangeTaken, ChangeDelete, ChangeCreate, ConfirmRead, ConfirmTaken,
         ConfirmBurn, ConfirmClaim, UpdateRead, UpdateWrite, UpdateSync,
         DeleteRead, DeleteWrite, client
<1> QED
  BY <1>1 DEF AccessIssued

(* An account is created by the one invitation that has reserved its row.  *)
InvitesKept ==
  \A p \in Requests : req'[p].op = "invite" =>
    /\ req[p].op = "invite" /\ req'[p].user = req[p].user
    /\ req'[p].at = "create" => req[p].at = "create"
NobodyNew == \A v \in Users : ~Exists(v) => user'[v] = None

LEMMA FreshByKept ==
  ASSUME IInv, FreshUsers, InvitesKept, NobodyNew
  PROVE  FreshUsers'
<1> SUFFICES ASSUME NEW p \in Requests, req'[p].op = "invite", req'[p].at = "create"
             PROVE  /\ user'[req'[p].user] = None
                    /\ \A x \in Requests \ {p} :
                         req'[x].op = "invite" => req'[x].user # req'[p].user
  BY DEF FreshUsers, Doing, Exists
<1>1. req[p].op = "invite" /\ req'[p].user = req[p].user /\ req[p].at = "create"
  BY DEF InvitesKept
<1>2. req[p].user \in Users
  BY <1>1, FieldsOf DEF IInv, RequestsOK, InviteReq
<1> QED
  BY <1>1, <1>2 DEF FreshUsers, InvitesKept, NobodyNew, Doing

LEMMA InvitesMove ==
  ASSUME IInv, NEW q \in Requests,
         \/ End(q)
         \/ \E r : r.op # "invite" /\ req' = [req EXCEPT ![q] = r]
         \/ req[q].op # "invite" /\ \E at : Goto(q, at)
         \/ \E at : at # "create" /\ Goto(q, at)
  PROVE  InvitesKept
<1>1. req \in [Requests -> Requested \cup {Idle}]
  BY DEF IInv, RequestsOK
<1>2. CASE End(q)
  BY <1>1, <1>2 DEF End, Idle, InvitesKept
<1>3. CASE \E r : r.op # "invite" /\ req' = [req EXCEPT ![q] = r]
  BY <1>1, <1>3 DEF InvitesKept
<1>4. ASSUME NEW at, Goto(q, at), req[q].op # "invite" \/ at # "create"
      PROVE  InvitesKept
  <2>1. req'[q] = [req[q] EXCEPT !.at = at] /\ \A p \in Requests \ {q} : req'[p] = req[p]
    BY <1>1, <1>4 DEF Goto
  <2>2. req'[q].op = req[q].op
    BY <1>1, <2>1
       DEF Requested, LoginReq, RefreshReq, LogoutReq, InviteReq, ResendReq,
           AcceptReq, ChangeReq, ConfirmReq, UpdateReq, DeleteReq, Idle
  <2>3. req[q].op = "invite" => req'[q].user = req[q].user /\ req'[q].at = at
    <3>1. req[q].op = "invite" => req[q] \in InviteReq
      BY <1>1, FieldsOf
    <3> QED
      BY <2>1, <3>1 DEF InviteReq
  <2> QED
    BY <1>4, <2>1, <2>2, <2>3 DEF InvitesKept
<1> QED
  BY <1>2, <1>3, <1>4

LEMMA SessionsKeepFresh ==
  ASSUME IInv, FreshUsers, NEW q \in Requests, SessionStep(q)
  PROVE  FreshUsers'
<1>1. req \in [Requests -> Requested \cup {Idle}] /\ user \in [Users -> UserRow \cup {None}]
  BY DEF IInv, RequestsOK, StoresTyped
<1>2. NobodyNew
  <2>1. CASE LoginFail(q) \/ LoginClear(q)
    <3>1. \/ user' = user
          \/ \E n, until : /\ Exists(req[q].user)
                           /\ user' = [user EXCEPT ![req[q].user].failed = n,
                                                   ![req[q].user].lockedUntil = until]
      BY <2>1 DEF LoginFail, LoginClear
    <3> QED
      BY <1>1, <3>1 DEF NobodyNew, Exists
  <2>2. CASE ~(LoginFail(q) \/ LoginClear(q))
    <3>1. user' = user
      BY <2>2 DEF SessionStep, LoginRead, LoginSession, LoginTokens,
                  RefreshRead, RefreshSession, RefreshCreate, RefreshRevoke,
                  RefreshTouch, LogoutRead, LogoutRevoke, LogoutDelete, tables
    <3> QED
      BY <3>1 DEF NobodyNew, Exists
  <2> QED
    BY <2>1, <2>2
<1>3. InvitesKept
  <2>1. CASE \/ \E u \in Users, ok \in BOOLEAN : LoginRead(q, u, ok)
             \/ \E t \in Tokens : RefreshRead(q, t) \/ LogoutRead(q, t)
    <3>1. \E r : r.op # "invite" /\ req' = [req EXCEPT ![q] = r]
      BY <2>1 DEF LoginRead, RefreshRead, LogoutRead, Begin
    <3> QED
      BY <3>1, InvitesMove
  <2>2. CASE \/ LoginFail(q) \/ LoginClear(q) \/ LoginTokens(q)
             \/ RefreshRevoke(q) \/ RefreshTouch(q) \/ LogoutRevoke(q)
             \/ \E reached \in BOOLEAN : LogoutDelete(q, reached)
    <3>1. End(q) \/ (req[q].op # "invite" /\ \E at : Goto(q, at))
      BY <2>2 DEF LoginFail, LoginClear, LoginTokens, RefreshRevoke, RefreshTouch,
                  LogoutRevoke, LogoutDelete, Doing
    <3> QED
      BY <3>1, InvitesMove
  <2>3. CASE LoginSession(q)
    <3>1. PICK s : req' = [req EXCEPT ![q].sid = s, ![q].at = "tokens"]
      BY <2>3 DEF LoginSession
    <3>2. req[q] \in LoginReq
      BY <1>1, <2>3, FieldsOf DEF LoginSession, Doing
    <3>3. /\ req'[q] = [req[q] EXCEPT !.sid = s, !.at = "tokens"]
          /\ \A p \in Requests \ {q} : req'[p] = req[p]
      BY <1>1, <3>1
    <3>4. req'[q].op = "login"
      BY <3>2, <3>3 DEF LoginReq
    <3> QED
      BY <3>3, <3>4 DEF InvitesKept
  <2>4. CASE RefreshSession(q)
    <3>1. CASE End(q)
      BY <3>1, InvitesMove
    <3>2. CASE ~End(q)
      <4>1. PICK w : req' = [req EXCEPT ![q].at = "create", ![q].was = w]
        BY <2>4, <3>2 DEF RefreshSession
      <4>2. req[q] \in RefreshReq
        BY <1>1, <2>4, FieldsOf DEF RefreshSession, Doing
      <4>3. /\ req'[q] = [req[q] EXCEPT !.at = "create", !.was = w]
            /\ \A p \in Requests \ {q} : req'[p] = req[p]
        BY <1>1, <4>1
      <4>4. req'[q].op = "refresh"
        BY <4>2, <4>3 DEF RefreshReq
      <4> QED
        BY <4>3, <4>4 DEF InvitesKept
    <3> QED
      BY <3>1, <3>2
  <2>5. CASE RefreshCreate(q)
    <3>1. CASE End(q)
      BY <3>1, InvitesMove
    <3>2. CASE ~End(q)
      <4>1. PICK t : req' = [req EXCEPT ![q].next = t, ![q].at = "revoke"]
        BY <2>5, <3>2 DEF RefreshCreate
      <4>2. req[q] \in RefreshReq
        BY <1>1, <2>5, FieldsOf DEF RefreshCreate, Doing
      <4>3. /\ req'[q] = [req[q] EXCEPT !.next = t, !.at = "revoke"]
            /\ \A p \in Requests \ {q} : req'[p] = req[p]
        BY <1>1, <4>1
      <4>4. req'[q].op = "refresh"
        BY <4>2, <4>3 DEF RefreshReq
      <4> QED
        BY <4>3, <4>4 DEF InvitesKept
    <3> QED
      BY <3>1, <3>2
  <2> QED
    BY <2>1, <2>2, <2>3, <2>4, <2>5 DEF SessionStep
<1> QED
  BY <1>2, <1>3, FreshByKept

LEMMA InviteChecksFresh ==
  ASSUME IInv, FreshUsers, NEW q \in Requests, NEW u \in Users, NEW e, NEW r, NEW g,
         InviteCheck(q, u, e, r, g)
  PROVE  FreshUsers'
<1> DEFINE x == [op |-> "invite", at |-> "create", user |-> u, email |-> e,
                 role |-> r, group |-> g, link |-> None, now |-> clock]
<1>1. req' = [req EXCEPT ![q] = x] /\ user' = user
  BY DEF InviteCheck, Begin, tables
<1>2. req'[q] = x /\ \A p \in Requests \ {q} : req'[p] = req[p]
  BY <1>1 DEF IInv, RequestsOK
<1>3. x.user = u /\ x.op = "invite"
  OBVIOUS
<1>4. ~Exists(u) /\ \A p \in Requests : req[p].op = "invite" => req[p].user # u
  BY DEF InviteCheck, NeverUsed
<1> HIDE DEF x
<1> QED
  BY <1>1, <1>2, <1>3, <1>4 DEF FreshUsers, Doing, Exists

LEMMA InviteCreatesFresh ==
  ASSUME IInv, FreshUsers, NEW q \in Requests, InviteCreate(q)
  PROVE  FreshUsers'
<1>1. /\ req \in [Requests -> Requested \cup {Idle}]
      /\ user \in [Users -> UserRow \cup {None}]
      /\ req[q] \in InviteReq /\ Doing(q, "invite", "create")
  BY FieldsOf DEF IInv, RequestsOK, StoresTyped, InviteCreate, Doing
<1>2. CASE End(q) /\ user' = user
  <2>1. InvitesKept
    BY <1>2, InvitesMove
  <2>2. NobodyNew
    BY <1>2 DEF NobodyNew, Exists
  <2> QED
    BY <2>1, <2>2, FreshByKept
<1>3. CASE ~(End(q) /\ user' = user)
  <2>1. PICK i, row : /\ req' = [req EXCEPT ![q].link = i, ![q].at = "mail"]
                      /\ user' = [user EXCEPT ![req[q].user] = row]
    BY <1>3 DEF InviteCreate
  <2>2. /\ req'[q] = [req[q] EXCEPT !.link = i, !.at = "mail"]
        /\ \A p \in Requests \ {q} : req'[p] = req[p]
    BY <1>1, <2>1
  <2>3. req'[q].op = "invite" /\ req'[q].at = "mail" /\ req'[q].user = req[q].user
    BY <1>1, <2>2 DEF InviteReq
  <2>4. \A p \in Requests \ {q} : Doing(p, "invite", "create") =>
          req[p].user # req[q].user /\ req[p].user \in Users
    BY <1>1, FieldsOf DEF FreshUsers, Doing, InviteReq
  <2>5. \A v \in Users : v # req[q].user => user'[v] = user[v]
    BY <1>1, <2>1
  <2> SUFFICES ASSUME NEW p \in Requests, req'[p].op = "invite", req'[p].at = "create"
               PROVE  /\ user'[req'[p].user] = None
                      /\ \A x \in Requests \ {p} :
                           req'[x].op = "invite" => req'[x].user # req'[p].user
    BY DEF FreshUsers, Doing, Exists
  <2>6. p # q /\ req'[p] = req[p] /\ Doing(p, "invite", "create")
    BY <2>2, <2>3 DEF Doing
  <2>7. user'[req'[p].user] = None
    BY <2>4, <2>5, <2>6 DEF FreshUsers, Exists
  <2>8. ASSUME NEW x \in Requests \ {p}, req'[x].op = "invite"
        PROVE  req'[x].user # req'[p].user
    <3>1. CASE x = q
      BY <2>3, <2>4, <2>6, <3>1
    <3>2. CASE x # q
      <4>1. req'[x] = req[x] /\ req[x].op = "invite"
        BY <2>2, <2>8, <3>2
      <4> QED
        BY <2>6, <4>1 DEF FreshUsers
    <3> QED
      BY <3>1, <3>2
  <2> QED
    BY <2>7, <2>8
<1> QED
  BY <1>2, <1>3

LEMMA OthersKeepFresh ==
  ASSUME IInv, FreshUsers, NEW q \in Requests,
         \/ InvitationStep(q) \/ EmailChangeStep(q) \/ UserAdminStep(q) \/ Die(q)
  PROVE  FreshUsers'
<1>1. req \in [Requests -> Requested \cup {Idle}] /\ user \in [Users -> UserRow \cup {None}]
  BY DEF IInv, RequestsOK, StoresTyped
<1>2. CASE \E u \in Users, e \in Emails, r \in AskedRoles, g \in Groups \cup {None} :
             InviteCheck(q, u, e, r, g)
  BY <1>2, InviteChecksFresh
<1>3. CASE InviteCreate(q)
  BY <1>3, InviteCreatesFresh
<1>4. CASE \/ \E u \in Users : ResendRead(q, u) \/ DeleteRead(q, u)
           \/ \E i \in Links, n \in Names : AcceptRead(q, i, n)
           \/ \E u \in Users, e \in Emails : ChangeRead(q, u, e)
           \/ \E i \in Links : ConfirmRead(q, i)
           \/ \E u \in Users, p \in Patches : UpdateRead(q, u, p)
  <2>1. /\ user' = user
        /\ \E r : r.op # "invite" /\ req' = [req EXCEPT ![q] = r]
    BY <1>4 DEF ResendRead, DeleteRead, AcceptRead, ChangeRead, ConfirmRead,
                UpdateRead, Begin, tables
  <2>2. InvitesKept /\ NobodyNew
    BY <2>1, InvitesMove DEF NobodyNew, Exists
  <2> QED
    BY <2>2, FreshByKept
<1>5. CASE ResendCreate(q)
  <2>1. user' = user
    BY <1>5 DEF ResendCreate
  <2>2. InvitesKept
    <3>1. CASE End(q)
      BY <3>1, InvitesMove
    <3>2. CASE ~End(q)
      <4>1. PICK i : req' = [req EXCEPT ![q].link = i, ![q].at = "mail"]
        BY <1>5, <3>2 DEF ResendCreate
      <4>2. req[q] \in ResendReq
        BY <1>1, <1>5, FieldsOf DEF ResendCreate, Doing
      <4>3. /\ req'[q] = [req[q] EXCEPT !.link = i, !.at = "mail"]
            /\ \A p \in Requests \ {q} : req'[p] = req[p]
        BY <1>1, <4>1
      <4>4. req'[q].op = "resend"
        BY <4>2, <4>3 DEF ResendReq
      <4> QED
        BY <4>3, <4>4 DEF InvitesKept
    <3> QED
      BY <3>1, <3>2
  <2> QED
    BY <2>1, <2>2, FreshByKept DEF NobodyNew, Exists
<1>6. CASE \/ ResendUndo(q) \/ ResendRevoke(q) \/ AcceptName(q)
           \/ ChangeTaken(q) \/ ChangeDelete(q) \/ ChangeCreate(q)
           \/ ConfirmTaken(q) \/ ConfirmBurn(q) \/ Die(q)
           \/ \E delivered, ok \in BOOLEAN : SendMail(q, delivered, ok)
  <2>1. user' = user
    BY <1>6 DEF ResendUndo, ResendRevoke, AcceptName, ChangeTaken, ChangeDelete,
                ChangeCreate, ConfirmTaken, ConfirmBurn, Die, SendMail, tables
  <2>2. \/ End(q)
        \/ \E at : /\ at # "create" \/ req[q].op # "invite"
                   /\ Goto(q, at)
    BY <1>6 DEF ResendUndo, ResendRevoke, AcceptName, ChangeTaken, ChangeDelete,
                ChangeCreate, ConfirmTaken, ConfirmBurn, Die, SendMail, Doing
  <2> QED
    BY <2>1, <2>2, InvitesMove, FreshByKept DEF NobodyNew, Exists
<1>7. CASE InviteUndo(q) \/ DeleteWrite(q)
  <2>1. req[q].user \in Users /\ End(q)
    BY <1>7, FieldsOf DEF IInv, RequestsOK, DeleteWrite, InviteUndo, Doing,
                          DeleteReq, InviteReq
  <2>2. NobodyNew
    BY <1>1, <1>7, <2>1 DEF InviteUndo, DeleteWrite, DeleteUser, NobodyNew, Exists
  <2> QED
    BY <2>1, <2>2, InvitesMove, FreshByKept
<1>8. CASE AcceptClaim(q)
  <2>1. req[q] \in AcceptReq /\ Sound(q) /\ End(q)
    BY <1>8, FieldsOf DEF AcceptClaim, Doing, IInv, RequestsOK
  <2> DEFINE i == req[q].link
             u == req[q].user
  <2>2. NobodyNew
    <3>1. CASE user' = user
      BY <3>1 DEF NobodyNew, Exists
    <3>2. CASE user' # user
      <4>1. PICK row : user' = [user EXCEPT ![u] = row]
        BY <1>8, <3>2 DEF AcceptClaim
      <4>2. invite[i] # None /\ invite[i].user = u /\ i \in Links
        BY <1>8, <2>1, <3>2 DEF AcceptReq, Sound, AcceptSound, AcceptClaim, Doing,
                                ClaimInvitation, ActiveInvitation, Pending
      <4>3. Exists(u)
        BY <4>2 DEF IInv, Owned
      <4> QED
        BY <1>1, <4>1, <4>3 DEF NobodyNew, Exists
    <3> QED
      BY <3>1, <3>2
  <2> QED
    BY <2>1, <2>2, InvitesMove, FreshByKept
<1>9. CASE ConfirmClaim(q)
  <2>1. req[q] \in ConfirmReq /\ Sound(q) /\ End(q)
    BY <1>9, FieldsOf DEF ConfirmClaim, Doing, IInv, RequestsOK
  <2> DEFINE i == req[q].link
             u == req[q].user
  <2>2. NobodyNew
    <3>1. CASE user' = user
      BY <3>1 DEF NobodyNew, Exists
    <3>2. CASE user' # user
      <4>1. PICK row : user' = [user EXCEPT ![u] = row]
        BY <1>9, <3>2 DEF ConfirmClaim
      <4>2. change[i] # None /\ change[i].user = u /\ i \in Links
        BY <1>9, <2>1, <3>2 DEF ConfirmReq, Sound, ConfirmSound, ConfirmClaim, Doing,
                                Confirmable
      <4>3. Exists(u)
        BY <4>2 DEF IInv, Owned
      <4> QED
        BY <1>1, <4>1, <4>3 DEF NobodyNew, Exists
    <3> QED
      BY <3>1, <3>2
  <2> QED
    BY <2>1, <2>2, InvitesMove, FreshByKept
<1>10. CASE UpdateWrite(q) \/ UpdateSync(q)
  <2>1. End(q) \/ (req[q].op # "invite" /\ \E at : Goto(q, at))
    BY <1>10 DEF UpdateWrite, UpdateSync, Doing
  <2>2. \/ user' = user
        \/ \E u, row : Exists(u) /\ user' = [user EXCEPT ![u] = row]
    <3>1. CASE UpdateWrite(q)
      <4> DEFINE u == req[q].user
                 p == req[q].patch
                 row == [user[u] EXCEPT !.role = Given(p.role, @),
                                        !.group = Given(p.group, @),
                                        !.email = Given(p.email, @)]
      <4>1. \/ user' = user
            \/ Exists(u) /\ user' = [user EXCEPT ![u] = row]
        BY <3>1 DEF UpdateWrite
      <4> HIDE DEF row
      <4> QED
        BY <4>1
    <3>2. CASE UpdateSync(q)
      <4>1. user' = user \/ \E m : /\ Exists(req[q].user)
                                   /\ user' = [user EXCEPT ![req[q].user].managed = m]
        BY <3>2 DEF UpdateSync
      <4> QED
        BY <4>1
    <3> QED
      BY <1>10, <3>1, <3>2
  <2>3. NobodyNew
    BY <1>1, <2>2 DEF NobodyNew, Exists
  <2> QED
    BY <2>1, <2>3, InvitesMove, FreshByKept
<1> QED
  BY <1>2, <1>3, <1>4, <1>5, <1>6, <1>7, <1>8, <1>9, <1>10
     DEF InvitationStep, EmailChangeStep, UserAdminStep

(* Time passes: what was had at an earlier time was had since then.        *)
LEMMA TicksKeepRoles ==
  ASSUME IInv, RolesKnown, Tick
  PROVE  RolesKnown'
<1>1. /\ clock \in Nat /\ clock' = clock + 1 /\ user' = user /\ req' = req
      /\ hist' = hist /\ access' \subseteq access
      /\ hist.lost \in [Users -> [Roles -> Nat \cup {None}]]
      /\ access \subseteq Access /\ AccessTtl \in Nat /\ None \notin Nat
  BY StoreAssumption DEF IInv, StoresTyped, Tick, tables, Histories
<1>2. LostKnown'
  <2> SUFFICES ASSUME NEW u \in Users, NEW r \in Roles, hist.lost[u][r] # None
               PROVE  hist.lost[u][r] <= clock + 1
    BY <1>1 DEF LostKnown
  <2>1. hist.lost[u][r] <= clock /\ hist.lost[u][r] \in Nat
    BY <1>1 DEF RolesKnown, LostKnown
  <2> QED
    BY <1>1, <2>1
<1>3. ReadersKnown' /\ FreshUsers'
  BY <1>1 DEF RolesKnown, ReadersKnown, FreshUsers, HadSince, Exists, Doing
<1>4. AccessKnown'
  <2> SUFFICES ASSUME NEW a \in access
               PROVE  /\ a.exp <= clock + 1 + AccessTtl
                      /\ HadSince(a.user, a.role, a.exp - (AccessTtl + 1))
    BY <1>1 DEF AccessKnown, HadSince, Exists
  <2>1. a.exp <= clock + AccessTtl /\ HadSince(a.user, a.role, a.exp - (AccessTtl + 1))
    BY DEF RolesKnown, AccessKnown
  <2>2. a.exp \in Nat
    BY <1>1 DEF Access
  <2> QED
    BY <1>1, <2>1, <2>2
<1> QED
  BY <1>2, <1>3, <1>4 DEF RolesKnown

LEMMA RolesAlwaysKnown == Spec => [](IInv /\ RolesKnown)
<1>1. Init => RolesKnown
  BY DEF Init, RolesKnown, LostKnown, ReadersKnown, AccessKnown, FreshUsers, Idle, Doing
<1>2. IInv /\ IInv' /\ RolesKnown /\ [Next]_vars => RolesKnown'
  <2> SUFFICES ASSUME IInv, IInv', RolesKnown, [Next]_vars
               PROVE  RolesKnown'
    OBVIOUS
  <2>1. CASE Tick
    BY <2>1, TicksKeepRoles
  <2>2. CASE UNCHANGED vars
    BY <2>2 DEF vars, RolesKnown, LostKnown, ReadersKnown, AccessKnown, FreshUsers,
                HadSince, Exists, Doing
  <2>3. ASSUME NEW q \in Requests, SessionStep(q) PROVE RolesKnown'
    <3>1. FreshUsers'
      BY <2>3, SessionsKeepFresh DEF RolesKnown
    <3>2. RolesNoted /\ ReadersKept /\ AccessIssued
      BY <2>3, SessionsNote, SessionsKeepReaders, SessionsIssue
    <3> QED
      BY <3>1, <3>2, RolesStep DEF RolesKnown
  <2>4. ASSUME NEW q \in Requests,
               InvitationStep(q) \/ EmailChangeStep(q) \/ UserAdminStep(q) \/ Die(q)
        PROVE  RolesKnown'
    <3>1. FreshUsers'
      BY <2>4, OthersKeepFresh DEF RolesKnown
    <3>2. RolesNoted /\ ReadersKept /\ AccessIssued
      BY <2>4, OthersNote, OthersKeepReaders, OthersIssue DEF RolesKnown
    <3> QED
      BY <3>1, <3>2, RolesStep DEF RolesKnown
  <2> QED
    BY <2>1, <2>2, <2>3, <2>4 DEF Next
<1> QED
  BY <1>1, <1>2, InitInv, StepInv, PTL DEF Spec

(* Whoever is let in with a role has it, or has lost it at most AccessTtl  *)
(* ago, for any lifetime of the tokens: an access token takes its role     *)
(* from a row that was read at most a tick before (auth-service.ts:288 and *)
(* :358), and a role that goes after the read is noted with a later time.  *)
THEOREM StaleRolesBounded == Spec => []StaleRoleBounded
<1>1. IInv /\ RolesKnown => StaleRoleBounded
  <2> SUFFICES ASSUME IInv, RolesKnown, NEW a \in access, Authorized(a)
               PROVE  \/ Exists(a.user) /\ user[a.user].role = a.role
                      \/ /\ hist.lost[a.user][a.role] # None
                         /\ clock - hist.lost[a.user][a.role] <= AccessTtl
    BY DEF StaleRoleBounded
  <2>1. /\ clock \in Nat /\ AccessTtl \in Nat /\ a \in Access
        /\ hist.lost \in [Users -> [Roles -> Nat \cup {None}]]
    BY StoreAssumption DEF IInv, StoresTyped, Histories
  <2>2. clock < a.exp /\ HadSince(a.user, a.role, a.exp - (AccessTtl + 1))
    BY DEF Authorized, RolesKnown, AccessKnown
  <2>3. a.user \in Users /\ a.role \in Roles /\ a.exp \in Nat
    BY <2>1 DEF Access
  <2>4. hist.lost[a.user][a.role] \in Nat \cup {None}
    BY <2>1, <2>3
  <2> QED
    BY <2>1, <2>2, <2>3, <2>4 DEF HadSince
<1> QED
  BY <1>1, RolesAlwaysKnown, PTL
-------------------------------------------------------------------------------
(***************************************************************************)
(* What holds of a user as long as no two requests of one kind overlap for *)
(* it: the factories of an ADMIN, and the links that still work.  These    *)
(* theorems are for any mixes of requests and any number of them; what     *)
(* overlaps is what hist.torn records.  And what holds of a user when two  *)
(* logins do overlap: how many wrong passwords are tested on an account.   *)
(***************************************************************************)
About(op, q, u) == req[q].op = op /\ req[q].user = u

(* A step leaves alone the requests of a kind that are about a user.       *)
AloneFor(op, u) ==
  \A p \in Requests :
    About(op, p, u) \/ (req'[p].op = op /\ req'[p].user = u) => req'[p] = req[p]

(* The request that takes a step keeps its kind and its user.              *)
Moved(q) ==
  /\ req'[q].op = req[q].op /\ req'[q].user = req[q].user
  /\ \A p \in Requests \ {q} : req'[p] = req[p]

Acting(q) ==
  SessionStep(q) \/ InvitationStep(q) \/ EmailChangeStep(q) \/ UserAdminStep(q) \/ Die(q)

-------------------------------------------------------------------------------
(* How requests begin, move on and end.                                    *)
LEMMA EndOf ==
  ASSUME IInv, NEW q \in Requests, End(q)
  PROVE  req'[q] = Idle /\ \A p \in Requests \ {q} : req'[p] = req[p]
BY DEF IInv, RequestsOK, End

LEMMA BeginOf ==
  ASSUME IInv, NEW q \in Requests, NEW r, Begin(q, r)
  PROVE  req[q] = Idle /\ req'[q] = r /\ \A p \in Requests \ {q} : req'[p] = req[p]
BY DEF IInv, RequestsOK, Begin

LEMMA GotoOf ==
  ASSUME IInv, NEW q \in Requests, NEW at, Goto(q, at), req[q].op # "idle"
  PROVE  /\ Moved(q) /\ req'[q].at = at
         /\ req[q].op \in {"invite", "resend"} => req'[q].link = req[q].link
<1>1. req[q] \in Requested \cup {Idle} /\ req[q] # Idle
  BY DEF IInv, RequestsOK, Idle
<1>2. req'[q] = [req[q] EXCEPT !.at = at] /\ \A p \in Requests \ {q} : req'[p] = req[p]
  BY DEF IInv, RequestsOK, Goto
<1>3. req'[q].op = req[q].op /\ req'[q].user = req[q].user /\ req'[q].at = at
  BY <1>1, <1>2
     DEF Requested, LoginReq, RefreshReq, LogoutReq, InviteReq, ResendReq,
         AcceptReq, ChangeReq, ConfirmReq, UpdateReq, DeleteReq
<1>4. req[q].op \in {"invite", "resend"} => req'[q].link = req[q].link
  <2>1. req[q].op \in {"invite", "resend"} => req[q] \in InviteReq \cup ResendReq
    BY <1>1, FieldsOf
  <2> QED
    BY <1>2, <2>1 DEF InviteReq, ResendReq
<1> QED
  BY <1>2, <1>3, <1>4 DEF Moved

Linked(q, i) == req' = [req EXCEPT ![q].link = i, ![q].at = "mail"]

LEMMA LinkGiven ==
  ASSUME IInv, NEW q \in Requests, NEW i, req[q].op \in {"invite", "resend"},
         Linked(q, i)
  PROVE  Moved(q) /\ req'[q].at = "mail" /\ req'[q].link = i
<1>1. req[q] \in InviteReq \cup ResendReq
  BY FieldsOf DEF IInv, RequestsOK
<1>2. /\ req'[q] = [req[q] EXCEPT !.link = i, !.at = "mail"]
      /\ \A p \in Requests \ {q} : req'[p] = req[p]
  BY DEF IInv, RequestsOK, Linked
<1>3. /\ req'[q].op = req[q].op /\ req'[q].user = req[q].user
      /\ req'[q].at = "mail" /\ req'[q].link = i
  <2>1. CASE req[q] \in InviteReq
    BY <1>2, <2>1 DEF InviteReq
  <2>2. CASE req[q] \in ResendReq
    BY <1>2, <2>2 DEF ResendReq
  <2> QED
    BY <1>1, <2>1, <2>2
<1> QED
  BY <1>2, <1>3 DEF Moved

(* The kind of the request, by the service that takes the step.            *)
LEMMA SessionKinds ==
  ASSUME IInv, NEW q \in Requests, SessionStep(q)
  PROVE  /\ \A p \in Requests \ {q} : req'[p] = req[p]
         /\ req[q].op \in {"idle", "login", "refresh", "logout"}
         /\ req'[q].op \in {"idle", "login", "refresh", "logout"}
<1>1. req \in [Requests -> Requested \cup {Idle}] /\ Idle.op = "idle"
  BY DEF IInv, RequestsOK, Idle
<1>2. CASE \/ \E u \in Users, ok \in BOOLEAN : LoginRead(q, u, ok)
           \/ \E t \in Tokens : RefreshRead(q, t) \/ LogoutRead(q, t)
  BY <1>1, <1>2 DEF LoginRead, RefreshRead, LogoutRead, Begin
<1>3. CASE \/ LoginFail(q) \/ LoginTokens(q) \/ RefreshTouch(q)
           \/ \E reached \in BOOLEAN : LogoutDelete(q, reached)
  BY <1>1, <1>3, EndOf DEF LoginFail, LoginTokens, RefreshTouch, LogoutDelete, Doing
<1>4. CASE LoginClear(q) \/ RefreshRevoke(q) \/ LogoutRevoke(q)
  BY <1>1, <1>4, EndOf, GotoOf DEF LoginClear, RefreshRevoke, LogoutRevoke, Doing, Moved
<1>5. CASE LoginSession(q)
  <2>1. PICK s : req' = [req EXCEPT ![q].sid = s, ![q].at = "tokens"]
    BY <1>5 DEF LoginSession
  <2>2. req[q] \in LoginReq
    BY <1>1, <1>5, FieldsOf DEF LoginSession, Doing
  <2> QED
    BY <1>1, <2>1, <2>2 DEF LoginReq
<1>6. CASE RefreshSession(q) \/ RefreshCreate(q)
  <2>1. req[q] \in RefreshReq
    BY <1>1, <1>6, FieldsOf DEF RefreshSession, RefreshCreate, Doing
  <2>2. CASE End(q)
    BY <1>1, <2>1, <2>2, EndOf DEF RefreshReq
  <2>3. CASE ~End(q)
    <3>1. \/ \E s : req' = [req EXCEPT ![q].at = "create", ![q].was = s]
          \/ \E t : req' = [req EXCEPT ![q].next = t, ![q].at = "revoke"]
      BY <1>6, <2>3 DEF RefreshSession, RefreshCreate
    <3>2. CASE \E s : req' = [req EXCEPT ![q].at = "create", ![q].was = s]
      BY <1>1, <2>1, <3>2 DEF RefreshReq
    <3>3. CASE \E t : req' = [req EXCEPT ![q].next = t, ![q].at = "revoke"]
      BY <1>1, <2>1, <3>3 DEF RefreshReq
    <3> QED
      BY <3>1, <3>2, <3>3
  <2> QED
    BY <2>2, <2>3
<1> QED
  BY <1>2, <1>3, <1>4, <1>5, <1>6 DEF SessionStep

LEMMA EmailKinds ==
  ASSUME IInv, NEW q \in Requests, EmailChangeStep(q)
  PROVE  /\ \A p \in Requests \ {q} : req'[p] = req[p]
         /\ req[q].op \in {"idle", "change", "confirm"}
         /\ req'[q].op \in {"idle", "change", "confirm"}
<1>1. Idle.op = "idle"
  BY DEF Idle
<1>2. CASE \/ \E u \in Users, e \in Emails : ChangeRead(q, u, e)
           \/ \E i \in Links : ConfirmRead(q, i)
  BY <1>1, <1>2 DEF ChangeRead, ConfirmRead, Begin, IInv, RequestsOK
<1>3. CASE ~(\/ \E u \in Users, e \in Emails : ChangeRead(q, u, e)
             \/ \E i \in Links : ConfirmRead(q, i))
  <2>1. req[q].op \in {"change", "confirm"}
    BY <1>3 DEF EmailChangeStep, ChangeTaken, ChangeDelete, ChangeCreate,
                ConfirmTaken, ConfirmBurn, ConfirmClaim, Doing
  <2>2. End(q) \/ \E at : Goto(q, at)
    BY <1>3 DEF EmailChangeStep, ChangeTaken, ChangeDelete, ChangeCreate,
                ConfirmTaken, ConfirmBurn, ConfirmClaim
  <2> QED
    BY <1>1, <2>1, <2>2, EndOf, GotoOf DEF Moved
<1> QED
  BY <1>2, <1>3

LEMMA InvitationKinds ==
  ASSUME IInv, NEW q \in Requests, InvitationStep(q)
  PROVE  /\ \A p \in Requests \ {q} : req'[p] = req[p]
         /\ req[q].op \in {"idle", "invite", "resend", "accept"}
         /\ req'[q].op \in {"idle", "invite", "resend", "accept"}
<1>1. Idle.op = "idle"
  BY DEF Idle
<1>2. CASE \/ \E u \in Users, e \in Emails, r \in AskedRoles, g \in Groups \cup {None} :
                InviteCheck(q, u, e, r, g)
           \/ \E u \in Users : ResendRead(q, u)
           \/ \E i \in Links, n \in Names : AcceptRead(q, i, n)
  BY <1>1, <1>2 DEF InviteCheck, ResendRead, AcceptRead, Begin, IInv, RequestsOK
<1>3. CASE InviteCreate(q) \/ ResendCreate(q)
  <2>1. req[q].op \in {"invite", "resend"}
    BY <1>3 DEF InviteCreate, ResendCreate, Doing
  <2>2. End(q) \/ \E i : Linked(q, i)
    BY <1>3 DEF InviteCreate, ResendCreate, Linked
  <2> QED
    BY <1>1, <2>1, <2>2, EndOf, LinkGiven DEF Moved, IInv, RequestsOK
<1>4. CASE \/ InviteUndo(q) \/ ResendUndo(q) \/ ResendRevoke(q)
           \/ AcceptName(q) \/ AcceptClaim(q)
           \/ \E delivered, ok \in BOOLEAN : SendMail(q, delivered, ok)
  <2>1. req[q].op \in {"invite", "resend", "accept"}
    BY <1>4 DEF InviteUndo, ResendUndo, ResendRevoke, AcceptName, AcceptClaim,
                SendMail, Doing
  <2>2. End(q) \/ \E at : Goto(q, at)
    BY <1>4 DEF InviteUndo, ResendUndo, ResendRevoke, AcceptName, AcceptClaim, SendMail
  <2> QED
    BY <1>1, <2>1, <2>2, EndOf, GotoOf DEF Moved
<1> QED
  BY <1>2, <1>3, <1>4 DEF InvitationStep

LEMMA AdminKinds ==
  ASSUME IInv, NEW q \in Requests, UserAdminStep(q)
  PROVE  /\ \A p \in Requests \ {q} : req'[p] = req[p]
         /\ req[q].op \in {"idle", "update", "delete"}
         /\ req'[q].op \in {"idle", "update", "delete"}
<1>1. Idle.op = "idle"
  BY DEF Idle
<1>2. CASE \/ \E u \in Users, p \in Patches : UpdateRead(q, u, p)
           \/ \E u \in Users : DeleteRead(q, u)
  BY <1>1, <1>2 DEF UpdateRead, DeleteRead, Begin, IInv, RequestsOK
<1>3. CASE UpdateWrite(q) \/ UpdateSync(q) \/ DeleteWrite(q)
  <2>1. req[q].op \in {"update", "delete"}
    BY <1>3 DEF UpdateWrite, UpdateSync, DeleteWrite, Doing
  <2>2. End(q) \/ \E at : Goto(q, at)
    BY <1>3 DEF UpdateWrite, UpdateSync, DeleteWrite
  <2> QED
    BY <1>1, <2>1, <2>2, EndOf, GotoOf DEF Moved
<1> QED
  BY <1>2, <1>3 DEF UserAdminStep

(* What overlapped stays recorded.                                         *)
LEMMA TornStays ==
  ASSUME hist \in Histories,
         \/ hist' = hist
         \/ \E kind, u : hist' = Tear(kind, u)
         \/ \E t : hist' = [hist EXCEPT !.tokens = t]
         \/ \E s : hist' = [hist EXCEPT !.sids = s]
         \/ \E i : hist' = [hist EXCEPT !.invites = i]
         \/ \E i : hist' = [hist EXCEPT !.changes = i]
         \/ \E l : hist' = [hist EXCEPT !.lost = l]
         \/ \E u, n : hist' = [hist EXCEPT !.tested[u] = n]
         \/ \E k, i, n : hist' = [hist EXCEPT !.claims[k][i] = n]
         \/ \E k, i, n, u : hist' = [hist EXCEPT !.claims[k][i] = n, !.tested[u] = 0]
         \/ \E e, r : hist' = [hist EXCEPT !.ended = e, !.raced = r]
  PROVE  hist.torn \subseteq hist'.torn
BY DEF Histories, Tear

LEMMA TornGrows ==
  ASSUME IInv, NEW q \in Requests, Acting(q)
  PROVE  hist.torn \subseteq hist'.torn
<1>1. hist \in Histories
  BY DEF IInv, StoresTyped
<1>2. CASE SessionStep(q)
  <2>1. \/ hist' = hist
        \/ \E t : hist' = [hist EXCEPT !.tokens = t]
        \/ \E s : hist' = [hist EXCEPT !.sids = s]
        \/ \E u, n : hist' = [hist EXCEPT !.tested[u] = n]
        \/ \E e, r : hist' = [hist EXCEPT !.ended = e, !.raced = r]
    <3>1. CASE LoginFail(q)
      <4> DEFINE u == req[q].user
                 n == hist.tested[u] + 1
      <4>1. hist' = [hist EXCEPT !.tested[u] = n]
        BY <3>1 DEF LoginFail
      <4> QED
        BY <4>1
    <3>2. CASE ~LoginFail(q)
      BY <1>2, <3>2
         DEF SessionStep, LoginRead, LoginClear, LoginSession, LoginTokens, AddToken,
             RefreshRead, RefreshSession, RefreshCreate, RefreshRevoke, RefreshTouch,
             LogoutRead, LogoutRevoke, LogoutDelete
    <3> QED
      BY <3>1, <3>2
  <2> QED
    BY <1>1, <2>1, TornStays
<1>3. CASE ~SessionStep(q)
  BY <1>1, <1>3, OthersStep, TornStays DEF Acting
<1> QED
  BY <1>2, <1>3
-------------------------------------------------------------------------------
(* A user that an update or a new invitation is about was there, and no    *)
(* invitation is about to create it.                                       *)
KnownUsers ==
  /\ \A q \in Requests : req[q].op \in {"update", "resend"} => ~NeverUsed(req[q].user)
  /\ \A p, q \in Requests :
       Doing(p, "invite", "create") /\ req[q].op \in {"update", "resend"} =>
         req[q].user # req[p].user

LEMMA UserOf ==
  ASSUME IInv, NEW q \in Requests, req[q].op # "idle"
  PROVE  req[q].user \in Users
<1>1. req[q] \in Requested
  BY FieldsOf DEF IInv, RequestsOK
<1> QED
  BY <1>1 DEF Requested, LoginReq, RefreshReq, LogoutReq, InviteReq, ResendReq,
         AcceptReq, ChangeReq, ConfirmReq, UpdateReq, DeleteReq

LEMMA UsedStays ==
  ASSUME IInv, RolesNoted, NEW u \in Users, ~NeverUsed(u)
  PROVE  ~NeverUsed(u)'
<1>1. clock # None
  BY StoreAssumption DEF IInv, StoresTyped
<1>2. CASE Exists(u)
  <2>1. user[u].role \in Roles
    BY <1>2 DEF IInv, StoresTyped, Exists, UserRow
  <2> QED
    BY <1>1, <1>2, <2>1 DEF RolesNoted, NeverUsed, Exists
<1>3. CASE ~Exists(u)
  <2>1. PICK r \in Roles : hist.lost[u][r] # None
    BY <1>3 DEF NeverUsed
  <2>2. hist'.lost[u][r] # None
    BY <1>1, <2>1 DEF RolesNoted
  <2> QED
    BY <2>2 DEF NeverUsed
<1> QED
  BY <1>2, <1>3

(* What a step may make of the requests KnownUsers speaks of.              *)
LEMMA KnownByParts ==
  ASSUME IInv, KnownUsers, RolesNoted, InvitesKept,
         \A p \in Requests : req'[p].op \in {"update", "resend"} =>
           req[p].op = req'[p].op /\ req'[p].user = req[p].user
  PROVE  KnownUsers'
<1>1. ASSUME NEW p \in Requests, req'[p].op \in {"update", "resend"}
      PROVE  ~NeverUsed(req[p].user)'
  <2>1. PICK u : u = req'[p].user
    OBVIOUS
  <2>2. /\ req[p].op \in {"update", "resend"} /\ req[p].user = u
        /\ u \in Users /\ ~NeverUsed(u)
    BY <1>1, <2>1, UserOf DEF KnownUsers
  <2>3. ~NeverUsed(u)'
    BY <2>2, UsedStays
  <2> QED
    BY <2>1, <2>3 DEF NeverUsed, Exists
<1>2. ASSUME NEW p \in Requests, NEW q \in Requests,
             Doing(p, "invite", "create")', req'[q].op \in {"update", "resend"}
      PROVE  req'[q].user # req'[p].user
  BY <1>2 DEF KnownUsers, InvitesKept, Doing
<1> QED
  BY <1>1, <1>2 DEF KnownUsers

LEMMA KnownStep ==
  ASSUME IInv, RolesKnown, KnownUsers, NEW q \in Requests, Acting(q)
  PROVE  KnownUsers'
<1>1. RolesNoted
  BY SessionsNote, OthersNote DEF Acting, RolesKnown
<1>2. req \in [Requests -> Requested \cup {Idle}] /\ Idle.op = "idle"
  BY DEF IInv, RequestsOK, Idle
<1>3. CASE \E u \in Users, e \in Emails, r \in AskedRoles, g \in Groups \cup {None} :
             InviteCheck(q, u, e, r, g)
  <2>1. PICK u \in Users, e \in Emails, r \in AskedRoles, g \in Groups \cup {None} :
               InviteCheck(q, u, e, r, g)
    BY <1>3
  <2>2. /\ NeverUsed(u) /\ user' = user /\ hist' = hist
        /\ req'[q].op = "invite" /\ req'[q].user = u
        /\ \A p \in Requests \ {q} : req'[p] = req[p]
    BY <1>2, <2>1 DEF InviteCheck, Begin, tables
  <2> QED
    BY <2>2 DEF KnownUsers, Doing, NeverUsed, Exists
<1>4. CASE \/ \E u \in Users, p \in Patches : UpdateRead(q, u, p)
           \/ \E u \in Users : ResendRead(q, u)
  <2>1. PICK u \in Users : (\E p \in Patches : UpdateRead(q, u, p)) \/ ResendRead(q, u)
    BY <1>4
  <2>2. /\ Exists(u) /\ user' = user
        /\ req'[q].op \in {"update", "resend"} /\ req'[q].user = u
        /\ \A p \in Requests \ {q} : req'[p] = req[p]
    BY <1>2, <2>1 DEF UpdateRead, ResendRead, Begin, tables
  <2>3. ASSUME NEW p \in Requests, req'[p].op \in {"update", "resend"}
        PROVE  ~NeverUsed(req[p].user)'
    <3>1. CASE p = q
      BY <2>2, <3>1 DEF NeverUsed, Exists
    <3>2. CASE p # q
      <4>1. PICK v : v = req[p].user
        OBVIOUS
      <4>2. req'[p] = req[p] /\ v \in Users /\ ~NeverUsed(v)
        BY <2>2, <2>3, <3>2, <4>1, UserOf DEF KnownUsers
      <4>3. ~NeverUsed(v)'
        BY <1>1, <4>2, UsedStays
      <4> QED
        BY <4>1, <4>2, <4>3 DEF NeverUsed, Exists
    <3> QED
      BY <3>1, <3>2
  <2>4. ASSUME NEW p \in Requests, NEW x \in Requests,
               Doing(p, "invite", "create")', req'[x].op \in {"update", "resend"}
        PROVE  req'[x].user # req'[p].user
    <3>1. p # q /\ Doing(p, "invite", "create") /\ req'[p] = req[p]
      BY <2>2, <2>4 DEF Doing
    <3>2. ~Exists(req[p].user)
      BY <3>1 DEF RolesKnown, FreshUsers
    <3> QED
      BY <2>2, <2>4, <3>1, <3>2 DEF KnownUsers
  <2> QED
    BY <2>3, <2>4 DEF KnownUsers
<1>5. CASE SessionStep(q) \/ EmailChangeStep(q) \/ Die(q)
  <2>1. /\ req'[q].op \notin {"invite", "update", "resend"}
        /\ \A p \in Requests \ {q} : req'[p] = req[p]
    BY <1>2, <1>5, SessionKinds, EmailKinds, EndOf DEF Die
  <2>2. InvitesKept
    BY <2>1 DEF InvitesKept
  <2> QED
    BY <1>1, <2>1, <2>2, KnownByParts
<1>6. CASE \/ UpdateWrite(q) \/ UpdateSync(q) \/ DeleteWrite(q)
           \/ \E u \in Users : DeleteRead(q, u)
  <2>1. /\ req'[q].op # "invite" /\ req'[q].op # "resend"
        /\ \A p \in Requests \ {q} : req'[p] = req[p]
    BY <1>6, AdminKinds DEF UserAdminStep
  <2>2. req'[q].op = "update" => req[q].op = "update" /\ req'[q].user = req[q].user
    <3>1. \/ End(q)
          \/ Doing(q, "update", "write") /\ \E at : Goto(q, at)
          \/ req'[q].op = "delete"
      BY <1>2, <1>6 DEF UpdateWrite, UpdateSync, DeleteWrite, DeleteRead, Begin
    <3> QED
      BY <1>2, <3>1, EndOf, GotoOf DEF Doing, Moved
  <2>3. InvitesKept
    BY <2>1 DEF InvitesKept
  <2> QED
    BY <1>1, <2>1, <2>2, <2>3, KnownByParts
<1>7. CASE \/ InviteCreate(q) \/ ResendCreate(q) \/ InviteUndo(q) \/ ResendUndo(q)
           \/ ResendRevoke(q) \/ AcceptName(q) \/ AcceptClaim(q)
           \/ \E delivered, ok \in BOOLEAN : SendMail(q, delivered, ok)
           \/ \E i \in Links, n \in Names : AcceptRead(q, i, n)
  <2>1. \A p \in Requests \ {q} : req'[p] = req[p]
    BY <1>7, InvitationKinds DEF InvitationStep
  <2>2. \/ End(q) \/ req'[q].op = "accept"
        \/ /\ req[q].op \in {"invite", "resend", "accept"}
           /\ \/ \E at : at # "create" /\ Goto(q, at)
              \/ /\ req[q].op \in {"invite", "resend"}
                 /\ \E i : Linked(q, i)
    <3>1. CASE InviteCreate(q) \/ ResendCreate(q)
      BY <3>1 DEF InviteCreate, ResendCreate, Linked, Doing
    <3>2. CASE \E i \in Links, n \in Names : AcceptRead(q, i, n)
      BY <1>2, <3>2 DEF AcceptRead, Begin
    <3>3. CASE \E delivered, ok \in BOOLEAN : SendMail(q, delivered, ok)
      BY <3>3 DEF SendMail
    <3>4. CASE \/ InviteUndo(q) \/ ResendUndo(q) \/ ResendRevoke(q) \/ AcceptName(q)
               \/ AcceptClaim(q)
      BY <3>4 DEF InviteUndo, ResendUndo, ResendRevoke, AcceptName, AcceptClaim, Doing
    <3> QED
      BY <1>7, <3>1, <3>2, <3>3, <3>4
  <2>3. \/ req'[q].op \in {"idle", "accept"}
        \/ Moved(q) /\ req'[q].at # "create"
    BY <1>2, <2>2, EndOf, GotoOf, LinkGiven
  <2>4. InvitesKept
    BY <2>1, <2>3 DEF InvitesKept, Moved
  <2> QED
    BY <1>1, <2>1, <2>3, <2>4, KnownByParts DEF Moved
<1> QED
  BY <1>3, <1>4, <1>5, <1>6, <1>7 DEF Acting, InvitationStep, UserAdminStep
-------------------------------------------------------------------------------
(* What the steps make of the rows of the User table.                      *)
RowKept(u) ==
  user'[u] # None =>
    /\ Exists(u)
    /\ user'[u].role = user[u].role /\ user'[u].group = user[u].group
    /\ user'[u].managed = user[u].managed
StaysInactive(u) ==
  user'[u] # None /\ user'[u].active => Exists(u) /\ user[u].active

LEMMA RowsAlone ==
  ASSUME user' = user, NEW u \in Users PROVE RowKept(u) /\ StaysInactive(u)
BY DEF RowKept, StaysInactive, Exists

LEMMA RowsGone ==
  ASSUME IInv, NEW v, DeleteUser(v), NEW u \in Users
  PROVE  RowKept(u) /\ StaysInactive(u)
<1>1. user'[u] # None => user'[u] = user[u]
  BY DEF DeleteUser, IInv, StoresTyped
<1> QED
  BY <1>1 DEF RowKept, StaysInactive, Exists

LEMMA SessionRows ==
  ASSUME IInv, NEW q \in Requests, SessionStep(q), NEW u \in Users
  PROVE  RowKept(u) /\ StaysInactive(u)
<1>1. user \in [Users -> UserRow \cup {None}]
  BY DEF IInv, StoresTyped
<1>2. CASE LoginFail(q) \/ LoginClear(q)
  <2>1. \/ user' = user
        \/ \E n, until : /\ Exists(req[q].user)
                         /\ user' = [user EXCEPT ![req[q].user].failed = n,
                                                 ![req[q].user].lockedUntil = until]
    BY <1>2 DEF LoginFail, LoginClear
  <2>2. CASE \E n, until : /\ Exists(req[q].user)
                           /\ user' = [user EXCEPT ![req[q].user].failed = n,
                                                   ![req[q].user].lockedUntil = until]
    <3>1. PICK n, until : /\ Exists(req[q].user)
                          /\ user' = [user EXCEPT ![req[q].user].failed = n,
                                                  ![req[q].user].lockedUntil = until]
      BY <2>2
    <3>2. CASE u # req[q].user
      BY <1>1, <3>1, <3>2 DEF RowKept, StaysInactive, Exists
    <3>3. CASE u = req[q].user
      <4>1. /\ Exists(u) /\ user[u] \in UserRow
            /\ user'[u] = [user[u] EXCEPT !.failed = n, !.lockedUntil = until]
        BY <1>1, <3>1, <3>3 DEF Exists
      <4>2. /\ user'[u].role = user[u].role /\ user'[u].group = user[u].group
            /\ user'[u].managed = user[u].managed /\ user'[u].active = user[u].active
        BY <4>1 DEF UserRow
      <4> QED
        BY <4>1, <4>2 DEF RowKept, StaysInactive
    <3> QED
      BY <3>2, <3>3
  <2> QED
    BY <2>1, <2>2, RowsAlone
<1>3. CASE ~(LoginFail(q) \/ LoginClear(q))
  <2>1. user' = user
    BY <1>3 DEF SessionStep, LoginRead, LoginSession, LoginTokens, RefreshRead,
                RefreshSession, RefreshCreate, RefreshRevoke, RefreshTouch,
                LogoutRead, LogoutRevoke, LogoutDelete, tables
  <2> QED
    BY <2>1, RowsAlone
<1> QED
  BY <1>2, <1>3

LEMMA EmailRows ==
  ASSUME IInv, NEW q \in Requests, EmailChangeStep(q), NEW u \in Users
  PROVE  RowKept(u) /\ StaysInactive(u)
<1>1. user \in [Users -> UserRow \cup {None}]
  BY DEF IInv, StoresTyped
<1>2. CASE user' = user
  BY <1>2, RowsAlone
<1>3. CASE user' # user
  <2>1. /\ ConfirmClaim(q) /\ user' = [user EXCEPT ![req[q].user].email = req[q].email]
        /\ Confirmable(req[q].link, req[q].now)
    BY <1>3 DEF EmailChangeStep, ChangeRead, ChangeTaken, ChangeDelete, ChangeCreate,
                ConfirmRead, ConfirmTaken, ConfirmBurn, ConfirmClaim, tables
  <2>2. req[q] \in ConfirmReq /\ Sound(q)
    BY <2>1, FieldsOf DEF ConfirmClaim, Doing, IInv, RequestsOK
  <2>3. Exists(req[q].user)
    BY <2>1, <2>2 DEF Confirmable, Sound, ConfirmSound, ConfirmReq, IInv, Owned
  <2>4. CASE u # req[q].user
    BY <1>1, <2>1, <2>4 DEF RowKept, StaysInactive, Exists
  <2>5. CASE u = req[q].user
    <3>1. /\ Exists(u) /\ user[u] \in UserRow
          /\ user'[u] = [user[u] EXCEPT !.email = req[q].email]
      BY <1>1, <2>1, <2>3, <2>5 DEF Exists
    <3>2. /\ user'[u].role = user[u].role /\ user'[u].group = user[u].group
          /\ user'[u].managed = user[u].managed /\ user'[u].active = user[u].active
      BY <3>1 DEF UserRow
    <3> QED
      BY <3>1, <3>2 DEF RowKept, StaysInactive
  <2> QED
    BY <2>4, <2>5
<1> QED
  BY <1>2, <1>3

(* The account that is activated is the one of the invitation.             *)
LEMMA AcceptRows ==
  ASSUME IInv, NEW q \in Requests, AcceptClaim(q), NEW u \in Users
  PROVE  RowKept(u) /\ (u # req[q].user \/ user' = user => StaysInactive(u))
<1>1. user \in [Users -> UserRow \cup {None}]
  BY DEF IInv, StoresTyped
<1>2. CASE user' = user
  BY <1>2, RowsAlone
<1>3. CASE user' # user
  <2> DEFINE v == req[q].user
  <2>1. /\ user' = [user EXCEPT ![v] = [@ EXCEPT !.name = req[q].name, !.active = TRUE,
                                                !.failed = 0, !.lockedUntil = None]]
        /\ ClaimInvitation(req[q].link, req[q].now)
    BY <1>3 DEF AcceptClaim
  <2>2. req[q] \in AcceptReq /\ Sound(q)
    BY FieldsOf DEF AcceptClaim, Doing, IInv, RequestsOK
  <2>3. Exists(v)
    BY <2>1, <2>2 DEF ClaimInvitation, ActiveInvitation, Pending, Sound, AcceptSound,
                      AcceptReq, IInv, Owned
  <2>4. CASE u # v
    BY <1>1, <2>1, <2>4 DEF RowKept, StaysInactive, Exists
  <2>5. CASE u = v
    <3>1. /\ Exists(u) /\ user[u] \in UserRow
          /\ user'[u] = [user[u] EXCEPT !.name = req[q].name, !.active = TRUE,
                                        !.failed = 0, !.lockedUntil = None]
      BY <1>1, <2>1, <2>3, <2>5 DEF Exists
    <3>2. /\ user'[u].role = user[u].role /\ user'[u].group = user[u].group
          /\ user'[u].managed = user[u].managed
      BY <3>1 DEF UserRow
    <3> QED
      BY <1>3, <2>5, <3>1, <3>2 DEF RowKept
  <2> QED
    BY <2>4, <2>5
<1> QED
  BY <1>2, <1>3

LEMMA InvitationRows ==
  ASSUME IInv, NEW q \in Requests, InvitationStep(q), NEW u \in Users,
         ~AcceptClaim(q), ~InviteCreate(q) \/ u # req[q].user
  PROVE  RowKept(u) /\ StaysInactive(u)
<1>1. CASE InviteUndo(q)
  BY <1>1, RowsGone DEF InviteUndo
<1>2. CASE InviteCreate(q)
  <2>1. user \in [Users -> UserRow \cup {None}]
    BY DEF IInv, StoresTyped
  <2>2. user' = user \/ \E row : user' = [user EXCEPT ![req[q].user] = row]
    BY <1>2 DEF InviteCreate
  <2>3. user'[u] = user[u]
    BY <1>2, <2>1, <2>2
  <2> QED
    BY <2>3 DEF RowKept, StaysInactive, Exists
<1>3. CASE ~InviteUndo(q) /\ ~InviteCreate(q)
  <2>1. user' = user
    BY <1>3 DEF InvitationStep, InviteCheck, ResendRead, ResendCreate, SendMail, ResendUndo,
                ResendRevoke, AcceptRead, AcceptName, tables
  <2> QED
    BY <2>1, RowsAlone
<1> QED
  BY <1>1, <1>2, <1>3

(* An update writes role and group of its user, and then the factories.    *)
LEMMA AdminRows ==
  ASSUME IInv, NEW q \in Requests, UserAdminStep(q), NEW u \in Users
  PROVE  /\ StaysInactive(u)
         /\ (~UpdateWrite(q) /\ ~UpdateSync(q)) \/ u # req[q].user => RowKept(u)
<1>1. user \in [Users -> UserRow \cup {None}]
  BY DEF IInv, StoresTyped
<1>2. CASE user' = user
  BY <1>2, RowsAlone
<1>3. CASE DeleteWrite(q)
  BY <1>3, RowsGone DEF DeleteWrite
<1>4. CASE user' # user /\ ~DeleteWrite(q)
  <2>1. PICK r, g, e, m :
          /\ UpdateWrite(q) \/ UpdateSync(q)
          /\ Exists(req[q].user)
          /\ \/ user' = [user EXCEPT ![req[q].user].role = r,
                                     ![req[q].user].group = g,
                                     ![req[q].user].email = e]
             \/ user' = [user EXCEPT ![req[q].user].managed = m]
    <3>1. CASE UpdateWrite(q)
      <4> DEFINE r == Given(req[q].patch.role, user[req[q].user].role)
                 g == Given(req[q].patch.group, user[req[q].user].group)
                 e == Given(req[q].patch.email, user[req[q].user].email)
      <4>1. /\ Exists(req[q].user)
            /\ user' = [user EXCEPT ![req[q].user].role = r,
                                    ![req[q].user].group = g,
                                    ![req[q].user].email = e]
        BY <1>4, <3>1 DEF UpdateWrite
      <4> HIDE DEF r, g, e
      <4> QED
        BY <3>1, <4>1
    <3>2. CASE ~UpdateWrite(q)
      <4>1. UpdateSync(q)
        BY <1>4, <3>2 DEF UserAdminStep, UpdateRead, DeleteRead, tables
      <4> QED
        BY <1>4, <4>1 DEF UpdateSync
    <3> QED
      BY <3>1, <3>2
  <2>2. CASE u # req[q].user
    BY <1>1, <2>1, <2>2 DEF RowKept, StaysInactive, Exists
  <2>3. CASE u = req[q].user
    <3>1. /\ Exists(u) /\ user[u] \in UserRow
          /\ \/ user'[u] = [user[u] EXCEPT !.role = r, !.group = g, !.email = e]
             \/ user'[u] = [user[u] EXCEPT !.managed = m]
      BY <1>1, <2>1, <2>3 DEF Exists
    <3>2. user'[u].active = user[u].active
      BY <3>1 DEF UserRow
    <3> QED
      BY <2>1, <2>3, <3>1, <3>2 DEF StaysInactive
  <2> QED
    BY <2>2, <2>3
<1> QED
  BY <1>2, <1>3, <1>4

-------------------------------------------------------------------------------
(* ScopeMatchesRole: while an update is under way for a user it is the     *)
(* only one; what it has read is what the row holds until it writes, and   *)
(* the row holds what it wrote until it writes the factories.              *)
Match(u) ==
  user[u].managed = IF user[u].role = "ADMIN" THEN FactoriesOf(user[u].group) ELSE {}

Updating(q, u) ==
  /\ \A p \in Requests \ {q} : ~About("update", p, u)
  /\ req[q].at = "write" =>
       req[q].role = user[u].role /\ req[q].group = user[u].group /\ Match(u)
  /\ req[q].at = "sync" =>
       /\ user[u].role = Given(req[q].patch.role, req[q].role)
       /\ user[u].group = Given(req[q].patch.group, req[q].group)

ScopeOf(u) ==
  Exists(u) /\ <<"update", u>> \notin hist.torn =>
    /\ (\A q \in Requests : ~About("update", q, u)) => Match(u)
    /\ \A q \in Requests : About("update", q, u) => Updating(q, u)

LEMMA ScopeKept ==
  ASSUME NEW u \in Users, ScopeOf(u), RowKept(u), AloneFor("update", u),
         hist.torn \subseteq hist'.torn
  PROVE  ScopeOf(u)'
<1> SUFFICES ASSUME user'[u] # None, <<"update", u>> \notin hist'.torn
             PROVE  /\ (\A q \in Requests : ~About("update", q, u)') => Match(u)'
                    /\ \A q \in Requests : About("update", q, u)' => Updating(q, u)'
  BY DEF ScopeOf, Exists
<1>1. /\ Exists(u) /\ <<"update", u>> \notin hist.torn
      /\ user'[u].role = user[u].role /\ user'[u].group = user[u].group
      /\ user'[u].managed = user[u].managed
  BY DEF RowKept
<1>2. Match(u)' <=> Match(u)
  BY <1>1 DEF Match
<1>3. \A q \in Requests : About("update", q, u)' <=> About("update", q, u)
  BY DEF AloneFor, About
<1>4. \A q \in Requests : About("update", q, u)' => req'[q] = req[q]
  BY DEF AloneFor, About
<1> QED
  BY <1>1, <1>2, <1>3, <1>4 DEF ScopeOf, Updating

(* A step of another kind, or for another user, is none of its business.   *)
LEMMA AloneOf ==
  ASSUME NEW op, NEW u, NEW q \in Requests,
         \A p \in Requests \ {q} : req'[p] = req[p],
         req[q].op # op \/ req[q].user # u,
         req'[q].op # op \/ req'[q].user # u
  PROVE  AloneFor(op, u)
BY DEF AloneFor, About

LEMMA UpdateReadScope ==
  ASSUME IInv, NEW q \in Requests, NEW v \in Users, NEW patch, UpdateRead(q, v, patch),
         NEW u \in Users, ScopeOf(u), hist.torn \subseteq hist'.torn
  PROVE  ScopeOf(u)'
<1>1. /\ req[q] = Idle /\ user' = user /\ \A p \in Requests \ {q} : req'[p] = req[p]
      /\ req'[q] = [op |-> "update", at |-> "write", user |-> v, patch |-> patch,
                    role |-> user[v].role, group |-> user[v].group, now |-> clock]
  BY DEF UpdateRead, Begin, IInv, RequestsOK, tables
<1>2. /\ req[q].op = "idle" /\ req'[q].op = "update" /\ req'[q].user = v
      /\ req'[q].at = "write" /\ req'[q].role = user[v].role /\ req'[q].group = user[v].group
  BY <1>1 DEF Idle
<1>3. CASE u # v
  BY <1>1, <1>2, <1>3, AloneOf, RowsAlone, ScopeKept
<1>4. CASE u = v /\ Busy("update", u)
  <2>1. hist' = Tear("update", u)
    BY <1>4 DEF UpdateRead
  <2>2. <<"update", u>> \in hist'.torn
    BY <2>1 DEF Tear, IInv, StoresTyped, Histories
  <2> QED
    BY <2>2 DEF ScopeOf
<1>5. CASE u = v /\ ~Busy("update", u)
  <2> SUFFICES ASSUME Exists(u), <<"update", u>> \notin hist.torn
               PROVE  \A p \in Requests : About("update", p, u)' => Updating(p, u)' /\ p = q
    BY <1>1, <1>2, <1>5 DEF ScopeOf, Exists, About
  <2>1. Match(u) /\ \A p \in Requests : ~About("update", p, u)
    BY <1>5 DEF Busy, ScopeOf, About
  <2>2. \A p \in Requests \ {q} : ~About("update", p, u)'
    BY <1>1, <2>1 DEF About
  <2>3. Updating(q, u)'
    BY <1>1, <1>2, <1>5, <2>1, <2>2 DEF Updating, Match
  <2> QED
    BY <2>2, <2>3
<1> QED
  BY <1>3, <1>4, <1>5

(* The row takes what the patch gives, and keeps the rest.                 *)
LEMMA UpdateWritten ==
  ASSUME IInv, NEW q \in Requests, UpdateWrite(q), NEW u \in Users, u = req[q].user,
         Exists(u), ~(req'[q] = Idle /\ user' = user)
  PROVE  /\ user'[u].role = Given(req[q].patch.role, user[u].role)
         /\ user'[u].group = Given(req[q].patch.group, user[u].group)
         /\ user'[u].managed = user[u].managed
         /\ IF NeedsSync(req[q]) THEN Goto(q, "sync") ELSE End(q)
<1> DEFINE r == Given(req[q].patch.role, user[u].role)
           g == Given(req[q].patch.group, user[u].group)
           e == Given(req[q].patch.email, user[u].email)
<1>1. End(q) => req'[q] = Idle
  BY EndOf
<1>2. /\ user' = [user EXCEPT ![u].role = r, ![u].group = g, ![u].email = e]
      /\ IF NeedsSync(req[q]) THEN Goto(q, "sync") ELSE End(q)
  BY <1>1 DEF UpdateWrite
<1> HIDE DEF r, g, e
<1>3. user[u] \in UserRow /\ user'[u] = [user[u] EXCEPT !.role = r, !.group = g, !.email = e]
  BY <1>2 DEF IInv, StoresTyped, Exists
<1>4. user'[u].role = r /\ user'[u].group = g /\ user'[u].managed = user[u].managed
  BY <1>3 DEF UserRow
<1> QED
  BY <1>2, <1>4 DEF r, g

LEMMA UpdateWriteScope ==
  ASSUME IInv, NEW q \in Requests, UpdateWrite(q), NEW u \in Users, ScopeOf(u),
         hist.torn \subseteq hist'.torn
  PROVE  ScopeOf(u)'
<1>1. /\ req[q] \in UpdateReq /\ req[q].op = "update" /\ req[q].at = "write"
      /\ Idle.op = "idle"
  BY FieldsOf DEF UpdateWrite, Doing, IInv, RequestsOK, Idle
<1>2. /\ \A p \in Requests \ {q} : req'[p] = req[p]
      /\ req'[q] = Idle \/ req'[q] = [req[q] EXCEPT !.at = "sync"]
  <2>1. End(q) \/ Goto(q, "sync")
    BY DEF UpdateWrite
  <2> QED
    BY <2>1 DEF End, Goto, IInv, RequestsOK
<1>3. CASE u # req[q].user
  <2>1. req'[q] = Idle \/ req'[q].user = req[q].user
    BY <1>1, <1>2 DEF UpdateReq
  <2>2. AloneFor("update", u)
    BY <1>1, <1>2, <1>3, <2>1, AloneOf
  <2>3. RowKept(u)
    BY <1>3, AdminRows DEF UserAdminStep
  <2> QED
    BY <2>2, <2>3, ScopeKept
<1>4. CASE u = req[q].user
  <2> SUFFICES ASSUME user'[u] # None, <<"update", u>> \notin hist'.torn
               PROVE  /\ (\A p \in Requests : ~About("update", p, u)') => Match(u)'
                      /\ \A p \in Requests : About("update", p, u)' => Updating(p, u)'
    BY DEF ScopeOf, Exists
  <2>1. Exists(u)
    BY <1>4 DEF UpdateWrite, Exists
  <2>2. Updating(q, u) /\ <<"update", u>> \notin hist.torn
    BY <1>1, <1>4, <2>1 DEF ScopeOf, About
  <2>3. \A p \in Requests \ {q} : ~About("update", p, u)'
    BY <1>2, <2>2 DEF Updating, About
  <2>4. CASE req'[q] = Idle /\ user' = user
    <3>1. Match(u)' /\ ~About("update", q, u)'
      BY <1>1, <2>2, <2>4 DEF Updating, Match, About
    <3> QED
      BY <2>3, <3>1
  <2>5. CASE ~(req'[q] = Idle /\ user' = user)
    <3> DEFINE patch == req[q].patch
    <3>1. /\ user'[u].role = Given(patch.role, req[q].role)
          /\ user'[u].group = Given(patch.group, req[q].group)
          /\ user'[u].managed = user[u].managed
          /\ IF NeedsSync(req[q]) THEN Goto(q, "sync") ELSE End(q)
          /\ req[q].role = user[u].role /\ req[q].group = user[u].group /\ Match(u)
      BY <1>1, <1>4, <2>1, <2>2, <2>5, UpdateWritten DEF Updating
    <3>2. CASE NeedsSync(req[q])
      <4>1. /\ req'[q].op = "update" /\ req'[q].at = "sync" /\ req'[q].patch = patch
            /\ req'[q].role = req[q].role /\ req'[q].group = req[q].group
            /\ req'[q].user = u
        <5>1. req'[q] = [req[q] EXCEPT !.at = "sync"]
          BY <3>1, <3>2 DEF Goto, IInv, RequestsOK
        <5> QED
          BY <1>1, <1>4, <5>1 DEF UpdateReq
      <4>2. Updating(q, u)'
        BY <2>3, <3>1, <4>1 DEF Updating
      <4> QED
        BY <2>3, <4>1, <4>2 DEF About
    <3>3. CASE ~NeedsSync(req[q])
      <4>1. req'[q] = Idle
        BY <3>1, <3>3, EndOf
      <4>2. Match(u)'
        <5>1. \/ user'[u].role = user[u].role /\ user'[u].group = user[u].group
              \/ user[u].role # "ADMIN" /\ user'[u].role # "ADMIN"
          BY <3>1, <3>3 DEF NeedsSync, Given
        <5> QED
          BY <3>1, <5>1 DEF Match
      <4> QED
        BY <1>1, <2>3, <4>1, <4>2 DEF About
    <3> QED
      BY <3>2, <3>3
  <2> QED
    BY <2>4, <2>5
<1> QED
  BY <1>3, <1>4

LEMMA UpdateSyncScope ==
  ASSUME IInv, NEW q \in Requests, UpdateSync(q), NEW u \in Users, ScopeOf(u),
         hist.torn \subseteq hist'.torn
  PROVE  ScopeOf(u)'
<1>1. /\ req[q].op = "update" /\ req[q].at = "sync" /\ req'[q] = Idle /\ Idle.op = "idle"
      /\ \A p \in Requests \ {q} : req'[p] = req[p]
  BY EndOf DEF UpdateSync, Doing, Idle
<1>2. CASE u # req[q].user
  <2>1. AloneFor("update", u)
    BY <1>1, <1>2, AloneOf
  <2>2. RowKept(u)
    BY <1>2, AdminRows DEF UserAdminStep
  <2> QED
    BY <2>1, <2>2, ScopeKept
<1>3. CASE u = req[q].user
  <2> DEFINE role == Given(req[q].patch.role, req[q].role)
             group == Given(req[q].patch.group, req[q].group)
             managed == IF role # "ADMIN" THEN {} ELSE FactoriesOf(group)
             throws == role = "ADMIN" /\ managed = {}
  <2>1. /\ user' = IF throws \/ ~Exists(u) THEN user
                    ELSE [user EXCEPT ![u].managed = managed]
        /\ hist' = IF throws THEN Tear("update", u) ELSE hist
    BY <1>3 DEF UpdateSync
  <2>2. CASE throws
    <3>1. <<"update", u>> \in hist'.torn
      BY <2>1, <2>2 DEF Tear, IInv, StoresTyped, Histories
    <3> QED
      BY <3>1 DEF ScopeOf
  <2>3. CASE ~throws
    <3> HIDE DEF throws, managed
    <3> SUFFICES ASSUME user'[u] # None, <<"update", u>> \notin hist'.torn
                 PROVE  /\ Match(u)'
                        /\ \A p \in Requests : ~About("update", p, u)'
      BY DEF ScopeOf, Exists
    <3>1. Exists(u)
      BY <2>1, <2>3 DEF Exists
    <3>2. Updating(q, u)
      BY <1>1, <1>3, <3>1 DEF ScopeOf, About
    <3>3. user[u] \in UserRow /\ user'[u] = [user[u] EXCEPT !.managed = managed]
      BY <2>1, <2>3, <3>1 DEF IInv, StoresTyped, Exists
    <3>4. /\ user'[u].managed = managed
          /\ user'[u].role = user[u].role /\ user'[u].group = user[u].group
      BY <3>3 DEF UserRow
    <3>5. user[u].role = role /\ user[u].group = group
      BY <1>1, <3>2 DEF Updating
    <3>6. Match(u)'
      BY <3>4, <3>5 DEF Match, managed
    <3> QED
      BY <1>1, <3>2, <3>6 DEF Updating, About
  <2> QED
    BY <2>2, <2>3
<1> QED
  BY <1>2, <1>3

(* A new account has the factories that createUserInvitation connects.     *)
LEMMA InviteCreateScope ==
  ASSUME IInv, KnownUsers, NEW q \in Requests, InviteCreate(q), NEW u \in Users,
         ScopeOf(u), hist.torn \subseteq hist'.torn
  PROVE  ScopeOf(u)'
<1>1. AloneFor("update", u)
  BY InvitationKinds, AloneOf DEF InvitationStep
<1>2. CASE u # req[q].user \/ user' = user
  <2>1. RowKept(u)
    BY <1>2, InvitationRows, RowsAlone DEF InvitationStep, InviteCreate, AcceptClaim, Doing
  <2> QED
    BY <1>1, <2>1, ScopeKept
<1>3. CASE u = req[q].user /\ user' # user
  <2> DEFINE r == req[q]
             m == IF r.role = "ADMIN" THEN FactoriesOf(r.group) ELSE {}
             row == [name |-> None, email |-> r.email, active |-> FALSE,
                     role |-> r.role, group |-> r.group, failed |-> 0,
                     lockedUntil |-> None, managed |-> m]
  <2>1. user'[u] = row
    BY <1>3 DEF InviteCreate, IInv, StoresTyped
  <2>2. user'[u].role = r.role /\ user'[u].group = r.group /\ user'[u].managed = m
    BY <2>1
  <2>3. Match(u)'
    BY <2>2 DEF Match
  <2>4. \A p \in Requests : ~About("update", p, u)
    BY <1>3 DEF KnownUsers, InviteCreate, About
  <2>5. \A p \in Requests : ~About("update", p, u)'
    BY <1>1, <2>4 DEF AloneFor, About
  <2> QED
    BY <2>3, <2>5 DEF ScopeOf
<1> QED
  BY <1>2, <1>3

LEMMA ScopeStep ==
  ASSUME IInv, KnownUsers, NEW q \in Requests, Acting(q), NEW u \in Users, ScopeOf(u)
  PROVE  ScopeOf(u)'
<1>1. hist.torn \subseteq hist'.torn
  BY TornGrows
<1>2. CASE SessionStep(q) \/ EmailChangeStep(q)
  <2>1. AloneFor("update", u) /\ RowKept(u)
    BY <1>2, SessionKinds, EmailKinds, SessionRows, EmailRows, AloneOf
  <2> QED
    BY <1>1, <2>1, ScopeKept
<1>3. CASE InvitationStep(q) /\ ~InviteCreate(q)
  <2>1. AloneFor("update", u) /\ RowKept(u)
    BY <1>3, InvitationKinds, InvitationRows, AcceptRows, AloneOf
  <2> QED
    BY <1>1, <2>1, ScopeKept
<1>4. CASE InviteCreate(q)
  BY <1>1, <1>4, InviteCreateScope
<1>5. CASE DeleteWrite(q) \/ \E v \in Users : DeleteRead(q, v)
  <2>1. req[q].op # "update" /\ req'[q].op # "update"
    <3>1. Idle.op = "idle"
      BY DEF Idle
    <3> QED
      BY <1>5, <3>1, EndOf DEF DeleteWrite, DeleteRead, Begin, Doing, IInv, RequestsOK
  <2>2. \A p \in Requests \ {q} : req'[p] = req[p]
    BY <1>5, AdminKinds DEF UserAdminStep
  <2>3. RowKept(u)
    <3>1. CASE DeleteWrite(q)
      BY <3>1, RowsGone DEF DeleteWrite
    <3>2. CASE \E v \in Users : DeleteRead(q, v)
      BY <3>2, RowsAlone DEF DeleteRead, tables
    <3> QED
      BY <1>5, <3>1, <3>2
  <2> QED
    BY <1>1, <2>1, <2>2, <2>3, AloneOf, ScopeKept
<1>6. CASE \E v \in Users, p \in Patches : UpdateRead(q, v, p)
  BY <1>1, <1>6, UpdateReadScope
<1>7. CASE UpdateWrite(q)
  BY <1>1, <1>7, UpdateWriteScope
<1>8. CASE UpdateSync(q)
  BY <1>1, <1>8, UpdateSyncScope
<1>9. CASE Die(q)
  <2>1. /\ user' = user /\ req'[q].op = "idle"
        /\ \A p \in Requests \ {q} : req'[p] = req[p]
    BY <1>9, EndOf DEF Die, tables, Idle
  <2>2. CASE About("update", q, u)
    <3>1. hist' = Tear("update", u)
      BY <1>9, <2>2 DEF Die, About
    <3>2. <<"update", u>> \in hist'.torn
      BY <3>1 DEF Tear, IInv, StoresTyped, Histories
    <3> QED
      BY <3>2 DEF ScopeOf
  <2>3. CASE ~About("update", q, u)
    BY <1>1, <2>1, <2>3, AloneOf, RowsAlone, ScopeKept DEF About
  <2> QED
    BY <2>2, <2>3
<1> QED
  BY <1>2, <1>3, <1>4, <1>5, <1>6, <1>7, <1>8, <1>9 DEF Acting, UserAdminStep

(* Requests, users and links are not changed by a tick, nor by a stutter.  *)
Still == UNCHANGED <<tables, req, hist>>

LEMMA StepKinds ==
  [Next]_vars => Still \/ \E q \in Requests : Acting(q)
BY DEF Next, Acting, Still, Tick, vars, tables

LEMMA UsersAlwaysKnown == Spec => [](IInv /\ RolesKnown /\ KnownUsers)
<1>1. Init => KnownUsers
  BY DEF Init, KnownUsers, Idle, Doing
<1>2. IInv /\ RolesKnown /\ KnownUsers /\ [Next]_vars => KnownUsers'
  <2>1. KnownUsers /\ Still => KnownUsers'
    BY DEF KnownUsers, Still, tables, NeverUsed, Exists, Doing
  <2> QED
    BY <2>1, StepKinds, KnownStep
<1> QED
  BY <1>1, <1>2, RolesAlwaysKnown, PTL DEF Spec

(* An ADMIN manages the factories of its group, and nobody else manages    *)
(* any, for any users, groups, factories and sequences of requests, when   *)
(* that is how the accounts were set up: the update that is under way for  *)
(* a user alone gives the factories of what it writes, and needs no sync   *)
(* only when they stay the same (user-service.ts:181-195).                 *)
THEOREM ScopesMatchRoles ==
  ASSUME \A u \in Users : Seed[u] # None =>
           Seed[u].managed = IF Seed[u].role = "ADMIN"
                             THEN FactoriesOf(Seed[u].group) ELSE {}
  PROVE  Spec => []ScopeMatchesRole
<1> DEFINE Scoped == \A u \in Users : ScopeOf(u)
<1>1. Init => Scoped
  BY DEF Init, ScopeOf, Exists, Match, About, Idle
<1>2. IInv /\ KnownUsers /\ Scoped /\ [Next]_vars => Scoped'
  <2>1. Scoped /\ Still => Scoped'
    BY DEF Still, tables, ScopeOf, Exists, Match, About, Updating
  <2> QED
    BY <2>1, StepKinds, ScopeStep
<1>3. Scoped => ScopeMatchesRole
  BY DEF ScopeMatchesRole, ScopeOf, Match, Busy, About
<1> HIDE DEF Scoped
<1> QED
  BY <1>1, <1>2, <1>3, UsersAlwaysKnown, PTL DEF Spec

-------------------------------------------------------------------------------
(* LatestLinkOnly, the invitations: the new one of a resend is the only    *)
(* other one until it revokes the rest, and while it is under way nobody   *)
(* accepts one.                                                            *)
Offered(u) == {i \in Links : Pending(i) /\ invite[i].user = u}
AtMostOne(S) == \A i, j \in S : i = j

Resending(q, u) ==
  /\ \A p \in Requests \ {q} : ~About("resend", p, u) /\ ~About("accept", p, u)
  /\ ~(Exists(u) /\ user[u].active)
  /\ req[q].at = "create" => AtMostOne(Offered(u))
  /\ req[q].at \in {"mail", "undo"} => AtMostOne(Offered(u) \ {req[q].link})

InviteOf(u) ==
  <<"invite", u>> \notin hist.torn =>
    /\ Exists(u) /\ user[u].active => Offered(u) = {}
    /\ (\A q \in Requests : ~About("resend", q, u)) => AtMostOne(Offered(u))
    /\ \A q \in Requests : About("resend", q, u) => Resending(q, u)

LEMMA InviteKept ==
  ASSUME NEW u \in Users, InviteOf(u), StaysInactive(u), AloneFor("resend", u),
         hist.torn \subseteq hist'.torn, Offered(u)' \subseteq Offered(u),
         \A p \in Requests : About("accept", p, u)' => About("accept", p, u)
  PROVE  InviteOf(u)'
<1> SUFFICES ASSUME <<"invite", u>> \notin hist'.torn
             PROVE  /\ Exists(u)' /\ user'[u].active => Offered(u)' = {}
                    /\ (\A q \in Requests : ~About("resend", q, u)') => AtMostOne(Offered(u)')
                    /\ \A q \in Requests : About("resend", q, u)' => Resending(q, u)'
  BY DEF InviteOf, AtMostOne
<1>1. /\ <<"invite", u>> \notin hist.torn
      /\ Exists(u)' /\ user'[u].active => Exists(u) /\ user[u].active
  BY DEF StaysInactive, Exists
<1>2. \A q \in Requests : /\ About("resend", q, u)' <=> About("resend", q, u)
                          /\ About("resend", q, u)' => req'[q] = req[q]
  BY DEF AloneFor, About
<1>3. \A S : AtMostOne(Offered(u) \ S) => AtMostOne(Offered(u)' \ S)
  BY DEF AtMostOne
<1>4. AtMostOne(Offered(u)) => AtMostOne(Offered(u)')
  BY DEF AtMostOne
<1>5. AtMostOne(Offered(u))' <=> AtMostOne(Offered(u)')
  BY DEF AtMostOne
<1>6. \A q \in Requests :
        AtMostOne(Offered(u) \ {req[q].link})' <=> AtMostOne(Offered(u)' \ {req'[q].link})
  BY DEF AtMostOne
<1>7. ASSUME NEW q \in Requests, About("resend", q, u)' PROVE Resending(q, u)'
  <2>1. About("resend", q, u) /\ req'[q] = req[q]
    BY <1>2, <1>7 DEF About
  <2>2. Resending(q, u)
    BY <1>1, <2>1 DEF InviteOf
  <2>3. \A p \in Requests \ {q} : ~About("resend", p, u)' /\ ~About("accept", p, u)'
    BY <1>2, <2>2 DEF Resending, About
  <2> QED
    BY <1>1, <1>3, <1>4, <1>5, <1>6, <2>1, <2>2, <2>3 DEF Resending
<1>8. (\A q \in Requests : ~About("resend", q, u)') => AtMostOne(Offered(u))
  BY <1>1, <1>2 DEF InviteOf, About
<1> QED
  BY <1>1, <1>4, <1>7, <1>8 DEF InviteOf

LEMMA OfferedAlone ==
  ASSUME invite' = invite, NEW u PROVE Offered(u)' = Offered(u)
BY DEF Offered, Pending

LEMMA OfferedGone ==
  ASSUME IInv, NEW v, DeleteUser(v), NEW u PROVE Offered(u)' \subseteq Offered(u)
<1>1. \A i \in Links : invite'[i] # None => invite'[i] = invite[i]
  BY DEF DeleteUser, IInv, StoresTyped
<1> QED
  BY <1>1 DEF Offered, Pending

(* The two requests that overlap, or the one that stops, are recorded.     *)
LEMMA InviteTorn ==
  ASSUME IInv, NEW u \in Users, hist' = Tear("invite", u)
  PROVE  InviteOf(u)'
<1>1. <<"invite", u>> \in hist'.torn
  BY DEF Tear, IInv, StoresTyped, Histories
<1> QED
  BY <1>1 DEF InviteOf

(* Accepts do not appear, but in AcceptRead.                               *)
LEMMA NoAccept ==
  ASSUME NEW q \in Requests, \A p \in Requests \ {q} : req'[p] = req[p], NEW u,
         \/ req'[q].op # "accept"
         \/ req[q].op = "accept" /\ req'[q].user = req[q].user
  PROVE  \A p \in Requests : About("accept", p, u)' => About("accept", p, u)
BY DEF About

LEMMA ResendReadInvites ==
  ASSUME IInv, NEW q \in Requests, NEW v \in Users, ResendRead(q, v),
         NEW u \in Users, InviteOf(u), hist.torn \subseteq hist'.torn
  PROVE  InviteOf(u)'
<1>1. /\ req[q] = Idle /\ user' = user /\ invite' = invite
      /\ \A p \in Requests \ {q} : req'[p] = req[p]
      /\ req'[q] = [op |-> "resend", at |-> "create", user |-> v, link |-> None, now |-> clock]
  BY DEF ResendRead, Begin, IInv, RequestsOK, tables
<1>2. /\ req[q].op = "idle" /\ req'[q].op = "resend" /\ req'[q].user = v
      /\ req'[q].at = "create"
  BY <1>1 DEF Idle
<1>3. Offered(u)' = Offered(u) /\ StaysInactive(u)
  BY <1>1, OfferedAlone, RowsAlone
<1>4. CASE u # v
  <2>1. AloneFor("resend", u)
    BY <1>1, <1>2, <1>4, AloneOf
  <2> QED
    BY <1>1, <1>2, <1>3, <2>1, NoAccept, InviteKept
<1>5. CASE u = v /\ (Busy("resend", u) \/ Busy("accept", u))
  BY <1>5, InviteTorn DEF ResendRead
<1>6. CASE u = v /\ ~Busy("resend", u) /\ ~Busy("accept", u)
  <2> SUFFICES ASSUME <<"invite", u>> \notin hist.torn
               PROVE  /\ ~(Exists(u) /\ user[u].active)
                      /\ \A p \in Requests : About("resend", p, u)' => p = q /\ Resending(q, u)'
    BY <1>1, <1>2, <1>6 DEF InviteOf, Exists, About
  <2>1. /\ \A p \in Requests : ~About("resend", p, u) /\ ~About("accept", p, u)
        /\ AtMostOne(Offered(u)) /\ ~(Exists(u) /\ user[u].active)
    BY <1>6 DEF Busy, InviteOf, About, ResendRead
  <2>2. \A p \in Requests \ {q} : ~About("resend", p, u)' /\ ~About("accept", p, u)'
    BY <1>1, <2>1 DEF About
  <2>3. AtMostOne(Offered(u))' /\ ~(Exists(u) /\ user[u].active)'
    BY <1>1, <1>3, <2>1 DEF AtMostOne, Exists
  <2>4. Resending(q, u)'
    BY <1>2, <2>2, <2>3 DEF Resending
  <2> QED
    BY <2>1, <2>2, <2>4
<1> QED
  BY <1>4, <1>5, <1>6

(* The steps of a resend: its own invitation comes, goes, or stays alone.  *)
LEMMA ResendMoves ==
  ASSUME IInv, NEW q \in Requests, NEW u \in Users, req[q].op = "resend", req[q].user = u,
         \A p \in Requests \ {q} : req'[p] = req[p],
         user' = user, Resending(q, u),
         \/ req'[q].op = "idle" /\ AtMostOne(Offered(u)')
         \/ /\ req'[q].op = "resend" /\ req'[q].user = u
            /\ req'[q].at \in {"mail", "undo"} => AtMostOne(Offered(u)' \ {req'[q].link})
            /\ req'[q].at # "create"
  PROVE  InviteOf(u)'
<1> SUFFICES ASSUME <<"invite", u>> \notin hist'.torn
             PROVE  /\ Exists(u)' /\ user'[u].active => Offered(u)' = {}
                    /\ (\A p \in Requests : ~About("resend", p, u)') => AtMostOne(Offered(u)')
                    /\ \A p \in Requests : About("resend", p, u)' => Resending(p, u)'
  BY DEF InviteOf, AtMostOne
<1>1. \A p \in Requests \ {q} : ~About("resend", p, u)' /\ ~About("accept", p, u)'
  BY DEF Resending, About
<1>2. ~(Exists(u)' /\ user'[u].active)
  BY DEF Resending, Exists
<1>3. AtMostOne(Offered(u) \ {req[q].link})' <=> AtMostOne(Offered(u)' \ {req'[q].link})
  BY DEF AtMostOne
<1>4. ASSUME NEW p \in Requests, About("resend", p, u)' PROVE Resending(p, u)'
  <2>1. p = q /\ req'[q].op = "resend"
    BY <1>1, <1>4 DEF About
  <2> QED
    BY <1>1, <1>2, <1>3, <2>1 DEF Resending
<1>5. (\A p \in Requests : ~About("resend", p, u)') => AtMostOne(Offered(u)')
  BY DEF About
<1> QED
  BY <1>2, <1>4, <1>5

(* A new invitation is the only one that a user has more than before.      *)
LEMMA OfferedMore ==
  ASSUME IInv, NEW i \in Links, NEW v \in Users, NewInvite(i, v), NEW u \in Users
  PROVE  /\ Offered(u)' \ {i} \subseteq Offered(u)
         /\ u # v => Offered(u)' \subseteq Offered(u)
<1>1. /\ \A j \in Links \ {i} : invite'[j] = invite[j]
      /\ invite'[i].user = v
  BY DEF NewInvite, IInv, StoresTyped
<1> QED
  BY <1>1 DEF Offered, Pending

LEMMA OfferedLess ==
  ASSUME NEW u,
         \A i \in Links : Pending(i)' /\ invite'[i].user = u =>
                            Pending(i) /\ invite[i].user = u
  PROVE  Offered(u)' \subseteq Offered(u)
BY DEF Offered

LEMMA ResendOwnInvites ==
  ASSUME IInv, NEW q \in Requests, NEW u \in Users, req[q].op = "resend", req[q].user = u,
         Resending(q, u),
         \/ ResendCreate(q) \/ ResendUndo(q) \/ ResendRevoke(q)
         \/ \E delivered, ok \in BOOLEAN : SendMail(q, delivered, ok)
  PROVE  InviteOf(u)'
<1>1. /\ req[q] \in ResendReq /\ Sound(q) /\ Idle.op = "idle"
      /\ invite \in [Links -> InviteRow \cup {None}]
  BY FieldsOf DEF IInv, RequestsOK, StoresTyped, Idle
<1>2. \A p \in Requests \ {q} : req'[p] = req[p]
  BY InvitationKinds DEF InvitationStep
<1>3. user' = user
  BY DEF ResendCreate, ResendUndo, ResendRevoke, SendMail, tables
<1>4. CASE ResendCreate(q)
  <2>1. AtMostOne(Offered(u)) /\ req[q].at = "create"
    BY <1>4 DEF ResendCreate, Doing, Resending
  <2>2. CASE Exists(u)
    <3>1. PICK i \in Links : NewInvite(i, u) /\ Linked(q, i)
      BY <1>4, <2>2 DEF ResendCreate, Linked
    <3>2. Moved(q) /\ req'[q].at = "mail" /\ req'[q].link = i
      BY <3>1, LinkGiven
    <3>3. AtMostOne(Offered(u)' \ {i})
      BY <2>1, <3>1, OfferedMore DEF AtMostOne
    <3> QED
      BY <1>2, <1>3, <3>2, <3>3, ResendMoves DEF Moved
  <2>3. CASE ~Exists(u)
    <3>1. req'[q] = Idle /\ invite' = invite
      BY <1>4, <2>3, EndOf DEF ResendCreate
    <3>2. AtMostOne(Offered(u)')
      BY <2>1, <3>1, OfferedAlone
    <3> QED
      BY <1>1, <1>2, <1>3, <3>1, <3>2, ResendMoves
  <2> QED
    BY <2>2, <2>3
<1>5. CASE \E delivered, ok \in BOOLEAN : SendMail(q, delivered, ok)
  <2>1. /\ req[q].at = "mail" /\ invite' = invite
        /\ \E at \in {"revoke", "undo"} : Goto(q, at)
    BY <1>5 DEF SendMail, tables
  <2>2. Moved(q) /\ req'[q].at \in {"revoke", "undo"} /\ req'[q].link = req[q].link
    BY <2>1, GotoOf
  <2>3. AtMostOne(Offered(u)' \ {req[q].link})
    <3>1. Offered(u)' = Offered(u)
      BY <2>1, OfferedAlone
    <3> QED
      BY <2>1, <3>1 DEF Resending
  <2> QED
    BY <1>2, <1>3, <2>2, <2>3, ResendMoves DEF Moved
<1>6. CASE ResendUndo(q)
  <2> DEFINE i == req[q].link
  <2>1. /\ req[q].at = "undo" /\ req'[q] = Idle /\ i \in Links
        /\ invite' = [invite EXCEPT ![i] = None]
    BY <1>1, <1>6, EndOf DEF ResendUndo, Doing, Sound, MailSound
  <2>2. Offered(u)' \subseteq Offered(u) \ {i}
    BY <1>1, <2>1 DEF Offered, Pending
  <2>3. AtMostOne(Offered(u)')
    BY <2>1, <2>2 DEF Resending, AtMostOne
  <2> QED
    BY <1>1, <1>2, <1>3, <2>1, <2>3, ResendMoves
<1>7. CASE ResendRevoke(q)
  <2> DEFINE i == req[q].link
             others == {j \in Links \ {i} : Pending(j) /\ invite[j].user = u}
  <2>1. /\ req'[q] = Idle
        /\ invite' = [j \in Links |-> IF j \in others THEN [invite[j] EXCEPT !.revoked = TRUE]
                                      ELSE invite[j]]
    BY <1>7, EndOf DEF ResendRevoke
  <2>2. ASSUME NEW j \in Links, j # i, Pending(j)', invite'[j].user = u PROVE FALSE
    <3>1. CASE j \in others
      <4>1. invite'[j] = [invite[j] EXCEPT !.revoked = TRUE] /\ invite[j] \in InviteRow
        BY <1>1, <2>1, <3>1 DEF Pending
      <4>2. invite'[j].revoked = TRUE
        BY <4>1 DEF InviteRow
      <4> QED
        BY <2>2, <4>2 DEF Pending
    <3>2. CASE j \notin others
      <4>1. invite'[j] = invite[j]
        BY <2>1, <3>2
      <4> QED
        BY <2>2, <3>2, <4>1 DEF Pending
    <3> QED
      BY <3>1, <3>2
  <2>3. AtMostOne(Offered(u)')
    BY <2>2 DEF AtMostOne, Offered
  <2> QED
    BY <1>1, <1>2, <1>3, <2>1, <2>3, ResendMoves
<1> QED
  BY <1>4, <1>5, <1>6, <1>7

(* What the invitation service leaves of the links of other users.         *)
LEMMA ResendOthers ==
  ASSUME IInv, NEW q \in Requests, NEW u \in Users,
         ~About("resend", q, u),
         \/ ResendCreate(q) \/ ResendUndo(q) \/ ResendRevoke(q)
         \/ \E delivered, ok \in BOOLEAN : SendMail(q, delivered, ok)
  PROVE  Offered(u)' \subseteq Offered(u)
<1>1. invite \in [Links -> InviteRow \cup {None}]
  BY DEF IInv, StoresTyped
<1>2. CASE ResendCreate(q)
  <2>1. CASE Exists(req[q].user)
    <3>1. PICK i \in Links : NewInvite(i, req[q].user)
      BY <1>2, <2>1 DEF ResendCreate
    <3>2. req[q].user \in Users /\ u # req[q].user
      BY <1>2, UserOf DEF ResendCreate, Doing, About
    <3> QED
      BY <3>1, <3>2, OfferedMore
  <2>2. CASE ~Exists(req[q].user)
    BY <1>2, <2>2, OfferedAlone DEF ResendCreate
  <2> QED
    BY <2>1, <2>2
<1>3. CASE ResendUndo(q)
  <2>1. invite' = [invite EXCEPT ![req[q].link] = None]
    BY <1>3 DEF ResendUndo
  <2> QED
    BY <1>1, <2>1, OfferedLess DEF Pending
<1>4. CASE ResendRevoke(q)
  <2> DEFINE others == {j \in Links \ {req[q].link} : Pending(j) /\ invite[j].user = req[q].user}
  <2>1. /\ u # req[q].user
        /\ invite' = [j \in Links |-> IF j \in others THEN [invite[j] EXCEPT !.revoked = TRUE]
                                      ELSE invite[j]]
    BY <1>4 DEF ResendRevoke, Doing, About
  <2>2. ASSUME NEW j \in Links, Pending(j)', invite'[j].user = u
        PROVE  Pending(j) /\ invite[j].user = u
    <3>1. j \notin others
      <4> SUFFICES ASSUME j \in others PROVE FALSE
        OBVIOUS
      <4>1. invite'[j] = [invite[j] EXCEPT !.revoked = TRUE] /\ invite[j] \in InviteRow
        BY <1>1, <2>1 DEF Pending
      <4>2. invite'[j].user = invite[j].user
        BY <4>1 DEF InviteRow
      <4> QED
        BY <2>1, <2>2, <4>2
    <3>2. invite'[j] = invite[j]
      BY <2>1, <3>1
    <3> QED
      BY <2>2, <3>2 DEF Pending
  <2> QED
    BY <2>2, OfferedLess
<1>5. CASE \E delivered, ok \in BOOLEAN : SendMail(q, delivered, ok)
  BY <1>5, OfferedAlone DEF SendMail, tables
<1> QED
  BY <1>2, <1>3, <1>4, <1>5

LEMMA ResendInvites ==
  ASSUME IInv, NEW q \in Requests, NEW u \in Users, InviteOf(u),
         hist.torn \subseteq hist'.torn,
         \/ ResendCreate(q) \/ ResendUndo(q) \/ ResendRevoke(q)
         \/ \E delivered, ok \in BOOLEAN : SendMail(q, delivered, ok)
  PROVE  InviteOf(u)'
<1>1. CASE About("resend", q, u)
  <2>1. CASE <<"invite", u>> \in hist.torn
    BY <2>1 DEF InviteOf
  <2>2. CASE <<"invite", u>> \notin hist.torn
    <3>1. Resending(q, u)
      BY <1>1, <2>2 DEF InviteOf
    <3> QED
      BY <1>1, <3>1, ResendOwnInvites DEF About
  <2> QED
    BY <2>1, <2>2
<1>2. CASE ~About("resend", q, u)
  <2>1. /\ \A p \in Requests \ {q} : req'[p] = req[p]
        /\ user' = user /\ req[q].op \in {"invite", "resend"}
    BY InvitationKinds DEF InvitationStep, ResendCreate, ResendUndo, ResendRevoke, SendMail,
                           Doing, tables
  <2>2. End(q) \/ (\E at : Goto(q, at)) \/ (\E i : Linked(q, i))
    BY DEF ResendCreate, ResendUndo, ResendRevoke, SendMail, Linked
  <2>3. req'[q].op = "idle" \/ Moved(q)
    BY <2>1, <2>2, EndOf, GotoOf, LinkGiven DEF Idle
  <2>4. AloneFor("resend", u)
    BY <1>2, <2>1, <2>3, AloneOf DEF Moved, About
  <2>5. \A p \in Requests : About("accept", p, u)' => About("accept", p, u)
    BY <2>1, <2>3 DEF Moved, About
  <2>6. Offered(u)' \subseteq Offered(u)
    BY <1>2, ResendOthers
  <2> QED
    BY <2>1, <2>4, <2>5, <2>6, RowsAlone, InviteKept
<1> QED
  BY <1>1, <1>2

(* A new account has the one invitation that is created with it.           *)
LEMMA InviteCreateInvites ==
  ASSUME IInv, RolesKnown, KnownUsers, NEW q \in Requests, InviteCreate(q),
         NEW u \in Users, InviteOf(u), hist.torn \subseteq hist'.torn
  PROVE  InviteOf(u)'
<1>1. /\ \A p \in Requests \ {q} : req'[p] = req[p]
      /\ req[q].op = "invite" /\ req'[q].op \in {"idle", "invite"}
      /\ req[q].user \in Users
  <2>1. req[q].op = "invite"
    BY DEF InviteCreate, Doing
  <2>2. End(q) \/ \E i : Linked(q, i)
    BY DEF InviteCreate, Linked
  <2> QED
    BY <2>1, <2>2, EndOf, LinkGiven, UserOf, InvitationKinds DEF Moved, InvitationStep, Idle
<1>2. AloneFor("resend", u) /\ \A p \in Requests : About("accept", p, u)' => About("accept", p, u)
  BY <1>1, AloneOf DEF About
<1>3. CASE user' = user /\ invite' = invite
  BY <1>2, <1>3, RowsAlone, OfferedAlone, InviteKept
<1>4. CASE ~(user' = user /\ invite' = invite)
  <2>1. PICK i \in Links : NewInvite(i, req[q].user)
    BY <1>4 DEF InviteCreate
  <2>2. CASE u # req[q].user
    <3>1. Offered(u)' \subseteq Offered(u)
      BY <1>1, <2>1, <2>2, OfferedMore
    <3>2. StaysInactive(u)
      BY <2>2, InvitationRows DEF InvitationStep, InviteCreate, AcceptClaim, Doing
    <3> QED
      BY <1>2, <3>1, <3>2, InviteKept
  <2>3. CASE u = req[q].user
    <3>1. Offered(u) = {}
      <4>1. ~Exists(u)
        BY <2>3 DEF RolesKnown, FreshUsers, InviteCreate
      <4> QED
        BY <4>1 DEF Offered, Pending, IInv, Owned
    <3>2. AtMostOne(Offered(u)')
      BY <2>1, <2>3, <3>1, OfferedMore DEF AtMostOne
    <3>3. user'[u].active = FALSE
      <4> DEFINE r == req[q]
                 m == IF r.role = "ADMIN" THEN FactoriesOf(r.group) ELSE {}
                 row == [name |-> None, email |-> r.email, active |-> FALSE,
                         role |-> r.role, group |-> r.group, failed |-> 0,
                         lockedUntil |-> None, managed |-> m]
      <4>1. user'[u] = row
        BY <1>4, <2>3 DEF InviteCreate, IInv, StoresTyped
      <4> QED
        BY <4>1
    <3>4. \A p \in Requests : ~About("resend", p, u)
      BY <2>3 DEF KnownUsers, InviteCreate, About
    <3>5. \A p \in Requests : ~About("resend", p, u)'
      BY <1>2, <3>4 DEF AloneFor, About
    <3> QED
      BY <3>2, <3>3, <3>5 DEF InviteOf, AtMostOne
  <2> QED
    BY <2>2, <2>3
<1> QED
  BY <1>3, <1>4

LEMMA AcceptReadInvites ==
  ASSUME IInv, NEW q \in Requests, NEW i \in Links, NEW n, AcceptRead(q, i, n),
         NEW u \in Users, InviteOf(u), hist.torn \subseteq hist'.torn
  PROVE  InviteOf(u)'
<1>1. /\ req[q] = Idle /\ user' = user /\ invite' = invite
      /\ \A p \in Requests \ {q} : req'[p] = req[p]
      /\ req'[q] = [op |-> "accept", at |-> "name", user |-> invite[i].user,
                    link |-> i, name |-> n, now |-> clock]
  BY DEF AcceptRead, Begin, IInv, RequestsOK, tables
<1>2. req[q].op = "idle" /\ req'[q].op = "accept" /\ req'[q].user = invite[i].user
  BY <1>1 DEF Idle
<1>3. Offered(u)' = Offered(u) /\ StaysInactive(u) /\ AloneFor("resend", u)
  BY <1>1, <1>2, OfferedAlone, RowsAlone, AloneOf
<1>4. CASE u # invite[i].user
  <2>1. \A p \in Requests : About("accept", p, u)' => About("accept", p, u)
    BY <1>1, <1>2, <1>4 DEF About
  <2> QED
    BY <1>3, <2>1, InviteKept
<1>5. CASE u = invite[i].user /\ Busy("resend", u)
  BY <1>5, InviteTorn DEF AcceptRead
<1>6. CASE u = invite[i].user /\ ~Busy("resend", u)
  <2>1. \A p \in Requests : ~About("resend", p, u) /\ ~About("resend", p, u)'
    BY <1>1, <1>2, <1>6 DEF Busy, About
  <2> QED
    BY <1>1, <1>3, <2>1 DEF InviteOf, AtMostOne, Exists
<1> QED
  BY <1>4, <1>5, <1>6

(* The invitation that is claimed was the last one.                        *)
LEMMA AcceptClaimInvites ==
  ASSUME IInv, NEW q \in Requests, AcceptClaim(q),
         NEW u \in Users, InviteOf(u), hist.torn \subseteq hist'.torn
  PROVE  InviteOf(u)'
<1>1. /\ req[q] \in AcceptReq /\ Sound(q) /\ req[q].op = "accept"
      /\ req'[q].op = "idle" /\ \A p \in Requests \ {q} : req'[p] = req[p]
      /\ invite \in [Links -> InviteRow \cup {None}]
  BY FieldsOf, EndOf DEF AcceptClaim, Doing, IInv, RequestsOK, StoresTyped, Idle
<1>2. /\ AloneFor("resend", u)
      /\ \A p \in Requests : About("accept", p, u)' => About("accept", p, u)
  BY <1>1, AloneOf, NoAccept
<1>3. CASE user' = user /\ invite' = invite
  BY <1>2, <1>3, OfferedAlone, RowsAlone, InviteKept
<1>4. CASE ~(user' = user /\ invite' = invite)
  <2> DEFINE i == req[q].link
  <2>1. /\ invite' = [invite EXCEPT ![i].accepted = TRUE] /\ Pending(i)
        /\ i \in Links /\ invite[i].user = req[q].user
    BY <1>1, <1>4 DEF AcceptClaim, ClaimInvitation, ActiveInvitation, Pending, Sound,
                      AcceptSound, AcceptReq
  <2>2. \A j \in Links : Pending(j)' => j # i /\ invite'[j] = invite[j]
    <3>1. invite'[i] = [invite[i] EXCEPT !.accepted = TRUE] /\ invite[i] \in InviteRow
      BY <1>1, <2>1 DEF Pending
    <3>2. invite'[i].accepted = TRUE
      BY <3>1 DEF InviteRow
    <3> QED
      BY <1>1, <2>1, <3>2 DEF Pending
  <2>3. Offered(u)' \subseteq Offered(u) \ {i}
    BY <2>2 DEF Offered, Pending
  <2>4. CASE u # req[q].user
    <3>1. StaysInactive(u)
      BY <2>4, AcceptRows
    <3> QED
      BY <1>2, <2>3, <3>1, InviteKept
  <2>5. CASE u = req[q].user
    <3> SUFFICES ASSUME <<"invite", u>> \notin hist.torn
                 PROVE  /\ Offered(u)' = {}
                        /\ \A p \in Requests : ~About("resend", p, u)'
      BY DEF InviteOf, AtMostOne
    <3>1. \A p \in Requests : ~About("resend", p, u)
      BY <1>1, <2>5 DEF InviteOf, Resending, About
    <3>2. AtMostOne(Offered(u)) /\ i \in Offered(u)
      BY <2>1, <2>5, <3>1 DEF InviteOf, Offered
    <3>3. Offered(u)' = {}
      BY <2>3, <3>2 DEF AtMostOne
    <3> QED
      BY <1>2, <3>1, <3>3 DEF AloneFor, About
  <2> QED
    BY <2>4, <2>5
<1> QED
  BY <1>3, <1>4

LEMMA InviteStep ==
  ASSUME IInv, RolesKnown, KnownUsers, NEW q \in Requests, Acting(q),
         NEW u \in Users, InviteOf(u)
  PROVE  InviteOf(u)'
<1>1. hist.torn \subseteq hist'.torn
  BY TornGrows
<1>2. CASE SessionStep(q) \/ EmailChangeStep(q) \/ UserAdminStep(q)
  <2>1. /\ AloneFor("resend", u) /\ StaysInactive(u)
        /\ \A p \in Requests : About("accept", p, u)' => About("accept", p, u)
    BY <1>2, SessionKinds, EmailKinds, AdminKinds, SessionRows, EmailRows, AdminRows,
       AloneOf, NoAccept
  <2>2. Offered(u)' \subseteq Offered(u)
    <3>1. CASE DeleteWrite(q)
      BY <3>1, OfferedGone DEF DeleteWrite
    <3>2. CASE ~DeleteWrite(q)
      <4>1. invite' = invite
        BY <1>2, <3>2, QuietSessions, QuietAdmin
           DEF LinksAlone, EmailChangeStep, ChangeRead, ChangeTaken, ChangeDelete,
               ChangeCreate, ConfirmRead, ConfirmTaken, ConfirmBurn, ConfirmClaim, tables
      <4> QED
        BY <4>1, OfferedAlone
    <3> QED
      BY <3>1, <3>2
  <2> QED
    BY <1>1, <2>1, <2>2, InviteKept
<1>3. CASE \/ InviteUndo(q) \/ AcceptName(q)
           \/ \E v \in Users, e \in Emails, r \in AskedRoles, g \in Groups \cup {None} :
                InviteCheck(q, v, e, r, g)
  <2>1. /\ \A p \in Requests \ {q} : req'[p] = req[p]
        /\ StaysInactive(u)
    <3>1. InvitationStep(q)
      BY <1>3 DEF InvitationStep
    <3>2. /\ ~AcceptClaim(q) /\ ~InviteCreate(q)
      <4>1. CASE InviteUndo(q) \/ AcceptName(q)
        BY <4>1 DEF InviteUndo, AcceptName, AcceptClaim, InviteCreate, Doing
      <4>2. CASE \E v \in Users, e \in Emails, r \in AskedRoles, g \in Groups \cup {None} :
                   InviteCheck(q, v, e, r, g)
        <5>1. req[q].op = "idle"
          BY <4>2 DEF InviteCheck, Begin, Idle
        <5> QED
          BY <5>1 DEF AcceptClaim, InviteCreate, Doing
      <4> QED
        BY <1>3, <4>1, <4>2
    <3> QED
      BY <3>1, <3>2, InvitationKinds, InvitationRows
  <2>2. /\ req[q].op # "resend" /\ req'[q].op # "resend"
        /\ req'[q].op = "accept" => req[q].op = "accept" /\ req'[q].user = req[q].user
    <3>1. CASE InviteUndo(q)
      BY <3>1, EndOf DEF InviteUndo, Doing, Idle
    <3>2. CASE AcceptName(q)
      BY <3>2, EndOf, GotoOf DEF AcceptName, Doing, Idle, Moved
    <3>3. CASE \E v \in Users, e \in Emails, r \in AskedRoles, g \in Groups \cup {None} :
                 InviteCheck(q, v, e, r, g)
      BY <3>3 DEF InviteCheck, Begin, Idle, IInv, RequestsOK
    <3> QED
      BY <1>3, <3>1, <3>2, <3>3
  <2>3. AloneFor("resend", u) /\ \A p \in Requests : About("accept", p, u)' => About("accept", p, u)
    BY <2>1, <2>2, AloneOf, NoAccept
  <2>4. Offered(u)' \subseteq Offered(u)
    <3>1. CASE InviteUndo(q)
      BY <3>1, OfferedGone DEF InviteUndo
    <3>2. CASE ~InviteUndo(q)
      BY <1>3, <3>2, OfferedAlone DEF AcceptName, InviteCheck, tables
    <3> QED
      BY <3>1, <3>2
  <2> QED
    BY <1>1, <2>1, <2>3, <2>4, InviteKept
<1>4. CASE InviteCreate(q)
  BY <1>1, <1>4, InviteCreateInvites
<1>5. CASE \E v \in Users : ResendRead(q, v)
  BY <1>1, <1>5, ResendReadInvites
<1>6. CASE \/ ResendCreate(q) \/ ResendUndo(q) \/ ResendRevoke(q)
           \/ \E delivered, ok \in BOOLEAN : SendMail(q, delivered, ok)
  BY <1>1, <1>6, ResendInvites
<1>7. CASE \E i \in Links, n \in Names : AcceptRead(q, i, n)
  BY <1>1, <1>7, AcceptReadInvites
<1>8. CASE AcceptClaim(q)
  BY <1>1, <1>8, AcceptClaimInvites
<1>9. CASE Die(q)
  <2>1. /\ user' = user /\ invite' = invite /\ req'[q].op = "idle"
        /\ \A p \in Requests \ {q} : req'[p] = req[p]
    BY <1>9, EndOf DEF Die, tables, Idle
  <2>2. CASE About("resend", q, u)
    BY <1>9, <2>2, InviteTorn DEF Die, About
  <2>3. CASE ~About("resend", q, u)
    BY <1>1, <2>1, <2>3, AloneOf, NoAccept, RowsAlone, OfferedAlone, InviteKept DEF About
  <2> QED
    BY <2>2, <2>3
<1> QED
  BY <1>2, <1>3, <1>4, <1>5, <1>6, <1>7, <1>8, <1>9 DEF Acting, InvitationStep

-------------------------------------------------------------------------------
(* LatestLinkOnly, the address changes: the request that has deleted the   *)
(* tokens of a user is the only one to create another.                     *)
Open(u) == {i \in Links : change[i] # None /\ ~change[i].used /\ change[i].user = u}

Changing(q, u) ==
  /\ \A p \in Requests \ {q} : ~About("change", p, u)
  /\ req[q].at = "create" => Open(u) = {}

ChangeOf(u) ==
  <<"change", u>> \notin hist.torn =>
    /\ AtMostOne(Open(u))
    /\ \A q \in Requests : About("change", q, u) => Changing(q, u)

(* Requests may end: nothing is left to be done for the user.              *)
LEMMA ChangeKept ==
  ASSUME NEW u \in Users, ChangeOf(u), hist.torn \subseteq hist'.torn,
         Open(u)' \subseteq Open(u),
         \A p \in Requests : About("change", p, u)' =>
           About("change", p, u) /\ (req'[p].at = "create" => req[p].at = "create")
  PROVE  ChangeOf(u)'
BY DEF ChangeOf, Changing, AtMostOne

LEMMA OpenAlone ==
  ASSUME change' = change, NEW u PROVE Open(u)' = Open(u)
BY DEF Open

LEMMA OpenLess ==
  ASSUME IInv, NEW u,
         \A i \in Links : \/ change'[i] \in {None, change[i]}
                          \/ change[i] # None /\ change'[i] = [change[i] EXCEPT !.used = TRUE]
  PROVE  Open(u)' \subseteq Open(u)
<1> SUFFICES ASSUME NEW i \in Links, change'[i] # None, ~change'[i].used
             PROVE  change'[i] = change[i]
  BY DEF Open
<1>1. CASE change[i] # None /\ change'[i] = [change[i] EXCEPT !.used = TRUE]
  <2>1. change[i] \in ChangeRow
    BY <1>1 DEF IInv, StoresTyped
  <2>2. change'[i].used = TRUE
    BY <1>1, <2>1 DEF ChangeRow
  <2> QED
    BY <2>2
<1> QED
  BY <1>1

LEMMA ChangeReads ==
  ASSUME IInv, NEW q \in Requests, NEW v \in Users, NEW e, ChangeRead(q, v, e),
         NEW u \in Users, ChangeOf(u), hist.torn \subseteq hist'.torn
  PROVE  ChangeOf(u)'
<1>1. /\ change' = change /\ \A p \in Requests \ {q} : req'[p] = req[p]
      /\ req'[q] = [op |-> "change", at |-> "taken", user |-> v, email |-> e, now |-> clock]
  BY DEF ChangeRead, Begin, IInv, RequestsOK, tables
<1>2. req'[q].op = "change" /\ req'[q].user = v /\ req'[q].at = "taken"
  BY <1>1
<1>3. Open(u)' = Open(u)
  BY <1>1, OpenAlone
<1>4. CASE u # v
  BY <1>1, <1>2, <1>3, <1>4, ChangeKept DEF About
<1>5. CASE u = v /\ Busy("change", u)
  <2>1. hist' = Tear("change", u)
    BY <1>5 DEF ChangeRead
  <2>2. <<"change", u>> \in hist'.torn
    BY <2>1 DEF Tear, IInv, StoresTyped, Histories
  <2> QED
    BY <2>2 DEF ChangeOf
<1>6. CASE u = v /\ ~Busy("change", u)
  <2>1. \A p \in Requests \ {q} : ~About("change", p, u)'
    BY <1>1, <1>6 DEF Busy, About
  <2>2. Changing(q, u)'
    BY <1>2, <2>1 DEF Changing
  <2> QED
    BY <1>3, <2>1, <2>2 DEF ChangeOf, AtMostOne
<1> QED
  BY <1>4, <1>5, <1>6

(* The tokens of the user go, then the new one comes.                      *)
LEMMA ChangeEmpties ==
  ASSUME IInv, NEW q \in Requests, ChangeDelete(q),
         NEW u \in Users, ChangeOf(u), hist.torn \subseteq hist'.torn
  PROVE  ChangeOf(u)'
<1>1. /\ req[q].op = "change" /\ req'[q].op = "change" /\ req'[q].user = req[q].user
      /\ \A p \in Requests \ {q} : req'[p] = req[p]
  BY GotoOf DEF ChangeDelete, Doing, Moved
<1>2. change' = [i \in Links |->
        IF change[i] # None /\ change[i].user = req[q].user THEN None ELSE change[i]]
  BY DEF ChangeDelete
<1>3. Open(u)' \subseteq Open(u)
  BY <1>2, OpenLess
<1>4. CASE u # req[q].user
  BY <1>1, <1>3, <1>4, ChangeKept DEF About
<1>5. CASE u = req[q].user
  <2>1. Open(u)' = {}
    BY <1>2, <1>5 DEF Open
  <2>2. ASSUME <<"change", u>> \notin hist'.torn
        PROVE  \A p \in Requests : About("change", p, u)' => p = q /\ Changing(q, u)'
    <3>1. Changing(q, u)
      BY <1>1, <1>5, <2>2 DEF ChangeOf, About
    <3>2. \A p \in Requests \ {q} : ~About("change", p, u)'
      BY <1>1, <3>1 DEF Changing, About
    <3> QED
      BY <2>1, <3>2 DEF Changing
  <2> QED
    BY <2>1, <2>2 DEF ChangeOf, AtMostOne
<1> QED
  BY <1>4, <1>5

LEMMA ChangeRenews ==
  ASSUME IInv, NEW q \in Requests, ChangeCreate(q),
         NEW u \in Users, ChangeOf(u), hist.torn \subseteq hist'.torn
  PROVE  ChangeOf(u)'
<1>1. /\ req[q].op = "change" /\ req[q].at = "create" /\ req'[q].op = "idle"
      /\ \A p \in Requests \ {q} : req'[p] = req[p]
      /\ change \in [Links -> ChangeRow \cup {None}]
  BY EndOf DEF ChangeCreate, Doing, Idle, IInv, StoresTyped
<1>2. \A p \in Requests : About("change", p, u)' => p # q /\ About("change", p, u)
  BY <1>1 DEF About
<1>3. CASE change' = change
  BY <1>1, <1>2, <1>3, OpenAlone, ChangeKept
<1>4. CASE change' # change
  <2> DEFINE row == [user |-> req[q].user, email |-> req[q].email, exp |-> clock + LinkTtl,
                     used |-> FALSE]
  <2>1. PICK i \in Links : /\ change' = [change EXCEPT ![i] = row]
                           /\ row.user = req[q].user
    BY <1>4 DEF ChangeCreate
  <2> HIDE DEF row
  <2>2. Open(u)' \ {i} \subseteq Open(u) /\ (u # req[q].user => i \notin Open(u)')
    BY <1>1, <2>1 DEF Open
  <2>3. CASE u # req[q].user
    <3>1. Open(u)' \subseteq Open(u)
      BY <2>2, <2>3
    <3> QED
      BY <1>1, <1>2, <3>1, ChangeKept
  <2>4. CASE u = req[q].user
    <3> SUFFICES ASSUME <<"change", u>> \notin hist.torn
                 PROVE  /\ AtMostOne(Open(u)')
                        /\ \A p \in Requests : ~About("change", p, u)'
      BY DEF ChangeOf, AtMostOne
    <3>1. Changing(q, u)
      BY <1>1, <2>4 DEF ChangeOf, About
    <3>2. Open(u)' \subseteq {i}
      BY <1>1, <2>2, <3>1 DEF Changing
    <3>3. \A p \in Requests : ~About("change", p, u)'
      BY <1>2, <3>1 DEF Changing
    <3> QED
      BY <3>2, <3>3 DEF AtMostOne
  <2> QED
    BY <2>3, <2>4
<1> QED
  BY <1>3, <1>4

LEMMA ChangeStep ==
  ASSUME IInv, NEW q \in Requests, Acting(q), NEW u \in Users, ChangeOf(u)
  PROVE  ChangeOf(u)'
<1>1. hist.torn \subseteq hist'.torn
  BY TornGrows
<1>2. change \in [Links -> ChangeRow \cup {None}] /\ Idle.op = "idle"
  BY DEF IInv, StoresTyped, Idle
<1>3. CASE SessionStep(q) \/ InvitationStep(q) \/ UserAdminStep(q) \/ Die(q)
  <2>1. \A p \in Requests : About("change", p, u)' => req'[p] = req[p]
    BY <1>2, <1>3, SessionKinds, InvitationKinds, AdminKinds, EndOf DEF About, Die
  <2>2. Open(u)' \subseteq Open(u)
    <3>1. CASE InviteUndo(q) \/ DeleteWrite(q)
      <4>1. \A i \in Links : change'[i] \in {None, change[i]}
        BY <1>2, <3>1 DEF InviteUndo, DeleteWrite, DeleteUser
      <4> QED
        BY <4>1, OpenLess
    <3>2. CASE ~InviteUndo(q) /\ ~DeleteWrite(q)
      <4>1. change' = change
        <5>1. CASE SessionStep(q) \/ UserAdminStep(q) \/ Die(q)
          BY <3>2, <5>1, QuietSessions, QuietAdmin DEF LinksAlone, Die, tables
        <5>2. CASE InvitationStep(q)
          BY <3>2, <5>2
             DEF InvitationStep, InviteCheck, InviteCreate, ResendRead, ResendCreate,
                 SendMail, ResendUndo, ResendRevoke, AcceptRead, AcceptName, AcceptClaim,
                 tables
        <5> QED
          BY <1>3, <5>1, <5>2
      <4> QED
        BY <4>1, OpenAlone
    <3> QED
      BY <3>1, <3>2
  <2> QED
    BY <1>1, <2>1, <2>2, ChangeKept DEF About
<1>4. CASE \E v \in Users, e \in Emails : ChangeRead(q, v, e)
  BY <1>1, <1>4, ChangeReads
<1>5. CASE ChangeDelete(q)
  BY <1>1, <1>5, ChangeEmpties
<1>6. CASE ChangeCreate(q)
  BY <1>1, <1>6, ChangeRenews
<1>7. CASE \/ ChangeTaken(q) \/ ConfirmTaken(q) \/ ConfirmBurn(q) \/ ConfirmClaim(q)
           \/ \E i \in Links : ConfirmRead(q, i)
  <2>1. \A p \in Requests \ {q} : req'[p] = req[p]
    BY <1>7, EmailKinds DEF EmailChangeStep
  <2>2. \/ req'[q].op # "change"
        \/ req[q].op = "change" /\ req'[q].user = req[q].user /\ req'[q].at # "create"
    <3>1. CASE ChangeTaken(q)
      BY <1>2, <3>1, EndOf, GotoOf DEF ChangeTaken, Doing, Moved
    <3>2. CASE ConfirmTaken(q) \/ ConfirmBurn(q) \/ ConfirmClaim(q)
      BY <1>2, <3>2, EndOf, GotoOf DEF ConfirmTaken, ConfirmBurn, ConfirmClaim, Doing, Moved
    <3>3. CASE \E i \in Links : ConfirmRead(q, i)
      BY <3>3 DEF ConfirmRead, Begin, IInv, RequestsOK
    <3> QED
      BY <1>7, <3>1, <3>2, <3>3
  <2>3. Open(u)' \subseteq Open(u)
    <3>1. CASE ConfirmBurn(q) \/ ConfirmClaim(q)
      <4>1. \/ change' = change
            \/ /\ change[req[q].link] # None
               /\ change' = [change EXCEPT ![req[q].link].used = TRUE]
        BY <3>1 DEF ConfirmBurn, ConfirmClaim, Confirmable
      <4> QED
        BY <1>2, <4>1, OpenLess
    <3>2. CASE ChangeTaken(q) \/ ConfirmTaken(q) \/ \E i \in Links : ConfirmRead(q, i)
      BY <3>2, OpenAlone DEF ChangeTaken, ConfirmTaken, ConfirmRead, tables
    <3> QED
      BY <1>7, <3>1, <3>2
  <2> QED
    BY <1>1, <2>1, <2>2, <2>3, ChangeKept DEF About
<1> QED
  BY <1>3, <1>4, <1>5, <1>6, <1>7 DEF Acting, EmailChangeStep

LEMMA AtMostOneCounted ==
  ASSUME NEW S, AtMostOne(S) PROVE Cardinality(S) <= 1
<1>1. CASE S = {}
  BY <1>1, FS_EmptySet
<1>2. CASE S # {}
  <2>1. PICK x : S = {x}
    BY <1>2 DEF AtMostOne
  <2>2. Cardinality({x}) = 1
    BY FS_Singleton
  <2>3. Cardinality(S) = 1
    BY <2>1, <2>2
  <2> QED
    BY <2>3
<1> QED
  BY <1>1, <1>2

(* At most one invitation and one address change of a user can still be    *)
(* used, and no invitation of an active user, for any number of requests,  *)
(* of users and of links: the resend that is alone revokes every other     *)
(* invitation, the change that is alone has deleted every other token, and *)
(* an invitation that is accepted was the last                             *)
(* (invitation-service.ts:259-287, email-change-service.ts:38).            *)
THEOREM LatestLinksOnly == Spec => []LatestLinkOnly
<1> DEFINE Latest == \A u \in Users : InviteOf(u) /\ ChangeOf(u)
<1>1. Init => Latest
  BY DEF Init, InviteOf, ChangeOf, Offered, Pending, Open, About, Idle, AtMostOne
<1>2. IInv /\ RolesKnown /\ KnownUsers /\ Latest /\ [Next]_vars => Latest'
  <2>1. Latest /\ Still => Latest'
    <3> SUFFICES ASSUME Still, NEW u \in Users, InviteOf(u), ChangeOf(u)
                 PROVE  InviteOf(u)' /\ ChangeOf(u)'
      OBVIOUS
    <3>1. InviteOf(u)'
      BY OfferedAlone, RowsAlone, InviteKept DEF Still, tables, AloneFor, About
    <3>2. ChangeOf(u)'
      BY OpenAlone, ChangeKept DEF Still, tables, About
    <3> QED
      BY <3>1, <3>2
  <2> QED
    BY <2>1, StepKinds, InviteStep, ChangeStep
<1>3. Latest => LatestLinkOnly
  <2> SUFFICES ASSUME NEW u \in Users, InviteOf(u), ChangeOf(u)
               PROVE  LET usable == {i \in Links : ActiveInvitation(i, clock)
                                                   /\ invite[i].user = u}
                          confirmable == {i \in Links : Confirmable(i, clock)
                                                        /\ change[i].user = u}
                      IN
                      /\ <<"invite", u>> \notin hist.torn /\ ~Busy("resend", u) =>
                           /\ Cardinality(usable) <= 1
                           /\ Exists(u) /\ user[u].active => usable = {}
                      /\ <<"change", u>> \notin hist.torn => Cardinality(confirmable) <= 1
    BY DEF LatestLinkOnly
  <2> DEFINE usable == {i \in Links : ActiveInvitation(i, clock) /\ invite[i].user = u}
             confirmable == {i \in Links : Confirmable(i, clock) /\ change[i].user = u}
  <2>1. usable \subseteq Offered(u) /\ confirmable \subseteq Open(u)
    BY DEF ActiveInvitation, Confirmable, Offered, Open
  <2>2. ASSUME <<"invite", u>> \notin hist.torn, ~Busy("resend", u)
        PROVE  AtMostOne(usable) /\ (Exists(u) /\ user[u].active => usable = {})
    BY <2>1, <2>2 DEF InviteOf, Busy, About, AtMostOne
  <2>3. ASSUME <<"change", u>> \notin hist.torn PROVE AtMostOne(confirmable)
    BY <2>1, <2>3 DEF ChangeOf, AtMostOne
  <2> HIDE DEF usable, confirmable
  <2>4. (AtMostOne(usable) => Cardinality(usable) <= 1)
        /\ (AtMostOne(confirmable) => Cardinality(confirmable) <= 1)
    BY AtMostOneCounted
  <2> QED
    BY <2>2, <2>3, <2>4 DEF usable, confirmable
<1> HIDE DEF Latest
<1> QED
  BY <1>1, <1>2, <1>3, UsersAlwaysKnown, PTL DEF Spec

-------------------------------------------------------------------------------
(* GuessesBounded.  Two logins that overlap read the same count, and the   *)
(* slower one puts the count back and takes the lock away.  So the count   *)
(* alone bounds nothing; what does is m, the least that any login under    *)
(* way has read.  An account whose count is f allows T - f + 1 guesses     *)
(* with the count it has, and Left(m + 1) once that count has been put     *)
(* back; a lock that runs out allows two more.                             *)
Left(f) == IF f < LockThreshold
           THEN ((LockThreshold - f) * (LockThreshold - f + 3)) \div 2 ELSE 0
Bound(t) == Left(0) + 2 * (t \div (LockTtl - 1))

(* One of n and n + 3 is even.                                             *)
LEMMA Halves ==
  ASSUME NEW n \in Nat
  PROVE  (n * (n + 3)) \div 2 \in Nat /\ 2 * ((n * (n + 3)) \div 2) = n * (n + 3)
<1>1. PICK k \in Nat : n = 2 * k \/ n = 2 * k + 1
  <2>1. n \div 2 \in Nat /\ (n = 2 * (n \div 2) \/ n = 2 * (n \div 2) + 1)
    OBVIOUS
  <2> QED
    BY <2>1
<1>2. PICK j \in Nat : n * (n + 3) = 2 * j
  <2>1. CASE n = 2 * k
    <3>1. n * (n + 3) = 2 * (k * (2 * k + 3)) /\ k * (2 * k + 3) \in Nat
      BY ONLY <2>1, k \in Nat
    <3> QED
      BY <3>1
  <2>2. CASE n = 2 * k + 1
    <3>1. n * (n + 3) = 2 * ((2 * k + 1) * (k + 2)) /\ (2 * k + 1) * (k + 2) \in Nat
      BY ONLY <2>2, k \in Nat
    <3> QED
      BY <3>1
  <2> QED
    BY <1>1, <2>1, <2>2
<1>3. (2 * j) \div 2 = j
  OBVIOUS
<1> QED
  BY <1>2, <1>3

LEMMA Quotient ==
  ASSUME NEW a \in Nat, NEW b \in Nat \ {0}
  PROVE  a \div b \in Nat /\ b * (a \div b) <= a /\ a < b * (a \div b) + b
OBVIOUS

(* Time only adds to the bound, and a lock that runs out adds two.         *)
LEMMA QuotientGrows ==
  ASSUME NEW a \in Nat, NEW c \in Nat, NEW b \in Nat \ {0}
  PROVE  /\ c <= a => c \div b <= a \div b
         /\ c + b <= a => c \div b + 1 <= a \div b
<1>1. PICK x \in Nat : x = a \div b /\ b * x <= a /\ a < b * x + b
  BY Quotient
<1>2. PICK y \in Nat : y = c \div b /\ b * y <= c /\ c < b * y + b
  BY Quotient
<1>3. c <= a => y <= x
  <2>1. ASSUME y >= x + 1 PROVE b * y >= b * x + b
    BY ONLY <2>1, x \in Nat, y \in Nat, b \in Nat
  <2> QED
    BY <1>1, <1>2, <2>1
<1>4. c + b <= a => y + 1 <= x
  <2>1. ASSUME y >= x PROVE b * y >= b * x
    BY ONLY <2>1, x \in Nat, y \in Nat, b \in Nat
  <2> QED
    BY <1>1, <1>2, <2>1
<1> QED
  BY <1>1, <1>2, <1>3, <1>4

LEMMA BoundGrows ==
  ASSUME NEW a \in Nat, NEW c \in Nat
  PROVE  /\ Bound(c) \in Nat /\ Left(0) <= Bound(c)
         /\ c <= a => Bound(c) <= Bound(a)
         /\ c + (LockTtl - 1) <= a => Bound(c) + 2 <= Bound(a)
<1>1. LockTtl - 1 \in Nat \ {0} /\ LockThreshold \in Nat
  BY StoreAssumption
<1>2. Left(0) \in Nat
  BY <1>1, Halves DEF Left
<1> DEFINE x == a \div (LockTtl - 1)
           y == c \div (LockTtl - 1)
<1>3. x \in Nat /\ y \in Nat
  BY <1>1, Quotient
<1>4. (c <= a => y <= x) /\ (c + (LockTtl - 1) <= a => y + 1 <= x)
  BY <1>1, QuotientGrows
<1>5. Bound(a) = Left(0) + 2 * x /\ Bound(c) = Left(0) + 2 * y
  BY DEF Bound
<1> HIDE DEF x, y
<1> QED
  BY <1>2, <1>3, <1>4, <1>5

(* What is left after one more failure that is put back.                   *)
LEMMA LeftIs ==
  ASSUME NEW f \in Nat
  PROVE  /\ Left(f) \in Nat
         /\ f < LockThreshold => Left(f) = LockThreshold - f + 1 + Left(f + 1)
<1>1. LockThreshold \in Nat
  BY StoreAssumption
<1>2. CASE f < LockThreshold
  <2> DEFINE n == LockThreshold - f
             a == (n * (n + 3)) \div 2
             b == ((n - 1) * ((n - 1) + 3)) \div 2
  <2>1. n \in Nat /\ n >= 1 /\ n - 1 \in Nat
    BY <1>1, <1>2
  <2>2. a \in Nat /\ 2 * a = n * (n + 3)
    BY <2>1, Halves
  <2>3. b \in Nat /\ 2 * b = (n - 1) * ((n - 1) + 3)
    BY <2>1, Halves
  <2>4. a = n + 1 + b
    <3> HIDE DEF n, a, b
    <3>1. n * (n + 3) = (n - 1) * ((n - 1) + 3) + 2 * (n + 1)
      BY ONLY <2>1
    <3> QED
      BY <2>1, <2>2, <2>3, <3>1
  <2>5. Left(f) = a
    BY <1>2 DEF Left
  <2>6. Left(f + 1) = b
    <3>1. CASE f + 1 < LockThreshold
      <4>1. LockThreshold - (f + 1) = n - 1
        BY <1>1, <1>2
      <4> HIDE DEF n
      <4> QED
        BY <3>1, <4>1 DEF Left
    <3>2. CASE ~(f + 1 < LockThreshold)
      <4>1. n = 1
        BY <1>1, <1>2, <3>2
      <4>2. b = (0 * 3) \div 2
        BY <4>1
      <4>3. b = 0
        BY <4>2
      <4> QED
        BY <3>2, <4>3 DEF Left
    <3> QED
      BY <3>1, <3>2
  <2> HIDE DEF n, a, b
  <2> QED
    BY <1>2, <2>1, <2>2, <2>4, <2>5, <2>6 DEF n
<1>3. CASE ~(f < LockThreshold)
  BY <1>3 DEF Left
<1> QED
  BY <1>2, <1>3

LEMMA LeftFalls ==
  ASSUME NEW a \in Nat, NEW b \in Nat, a <= b
  PROVE  Left(b) <= Left(a)
<1>1. LockThreshold \in Nat /\ Left(a) \in Nat /\ Left(b) \in Nat
  BY StoreAssumption, LeftIs
<1>2. CASE b < LockThreshold
  <2> DEFINE n == LockThreshold - a
             k == LockThreshold - b
  <2>1. n \in Nat /\ k \in Nat /\ k <= n
    BY <1>1, <1>2
  <2>2. /\ 2 * Left(a) = n * (n + 3) /\ 2 * Left(b) = k * (k + 3)
    BY <1>1, <1>2, <2>1, Halves DEF Left
  <2> HIDE DEF n, k
  <2>3. k * (k + 3) <= n * (n + 3)
    <3>1. PICK d \in Nat : n = k + d
      <4>1. n - k \in Nat /\ n = k + (n - k)
        BY <2>1
      <4> QED
        BY <4>1
    <3>2. (k + d) * (k + d + 3) = k * (k + 3) + (2 * (k * d) + d * d + 3 * d)
      BY ONLY <2>1, d \in Nat
    <3>3. k * d \in Nat /\ d * d \in Nat /\ k * (k + 3) \in Nat
      BY <2>1
    <3> QED
      BY <3>1, <3>2, <3>3
  <2> QED
    BY <1>1, <2>2, <2>3
<1>3. CASE ~(b < LockThreshold)
  BY <1>1, <1>3 DEF Left
<1> QED
  BY <1>2, <1>3

(* The guesses allowed with the count as it is: below the threshold they   *)
(* are counted, above it those p that are under way are let through.       *)
Cost(f, p) == IF f < LockThreshold THEN LockThreshold - f + 1 ELSE p
Room(t, f, p, m, c) == t + Cost(f, p) + Left(m + 1) <= Bound(c)

(* Fewer guesses under way cost no more.                                   *)
LEMMA RoomMore ==
  ASSUME NEW t \in Nat, NEW f \in Nat, NEW p \in Nat, NEW m \in Nat, NEW c \in Nat,
         NEW s \in Nat, Room(t, f, p, m, c), s <= p
  PROVE  Room(t, f, s, m, c)
<1>1. Left(m + 1) \in Nat /\ Bound(c) \in Nat /\ LockThreshold \in Nat
  <2>1. m + 1 \in Nat
    OBVIOUS
  <2> QED
    BY <2>1, StoreAssumption, LeftIs, BoundGrows
<1> QED
  BY <1>1 DEF Room, Cost

(* A wrong password that is counted below the threshold.                   *)
LEMMA CountedLow ==
  ASSUME NEW t \in Nat, NEW f \in Nat, NEW p \in Nat, NEW m \in Nat, NEW c \in Nat,
         NEW k \in Nat, NEW n \in Nat, NEW s \in Nat, Room(t, f, p, m, c),
         k <= t + 1, m <= f, m < n, p >= 1, n < LockThreshold
  PROVE  Room(k, n, s, n, c)
<1>0. LockThreshold \in Nat \ {0}
  BY StoreAssumption
<1> USE <1>0
<1>1. Left(m + 1) \in Nat /\ Left(n) \in Nat /\ Left(n + 1) \in Nat /\ Bound(c) \in Nat
  <2>1. m + 1 \in Nat /\ n + 1 \in Nat
    OBVIOUS
  <2> QED
    BY <2>1, LeftIs, BoundGrows
<1>2. Left(n) = LockThreshold - n + 1 + Left(n + 1)
  BY LeftIs
<1>3. Left(n) <= Left(m + 1)
  <2>1. m + 1 \in Nat /\ m + 1 <= n
    OBVIOUS
  <2> QED
    BY <2>1, LeftFalls
<1>4. Cost(n, s) = LockThreshold - n + 1
  BY DEF Cost
<1>5. k + (LockThreshold - n + 1) + Left(n + 1) <= Bound(c)
  <2>1. CASE f < LockThreshold
    <3>1. t + (LockThreshold - f + 1) + Left(m + 1) <= Bound(c)
      BY <2>1 DEF Room, Cost
    <3>2. CASE n <= f
      BY <1>1, <1>2, <1>3, <2>1, <3>1, <3>2
    <3>3. CASE ~(n <= f)
      BY <1>1, <1>2, <1>3, <2>1, <3>1, <3>3
    <3> QED
      BY <3>2, <3>3
  <2>2. CASE ~(f < LockThreshold)
    <3>1. t + p + Left(m + 1) <= Bound(c)
      BY <2>2 DEF Room, Cost
    <3> QED
      BY <1>1, <1>2, <1>3, <3>1
  <2> QED
    BY <2>1, <2>2
<1> QED
  BY <1>4, <1>5 DEF Room

(* The same, while a login that has read less is still under way.          *)
LEMMA CountedLate ==
  ASSUME NEW t \in Nat, NEW f \in Nat, NEW p \in Nat, NEW m \in Nat, NEW c \in Nat,
         NEW k \in Nat, NEW n \in Nat, NEW z \in Nat, NEW s \in Nat, Room(t, f, p, m, c),
         k <= t + 1, m <= z, f < n, n < LockThreshold
  PROVE  Room(k, n, s, z, c)
<1>0. LockThreshold \in Nat \ {0}
  BY StoreAssumption
<1> USE <1>0
<1>1. Left(m + 1) \in Nat /\ Left(z + 1) \in Nat /\ Bound(c) \in Nat
  <2>1. m + 1 \in Nat /\ z + 1 \in Nat
    OBVIOUS
  <2> QED
    BY <2>1, LeftIs, BoundGrows
<1>2. Left(z + 1) <= Left(m + 1)
  <2>1. m + 1 \in Nat /\ z + 1 \in Nat /\ m + 1 <= z + 1
    OBVIOUS
  <2> QED
    BY <2>1, LeftFalls
<1>3. t + (LockThreshold - f + 1) + Left(m + 1) <= Bound(c)
  BY DEF Room, Cost
<1>4. Cost(n, s) = LockThreshold - n + 1
  BY DEF Cost
<1>5. k + (LockThreshold - n + 1) + Left(z + 1) <= Bound(c)
  BY <1>1, <1>2, <1>3
<1> QED
  BY <1>4, <1>5 DEF Room

(* A wrong password that locks the account.                                *)
LEMMA CountedHigh ==
  ASSUME NEW t \in Nat, NEW f \in Nat, NEW p \in Nat, NEW m \in Nat, NEW c \in Nat,
         NEW k \in Nat, NEW n \in Nat, NEW s \in Nat, Room(t, f, p, m, c),
         k <= t + 1, s + 1 <= p, p <= 2, n >= LockThreshold
  PROVE  Room(k, n, s, m, c) /\ k + Left(m + 1) <= Bound(c)
<1>0. LockThreshold \in Nat \ {0}
  BY StoreAssumption
<1> USE <1>0
<1>1. Left(m + 1) \in Nat /\ Bound(c) \in Nat
  <2>1. m + 1 \in Nat
    OBVIOUS
  <2> QED
    BY <2>1, LeftIs, BoundGrows
<1>2. t + (IF f < LockThreshold THEN LockThreshold - f + 1 ELSE p) + Left(m + 1) <= Bound(c)
  BY DEF Room, Cost
<1>3. Cost(n, s) = s
  BY DEF Cost
<1>4. k + s + Left(m + 1) <= Bound(c)
  BY <1>1, <1>2
<1> QED
  BY <1>1, <1>3, <1>4 DEF Room
-------------------------------------------------------------------------------
(* The guesses under way on an account, and when it can be tried again.    *)
Guess(q, u) == Doing(q, "login", "write") /\ ~req[q].ok /\ req[q].user = u
Guessing(u) == {q \in Requests : Guess(q, u)}
LockEnd(u) == IF IsLocked(user[u]) THEN user[u].lockedUntil ELSE clock

(* While the account is locked nobody reads its count; when the lock runs  *)
(* out, two requests do before either counts.                              *)
Fits(u, m) ==
  /\ m <= user[u].failed
  /\ \A q \in Guessing(u) : m <= req[q].failed
  /\ Room(hist.tested[u], user[u].failed, Cardinality(Guessing(u)), m, clock)
  /\ user[u].failed >= LockThreshold =>
       hist.tested[u] + Left(m + 1) + 2 <= Bound(LockEnd(u))

(* When the count has grown since, only one of two guesses has read less.  *)
Both(u) ==
  \A q, x \in Guessing(u) : q # x =>
    user[u].failed <= req[q].failed \/ user[u].failed <= req[x].failed

GuessesOf(u) == Exists(u) => Both(u) /\ \E m \in Nat : Fits(u, m)

(* A row that is still to be created has nothing counted against it.       *)
Reserved(u) == \E p \in Requests : Doing(p, "invite", "create") /\ req[p].user = u
Unborn(u) == NeverUsed(u) \/ Reserved(u) => hist.tested[u] = 0 /\ Guessing(u) = {}

Pair == Cardinality(Requests) = 2

(* What a step does to the guesses on an account.                          *)
PendingKept(u) ==
  \A p \in Requests : Guess(p, u)' => Guess(p, u) /\ req'[p].failed = req[p].failed
AttemptsKept(u) ==
  user'[u] # None =>
    /\ Exists(u) /\ user'[u].failed = user[u].failed
    /\ user'[u].lockedUntil = user[u].lockedUntil

LEMMA PairCounts ==
  ASSUME Pair, NEW S \in SUBSET Requests
  PROVE  /\ IsFiniteSet(S) /\ Cardinality(S) \in 0 .. 2
         /\ \A T \in SUBSET S : Cardinality(T) <= Cardinality(S)
         /\ \A x \in S : Cardinality(S \ {x}) + 1 = Cardinality(S)
         /\ \A x, y, z \in Requests : x # y => z \in {x, y}
<1>1. IsFiniteSet(Requests)
  BY StoreAssumption
<1>2. IsFiniteSet(S) /\ Cardinality(S) \in 0 .. 2
  BY <1>1, FS_Subset, FS_CardinalityType DEF Pair
<1>3. ASSUME NEW T \in SUBSET S PROVE Cardinality(T) <= Cardinality(S)
  BY <1>2, FS_Subset
<1>4. ASSUME NEW x \in S PROVE Cardinality(S \ {x}) + 1 = Cardinality(S)
  <2>1. Cardinality(S \ {x}) = Cardinality(S) - 1
    BY <1>2, <1>4, FS_RemoveElement
  <2> QED
    BY <1>2, <2>1
<1>5. ASSUME NEW x \in Requests, NEW y \in Requests, NEW z \in Requests, x # y, z \notin {x, y}
      PROVE  FALSE
  <2>1. IsFiniteSet(Requests \ {x}) /\ Cardinality(Requests \ {x}) = 1
    BY <1>1, FS_RemoveElement DEF Pair
  <2>2. PICK a : Requests \ {x} = {a}
    BY <2>1, FS_Singleton
  <2> QED
    BY <1>5, <2>2
<1> QED
  BY <1>2, <1>3, <1>4, <1>5

LEMMA GuessTyped ==
  ASSUME IInv, NEW u \in Users
  PROVE  /\ clock \in Nat /\ hist.tested[u] \in Nat
         /\ Exists(u) => /\ user[u] \in UserRow /\ user[u].failed \in Nat
                         /\ LockEnd(u) \in Nat /\ clock <= LockEnd(u)
         /\ \A q \in Requests : Guess(q, u) =>
              /\ req[q] \in LoginReq /\ req[q].failed \in Nat /\ req[q].now \in Nat
              /\ clock <= req[q].now + 1
<1>1. clock \in Nat /\ hist.tested[u] \in Nat
  BY StoreAssumption DEF IInv, StoresTyped, Histories
<1>2. ASSUME Exists(u)
      PROVE  /\ user[u] \in UserRow /\ user[u].failed \in Nat
             /\ LockEnd(u) \in Nat /\ clock <= LockEnd(u)
  <2>1. user[u] \in UserRow
    BY <1>2 DEF IInv, StoresTyped, Exists
  <2>2. user[u].failed \in Nat /\ user[u].lockedUntil \in Nat \cup {None}
    BY <2>1 DEF UserRow
  <2> QED
    BY <1>1, <2>1, <2>2 DEF LockEnd, IsLocked
<1>3. ASSUME NEW q \in Requests, Guess(q, u)
      PROVE  /\ req[q] \in LoginReq /\ req[q].failed \in Nat /\ req[q].now \in Nat
             /\ clock <= req[q].now + 1
  <2>1. req[q] \in LoginReq
    BY <1>3, FieldsOf DEF IInv, RequestsOK, Guess, Doing
  <2>2. req[q] # Idle
    BY <1>3 DEF Guess, Doing, Idle
  <2> QED
    BY <2>1, <2>2 DEF LoginReq, IInv, RequestsOK, Sound, Timely
<1> QED
  BY <1>1, <1>2, <1>3

(* A step that touches neither the count nor the guesses, or ends some.    *)
LEMMA GuessesStay ==
  ASSUME IInv, Pair, NEW u \in Users, GuessesOf(u), clock' = clock,
         hist'.tested[u] = hist.tested[u], PendingKept(u), AttemptsKept(u)
  PROVE  GuessesOf(u)'
<1> SUFFICES ASSUME user'[u] # None PROVE Both(u)' /\ \E m \in Nat : Fits(u, m)'
  BY DEF GuessesOf, Exists
<1>1. /\ Exists(u) /\ user'[u].failed = user[u].failed
      /\ user'[u].lockedUntil = user[u].lockedUntil
  BY DEF AttemptsKept
<1>2. Both(u)
  BY <1>1 DEF GuessesOf
<1>3. PICK m \in Nat : Fits(u, m)
  BY <1>1 DEF GuessesOf
<1> DEFINE S == Guessing(u)
           R == Guessing(u)'
<1>4. /\ R \subseteq S /\ \A p \in R : req'[p].failed = req[p].failed
      /\ S \in SUBSET Requests
  BY DEF PendingKept, Guessing
<1>5. Cardinality(R) <= Cardinality(S) /\ Cardinality(R) \in Nat /\ Cardinality(S) \in Nat
  <2>1. R \in SUBSET Requests /\ R \in SUBSET S
    BY <1>4
  <2> HIDE DEF R, S
  <2> QED
    BY <1>4, <2>1, PairCounts
<1>6. LockEnd(u)' = LockEnd(u)
  BY <1>1 DEF LockEnd, IsLocked
<1>7. Both(u)'
  BY <1>1, <1>2, <1>4 DEF Both
<1>8. Room(hist'.tested[u], user'[u].failed, Cardinality(R), m, clock')
  <2>1. Room(hist.tested[u], user[u].failed, Cardinality(S), m, clock)
    BY <1>3 DEF Fits
  <2> HIDE DEF R, S
  <2> QED
    BY <1>1, <1>5, <2>1, RoomMore, GuessTyped
<1>9. Fits(u, m)'
  BY <1>1, <1>3, <1>4, <1>6, <1>8 DEF Fits
<1> QED
  BY <1>7, <1>9

(* An account that has no failures has all of the guesses before it.       *)
LEMMA GuessesAnew ==
  ASSUME IInv, Pair, NEW u \in Users, clock' = clock,
         hist'.tested[u] = 0,
         user'[u] # None => user'[u].failed = 0,
         \A p \in Requests : Guess(p, u)' => req'[p].failed \in Nat
  PROVE  GuessesOf(u)'
<1> SUFFICES ASSUME user'[u] # None PROVE Both(u)' /\ Fits(u, 0)'
  BY DEF GuessesOf, Exists
<1>1. user'[u].failed = 0 /\ clock \in Nat
  BY GuessTyped
<1>2. \A p \in Guessing(u)' : 0 <= req'[p].failed
  BY DEF Guessing
<1>3. Both(u)'
  BY <1>1, <1>2 DEF Both
<1>4. Room(0, 0, Cardinality(Guessing(u)'), 0, clock)
  <2>1. LockThreshold \in Nat \ {0}
    BY StoreAssumption
  <2>2. /\ Left(0) = LockThreshold + 1 + Left(1) /\ Left(0) <= Bound(clock)
        /\ Bound(clock) \in Nat /\ Left(1) \in Nat
    BY <1>1, <2>1, LeftIs, BoundGrows
  <2>3. Cost(0, Cardinality(Guessing(u)')) = LockThreshold + 1
    BY <2>1 DEF Cost
  <2> QED
    BY <2>1, <2>2, <2>3 DEF Room
<1>5. ~(0 >= LockThreshold)
  BY StoreAssumption
<1>6. Fits(u, 0)'
  BY <1>1, <1>2, <1>4, <1>5 DEF Fits
<1> QED
  BY <1>3, <1>6

(* A login reads the count, and has it tested later.                       *)
LEMMA GuessReads ==
  ASSUME IInv, Pair, NEW u \in Users, GuessesOf(u), NEW q \in Requests, LoginRead(q, u, FALSE)
  PROVE  GuessesOf(u)'
<1>1. /\ Exists(u) /\ ~IsLocked(user[u]) /\ clock' = clock /\ user' = user /\ hist' = hist
      /\ req[q] = Idle /\ req'[q].op = "login" /\ req'[q].failed = user[u].failed
      /\ \A p \in Requests \ {q} : req'[p] = req[p]
  BY DEF LoginRead, Begin, tables, IInv, RequestsOK
<1>2. Both(u)
  BY <1>1 DEF GuessesOf
<1>3. PICK m \in Nat : Fits(u, m)
  BY <1>1 DEF GuessesOf
<1> DEFINE S == Guessing(u)
           R == Guessing(u)'
<1>4. R \subseteq S \cup {q} /\ q \notin S /\ R \in SUBSET Requests /\ S \in SUBSET Requests
  BY <1>1 DEF Guessing, Guess, Doing, Idle
<1>5. \A p \in R : req'[p].failed = user[u].failed \/ (p \in S /\ req'[p].failed = req[p].failed)
  BY <1>1, <1>4
<1>6. LockEnd(u) = clock /\ LockEnd(u)' = clock
  BY <1>1 DEF LockEnd, IsLocked
<1>7. Both(u)'
  <2> SUFFICES ASSUME NEW x \in R, NEW y \in R, x # y
               PROVE  user[u].failed <= req'[x].failed \/ user[u].failed <= req'[y].failed
    BY <1>1 DEF Both
  <2>1. user[u].failed \in Nat
    BY <1>1, GuessTyped
  <2>2. CASE x \in S /\ y \in S
    BY <1>1, <1>2, <1>4, <2>2 DEF Both
  <2>3. CASE ~(x \in S /\ y \in S)
    BY <1>5, <2>1, <2>3
  <2> QED
    BY <2>2, <2>3
<1>8. Room(hist.tested[u], user[u].failed, Cardinality(R), m, clock)
  <2>1. user[u].failed \in Nat /\ hist.tested[u] \in Nat /\ clock \in Nat
    BY <1>1, GuessTyped
  <2>2. Cardinality(R) \in 0 .. 2
    BY <1>4, PairCounts
  <2>3. CASE user[u].failed < LockThreshold
    BY <1>3, <2>3 DEF Fits, Room, Cost
  <2>4. CASE ~(user[u].failed < LockThreshold)
    <3>1. hist.tested[u] + Left(m + 1) + 2 <= Bound(clock)
      BY <1>3, <1>6, <2>1, <2>4, StoreAssumption DEF Fits
    <3>2. Left(m + 1) \in Nat /\ Bound(clock) \in Nat
      BY <2>1, LeftIs, BoundGrows
    <3>3. hist.tested[u] + Cardinality(R) + Left(m + 1) <= Bound(clock)
      <4> HIDE DEF R
      <4> QED
        BY <2>1, <2>2, <3>1, <3>2
    <3> QED
      BY <2>4, <3>3 DEF Room, Cost
  <2> QED
    BY <2>3, <2>4
<1>9. \A p \in R : m <= req'[p].failed
  BY <1>3, <1>5 DEF Fits
<1>10. Fits(u, m)'
  BY <1>1, <1>3, <1>6, <1>8, <1>9 DEF Fits
<1> QED
  BY <1>7, <1>10 DEF GuessesOf

(* What a wrong password that is counted writes.                           *)
LEMMA FailWrites ==
  ASSUME IInv, NEW q \in Requests, LoginFail(q), NEW u \in Users, req[q].user = u
  PROVE  /\ clock' = clock /\ hist'.tested[u] = hist.tested[u] + 1
         /\ Guess(q, u) /\ req'[q] = Idle /\ \A p \in Requests \ {q} : req'[p] = req[p]
         /\ user'[u] # None =>
              /\ Exists(u) /\ user'[u].failed = req[q].failed + 1
              /\ user'[u].lockedUntil = IF req[q].failed + 1 >= LockThreshold
                                        THEN req[q].now + LockTtl ELSE None
<1>1. /\ user \in [Users -> UserRow \cup {None}] /\ hist \in Histories
  BY DEF IInv, StoresTyped
<1>2. /\ clock' = clock /\ Guess(q, u)
      /\ req'[q] = Idle /\ \A p \in Requests \ {q} : req'[p] = req[p]
  BY EndOf DEF LoginFail, Guess
<1> DEFINE n == req[q].failed + 1
           until == IF n >= LockThreshold THEN req[q].now + LockTtl ELSE None
           k == hist.tested[u] + 1
<1>3. hist' = [hist EXCEPT !.tested[u] = k]
  BY DEF LoginFail
<1>4. user' = IF Exists(u) THEN [user EXCEPT ![u].failed = n, ![u].lockedUntil = until]
              ELSE user
  BY DEF LoginFail
<1> HIDE DEF n, until, k
<1>5. hist'.tested[u] = k
  BY <1>1, <1>3 DEF Histories
<1>6. ASSUME user'[u] # None
      PROVE  Exists(u) /\ user'[u].failed = n /\ user'[u].lockedUntil = until
  <2>1. Exists(u)
    BY <1>4, <1>6 DEF Exists
  <2>2. user[u] \in UserRow
    BY <1>1, <2>1 DEF Exists
  <2>3. user'[u] = [user[u] EXCEPT !.failed = n, !.lockedUntil = until]
    BY <1>1, <1>4, <2>1
  <2> QED
    BY <2>1, <2>2, <2>3 DEF UserRow
<1> QED
  BY <1>2, <1>5, <1>6 DEF n, until, k

(* Below the threshold the count may fall back to what a slower login has  *)
(* read; then the faster one has used up its guess.                        *)
LEMMA GuessFails ==
  ASSUME IInv, Pair, NEW u \in Users, GuessesOf(u), NEW q \in Requests, LoginFail(q),
         req[q].user = u
  PROVE  GuessesOf(u)'
<1> SUFFICES ASSUME user'[u] # None PROVE Both(u)' /\ \E m \in Nat : Fits(u, m)'
  BY DEF GuessesOf, Exists
<1> DEFINE S == Guessing(u)
           R == Guessing(u)'
<1>0. PICK t \in Nat, f \in Nat, k \in Nat, n \in Nat :
        /\ t = hist.tested[u] /\ f = user[u].failed
        /\ k = t + 1 /\ n = req[q].failed + 1
  <2>1. Guess(q, u) /\ Exists(u)
    BY FailWrites
  <2>2. hist.tested[u] \in Nat /\ user[u].failed \in Nat /\ req[q].failed \in Nat
    BY <2>1, GuessTyped
  <2>3. hist.tested[u] + 1 \in Nat /\ req[q].failed + 1 \in Nat
    BY <2>2
  <2> QED
    BY <2>2, <2>3
<1>1. /\ clock' = clock /\ hist'.tested[u] = k
      /\ Guess(q, u) /\ req'[q] = Idle /\ \A x \in Requests \ {q} : req'[x] = req[x]
      /\ Exists(u) /\ user'[u].failed = n
      /\ user'[u].lockedUntil = IF n >= LockThreshold THEN req[q].now + LockTtl ELSE None
  BY <1>0, FailWrites
<1>2. Both(u)
  BY <1>1 DEF GuessesOf
<1>3. PICK m \in Nat : Fits(u, m)
  BY <1>1 DEF GuessesOf
<1>4. /\ clock \in Nat /\ req[q].failed \in Nat /\ req[q].now \in Nat
      /\ clock <= req[q].now + 1
      /\ \A x \in S : req[x].failed \in Nat
  BY <1>0, <1>1, GuessTyped DEF Guessing
<1>5. R = S \ {q} /\ q \in S /\ S \in SUBSET Requests
  BY <1>1 DEF Guessing, Guess, Doing, Idle
<1>6. PICK p \in Nat, s \in Nat :
        p = Cardinality(S) /\ s = Cardinality(R) /\ s + 1 = p /\ p >= 1 /\ p <= 2
  <2> HIDE DEF R, S
  <2>1. Cardinality(S) \in 0 .. 2 /\ Cardinality(R) + 1 = Cardinality(S)
    BY <1>5, PairCounts
  <2>2. R \in SUBSET Requests
    BY <1>5
  <2>3. Cardinality(R) \in 0 .. 2
    BY <2>2, PairCounts
  <2> QED
    BY <2>1, <2>3
<1>7. \A x \in R : x \in S /\ x # q /\ req'[x].failed = req[x].failed
  BY <1>1, <1>5
<1>8. \A x, z \in R : x = z
  BY <1>5, PairCounts
<1>9. Both(u)'
  BY <1>8 DEF Both
<1>10. Room(t, f, p, m, clock) /\ k <= t + 1 /\ m <= f /\ m < n /\ \A x \in R : m <= req[x].failed
  BY <1>0, <1>3, <1>4, <1>5, <1>6 DEF Fits
<1>15. s + 1 <= p /\ p >= 1 /\ p <= 2 /\ clock \in Nat
  BY <1>4, <1>6
<1>11. LockThreshold \in Nat \ {0} /\ LockTtl \in Nat \ {0, 1} /\ None \notin Nat
  BY StoreAssumption
<1>12. ASSUME NEW z \in Nat, Room(k, n, s, z, clock), z <= n,
              \A x \in R : z <= req[x].failed,
              n >= LockThreshold => k + Left(z + 1) + 2 <= Bound(LockEnd(u)')
       PROVE  Fits(u, z)'
  <2> HIDE DEF S
  <2> QED
    BY <1>1, <1>6, <1>7, <1>12 DEF Fits
<1>13. CASE n < LockThreshold
  <2>1. ~(n >= LockThreshold)
    BY <1>0, <1>4, <1>11, <1>13
  <2>2. CASE \A x \in R : n <= req[x].failed
    <3>1. Room(k, n, s, n, clock)
      <4> HIDE DEF S, R
      <4> QED
        BY <1>10, <1>15, <1>13, CountedLow
    <3>2. Fits(u, n)'
      <4> HIDE DEF S, R
      <4> QED
        BY <1>4, <1>12, <2>1, <2>2, <3>1
    <3> HIDE DEF S, R
    <3> QED
      BY <1>4, <1>9, <3>2
  <2>3. CASE ~\A x \in R : n <= req[x].failed
    <3>1. PICK x \in R : ~(n <= req[x].failed)
      BY <2>3
    <3>2. PICK z \in Nat : z = req[x].failed
      BY <1>4, <1>7
    <3>3. z < n /\ m <= z
      BY <1>4, <1>10, <3>1, <3>2
    <3>4. f < n
      <4>1. f <= req[q].failed \/ f <= z
        BY <1>0, <1>2, <1>5, <1>7, <3>2 DEF Both
      <4> QED
        BY <1>0, <1>4, <3>3, <4>1
    <3>5. \A w \in R : z <= req[w].failed
      BY <1>8, <3>2
    <3> HIDE DEF S, R
    <3>6. Room(k, n, s, z, clock)
      <4>1. Room(t, f, p, m, clock) /\ k <= t + 1
        BY <1>10
      <4>2. m <= z /\ f < n /\ n < LockThreshold /\ clock \in Nat
        BY <1>13, <1>15, <3>3, <3>4
      <4> QED
        BY ONLY <4>1, <4>2, CountedLate, t \in Nat, f \in Nat, p \in Nat, m \in Nat,
           k \in Nat, n \in Nat, z \in Nat, s \in Nat
    <3>7. Fits(u, z)'
      <4>1. z <= n
        BY <3>3
      <4> QED
        BY <1>12, <2>1, <3>5, <3>6, <4>1
    <3> QED
      BY <1>9, <3>7
  <2> QED
    BY <2>2, <2>3
<1>14. CASE ~(n < LockThreshold)
  <2>1. n >= LockThreshold
    BY <1>0, <1>4, <1>11, <1>14
  <2>2. Room(k, n, s, m, clock) /\ k + Left(m + 1) <= Bound(clock)
    <3> HIDE DEF S, R
    <3> QED
      BY <1>10, <1>15, <2>1, CountedHigh
  <2> DEFINE e == LockEnd(u)'
  <2>3. e \in Nat /\ clock + (LockTtl - 1) <= e
    <3>1. user'[u].lockedUntil = req[q].now + LockTtl
      BY <1>1, <2>1
    <3>2. req[q].now + LockTtl > clock
      BY <1>4, <1>11
    <3>3. e = req[q].now + LockTtl
      BY <1>1, <1>4, <1>11, <3>1, <3>2 DEF LockEnd, IsLocked
    <3> QED
      BY <1>0, <1>4, <1>11, <3>3
  <2> HIDE DEF S, R, e
  <2>4. k + Left(m + 1) + 2 <= Bound(e)
    <3>1. Bound(clock) + 2 <= Bound(e) /\ Bound(clock) \in Nat /\ Bound(e) \in Nat
      BY <1>4, <2>3, BoundGrows
    <3>2. Left(m + 1) \in Nat
      BY LeftIs
    <3> QED
      BY <1>0, <1>4, <2>2, <3>1, <3>2
  <2>5. m <= n
    BY <1>4, <1>10
  <2>6. Fits(u, m)'
    BY <1>10, <1>12, <2>2, <2>4, <2>5 DEF e
  <2> QED
    BY <1>9, <2>6
<1> QED
  BY <1>13, <1>14

(* Time only gives more guesses.                                           *)
LEMMA GuessesWait ==
  ASSUME IInv, Pair, NEW u \in Users, GuessesOf(u), clock' = clock + 1, user' = user,
         req' = req, hist' = hist
  PROVE  GuessesOf(u)'
<1> SUFFICES ASSUME Exists(u) PROVE Both(u)' /\ \E m \in Nat : Fits(u, m)'
  BY DEF GuessesOf, Exists
<1>1. Both(u)
  BY DEF GuessesOf
<1>2. PICK m \in Nat : Fits(u, m)
  BY DEF GuessesOf
<1>3. Guessing(u)' = Guessing(u)
  BY DEF Guessing, Guess, Doing
<1>4. Both(u)'
  BY <1>1, <1>3 DEF Both
<1>5. /\ clock \in Nat /\ hist.tested[u] \in Nat /\ user[u] \in UserRow
      /\ LockEnd(u) \in Nat /\ Left(m + 1) \in Nat
  BY GuessTyped, LeftIs
<1>6. LockEnd(u)' \in Nat /\ LockEnd(u) <= LockEnd(u)'
  BY <1>5, StoreAssumption DEF LockEnd, IsLocked, UserRow
<1>7. /\ Bound(clock) <= Bound(clock') /\ Bound(LockEnd(u)) <= Bound(LockEnd(u)')
      /\ Bound(clock) \in Nat /\ Bound(clock') \in Nat
      /\ Bound(LockEnd(u)) \in Nat /\ Bound(LockEnd(u)') \in Nat
  <2> DEFINE a == LockEnd(u)
             e == LockEnd(u)'
  <2>1. a \in Nat /\ e \in Nat /\ a <= e
    BY <1>5, <1>6
  <2>2. clock' \in Nat /\ clock <= clock'
    BY <1>5
  <2> HIDE DEF a, e
  <2>3. Bound(a) <= Bound(e) /\ Bound(a) \in Nat /\ Bound(e) \in Nat
    BY <2>1, BoundGrows
  <2>4. Bound(clock) <= Bound(clock') /\ Bound(clock) \in Nat /\ Bound(clock') \in Nat
    BY <1>5, <2>2, BoundGrows
  <2> QED
    BY <2>3, <2>4 DEF a, e
<1>8. Room(hist.tested[u], user[u].failed, Cardinality(Guessing(u)), m, clock')
  <2> DEFINE r == hist.tested[u] + Cost(user[u].failed, Cardinality(Guessing(u)))
                    + Left(m + 1)
  <2>1. r <= Bound(clock)
    BY <1>2 DEF Fits, Room
  <2>2. r \in Nat
    <3>1. Cost(user[u].failed, Cardinality(Guessing(u))) \in Nat
      <4>1. user[u].failed \in Nat /\ LockThreshold \in Nat
        BY GuessTyped, StoreAssumption
      <4>2. Cardinality(Guessing(u)) \in Nat
        BY PairCounts DEF Guessing
      <4> QED
        BY <4>1, <4>2 DEF Cost
    <3> QED
      BY <1>5, <3>1
  <2>3. r <= Bound(clock')
    <3> HIDE DEF r
    <3> QED
      BY <1>7, <2>1, <2>2
  <2> QED
    BY <2>3 DEF Room
<1>9. user[u].failed >= LockThreshold =>
        hist.tested[u] + Left(m + 1) + 2 <= Bound(LockEnd(u)')
  <2>1. user[u].failed >= LockThreshold =>
          hist.tested[u] + Left(m + 1) + 2 <= Bound(LockEnd(u))
    BY <1>2 DEF Fits
  <2> QED
    BY <1>5, <1>7, <2>1
<1>10. Fits(u, m)'
  BY <1>2, <1>3, <1>8, <1>9 DEF Fits
<1> QED
  BY <1>4, <1>10

(* Only a login that begins adds to the guesses under way.                 *)
LEMMA PendingOf ==
  ASSUME IInv, NEW q \in Requests, Acting(q), NEW u \in Users, ~LoginRead(q, u, FALSE)
  PROVE  PendingKept(u)
<1>1. req \in [Requests -> Requested \cup {Idle}] /\ Idle.op = "idle"
  BY DEF IInv, RequestsOK, Idle
<1>2. /\ \A p \in Requests \ {q} : req'[p] = req[p]
      /\ ~Guess(q, u)'
  <2>1. CASE InvitationStep(q) \/ EmailChangeStep(q) \/ UserAdminStep(q)
    <3>1. /\ \A p \in Requests \ {q} : req'[p] = req[p]
          /\ req'[q].op # "login"
      BY <2>1, InvitationKinds, EmailKinds, AdminKinds
    <3> QED
      BY <3>1 DEF Guess, Doing
  <2>2. CASE Die(q)
    BY <1>1, <2>2, EndOf DEF Die, Guess, Doing
  <2>3. CASE \E v \in Users, ok \in BOOLEAN : LoginRead(q, v, ok)
    <3>1. PICK v \in Users, ok \in BOOLEAN : LoginRead(q, v, ok)
      BY <2>3
    <3>2. /\ req'[q].user = v /\ (req'[q].ok <=> ok)
          /\ \A p \in Requests \ {q} : req'[p] = req[p]
      BY <1>1, <3>1 DEF LoginRead, Begin
    <3>3. v # u \/ ok
      BY <3>1
    <3> QED
      BY <3>2, <3>3 DEF Guess
  <2>4. CASE LoginFail(q) \/ LoginTokens(q)
    BY <1>1, <2>4, EndOf DEF LoginFail, LoginTokens, Guess, Doing
  <2>5. CASE LoginClear(q)
    BY <1>1, <2>5, EndOf, GotoOf DEF LoginClear, Guess, Doing, Moved
  <2>6. CASE LoginSession(q)
    <3>1. PICK s : req' = [req EXCEPT ![q].sid = s, ![q].at = "tokens"]
      BY <2>6 DEF LoginSession
    <3>2. req[q] \in LoginReq
      BY <1>1, <2>6, FieldsOf DEF LoginSession, Doing
    <3> QED
      BY <1>1, <3>1, <3>2 DEF LoginReq, Guess, Doing
  <2>7. CASE RefreshSession(q) \/ RefreshCreate(q)
    <3>1. req[q] \in RefreshReq
      BY <1>1, <2>7, FieldsOf DEF RefreshSession, RefreshCreate, Doing
    <3>2. \/ End(q)
          \/ \E s : req' = [req EXCEPT ![q].at = "create", ![q].was = s]
          \/ \E t : req' = [req EXCEPT ![q].next = t, ![q].at = "revoke"]
      BY <2>7 DEF RefreshSession, RefreshCreate
    <3>3. CASE End(q)
      BY <1>1, <3>3, EndOf DEF Guess, Doing
    <3>4. CASE \E s : req' = [req EXCEPT ![q].at = "create", ![q].was = s]
      BY <1>1, <3>1, <3>4 DEF RefreshReq, Guess, Doing
    <3>5. CASE \E t : req' = [req EXCEPT ![q].next = t, ![q].at = "revoke"]
      BY <1>1, <3>1, <3>5 DEF RefreshReq, Guess, Doing
    <3> QED
      BY <3>2, <3>3, <3>4, <3>5
  <2>8. CASE \/ RefreshRevoke(q) \/ RefreshTouch(q) \/ LogoutRevoke(q)
             \/ \E reached \in BOOLEAN : LogoutDelete(q, reached)
    BY <1>1, <2>8, EndOf, GotoOf
       DEF RefreshRevoke, RefreshTouch, LogoutRevoke, LogoutDelete, Guess, Doing, Moved
  <2>9. CASE \E t \in Tokens : RefreshRead(q, t) \/ LogoutRead(q, t)
    BY <1>1, <2>9 DEF RefreshRead, LogoutRead, Begin, Guess, Doing
  <2> QED
    BY <2>1, <2>2, <2>3, <2>4, <2>5, <2>6, <2>7, <2>8, <2>9 DEF Acting, SessionStep
<1> QED
  BY <1>2 DEF PendingKept, Guess, Doing

Counting(q) == LoginFail(q) \/ LoginClear(q) \/ AcceptClaim(q)

(* Only the account that a login or an acceptance is about has its count   *)
(* and its lock written, besides the one that is created.                  *)
LEMMA AttemptsOf ==
  ASSUME IInv, NEW q \in Requests, Acting(q), NEW u \in Users,
         (~Counting(q) /\ ~InviteCreate(q)) \/ req[q].user # u
  PROVE  AttemptsKept(u)
<1>1. user \in [Users -> UserRow \cup {None}]
  BY DEF IInv, StoresTyped
<1>2. ASSUME user'[u] = user[u] \/ user'[u] = None PROVE AttemptsKept(u)
  BY <1>2 DEF AttemptsKept, Exists
<1>3. CASE Counting(q) \/ InviteCreate(q)
  <2>1. req[q].user # u
    BY <1>3
  <2>2. \/ user' = user
        \/ \E n, until : user' = [user EXCEPT ![req[q].user].failed = n,
                                              ![req[q].user].lockedUntil = until]
        \/ \E row : user' = [user EXCEPT ![req[q].user] = row]
    <3>1. CASE LoginFail(q) \/ LoginClear(q)
      BY <3>1 DEF LoginFail, LoginClear
    <3>2. CASE AcceptClaim(q)
      BY <3>2 DEF AcceptClaim
    <3>3. CASE InviteCreate(q)
      BY <3>3 DEF InviteCreate
    <3> QED
      BY <1>3, <3>1, <3>2, <3>3 DEF Counting
  <2>3. user'[u] = user[u]
    BY <1>1, <2>1, <2>2
  <2> QED
    BY <1>2, <2>3
<1>4. CASE InviteUndo(q) \/ DeleteWrite(q)
  <2>1. user'[u] = user[u] \/ user'[u] = None
    BY <1>1, <1>4 DEF InviteUndo, DeleteWrite, DeleteUser
  <2> QED
    BY <1>2, <2>1
<1>5. CASE ConfirmClaim(q) \/ UpdateWrite(q) \/ UpdateSync(q)
  <2>1. PICK r, g, e, m :
          \/ user' = user
          \/ user' = [user EXCEPT ![req[q].user].email = e]
          \/ user' = [user EXCEPT ![req[q].user].role = r,
                                  ![req[q].user].group = g,
                                  ![req[q].user].email = e]
          \/ user' = [user EXCEPT ![req[q].user].managed = m]
    <3>1. CASE ConfirmClaim(q)
      <4> DEFINE e == req[q].email
      <4>1. user' = user \/ user' = [user EXCEPT ![req[q].user].email = e]
        BY <3>1 DEF ConfirmClaim
      <4> HIDE DEF e
      <4> QED
        BY <4>1
    <3>2. CASE UpdateWrite(q)
      <4> DEFINE r == Given(req[q].patch.role, user[req[q].user].role)
                 g == Given(req[q].patch.group, user[req[q].user].group)
                 e == Given(req[q].patch.email, user[req[q].user].email)
      <4>1. CASE user' = user
        BY <4>1
      <4>2. CASE user' # user
        <5>1. user' = [user EXCEPT ![req[q].user].role = r,
                                   ![req[q].user].group = g,
                                   ![req[q].user].email = e]
          BY <3>2, <4>2 DEF UpdateWrite
        <5> HIDE DEF r, g, e
        <5> QED
          BY <5>1
      <4> QED
        BY <4>1, <4>2
    <3>3. CASE UpdateSync(q)
      BY <3>3 DEF UpdateSync
    <3> QED
      BY <1>5, <3>1, <3>2, <3>3
  <2>2. CASE user'[u] = user[u]
    BY <1>2, <2>2
  <2>3. CASE user'[u] # user[u]
    <3>1. req[q].user = u
      BY <1>1, <2>1, <2>3
    <3>2. \/ user'[u] = [user[u] EXCEPT !.email = e]
          \/ user'[u] = [user[u] EXCEPT !.role = r, !.group = g, !.email = e]
          \/ user'[u] = [user[u] EXCEPT !.managed = m]
      BY <1>1, <2>1, <2>3, <3>1
    <3>3. Exists(u)
      <4>1. CASE ConfirmClaim(q)
        <5>1. Confirmable(req[q].link, req[q].now) /\ req[q] \in ConfirmReq /\ Sound(q)
          BY <2>3, <4>1, FieldsOf DEF ConfirmClaim, Doing, IInv, RequestsOK
        <5> QED
          BY <3>1, <5>1 DEF Confirmable, Sound, ConfirmSound, ConfirmReq, IInv, Owned
      <4>2. CASE UpdateWrite(q) \/ UpdateSync(q)
        BY <2>3, <3>1, <4>2 DEF UpdateWrite, UpdateSync
      <4> QED
        BY <1>5, <4>1, <4>2
    <3>4. user[u] \in UserRow
      BY <1>1, <3>3 DEF Exists
    <3>5. user'[u].failed = user[u].failed /\ user'[u].lockedUntil = user[u].lockedUntil
      BY <3>2, <3>4 DEF UserRow
    <3> QED
      BY <3>3, <3>5 DEF AttemptsKept
  <2> QED
    BY <2>2, <2>3
<1>6. CASE ~(\/ Counting(q) \/ InviteCreate(q) \/ InviteUndo(q) \/ DeleteWrite(q)
             \/ ConfirmClaim(q) \/ UpdateWrite(q) \/ UpdateSync(q))
  <2>1. user' = user
    <3>1. CASE SessionStep(q)
      BY <1>6, <3>1 DEF Counting, SessionStep, LoginRead, LoginSession, LoginTokens,
         RefreshRead, RefreshSession, RefreshCreate, RefreshRevoke, RefreshTouch,
         LogoutRead, LogoutRevoke, LogoutDelete, tables
    <3>2. CASE InvitationStep(q)
      BY <1>6, <3>2 DEF Counting, InvitationStep, InviteCheck, ResendRead, ResendCreate,
         SendMail, ResendUndo, ResendRevoke, AcceptRead, AcceptName, tables
    <3>3. CASE EmailChangeStep(q)
      BY <1>6, <3>3 DEF EmailChangeStep, ChangeRead, ChangeTaken, ChangeDelete,
         ChangeCreate, ConfirmRead, ConfirmTaken, ConfirmBurn, tables
    <3>4. CASE UserAdminStep(q) \/ Die(q)
      BY <1>6, <3>4 DEF UserAdminStep, UpdateRead, DeleteRead, Die, tables
    <3> QED
      BY <3>1, <3>2, <3>3, <3>4 DEF Acting
  <2> QED
    BY <1>2, <2>1
<1> QED
  BY <1>3, <1>4, <1>5, <1>6

LEMMA TestedAs ==
  ASSUME hist \in Histories, NEW u \in Users,
         \/ hist' = hist
         \/ \E kind, v : hist' = Tear(kind, v)
         \/ \E t : hist' = [hist EXCEPT !.tokens = t]
         \/ \E s : hist' = [hist EXCEPT !.sids = s]
         \/ \E i : hist' = [hist EXCEPT !.invites = i]
         \/ \E i : hist' = [hist EXCEPT !.changes = i]
         \/ \E l : hist' = [hist EXCEPT !.lost = l]
         \/ \E k, i, n : hist' = [hist EXCEPT !.claims[k][i] = n]
         \/ \E v, n : v # u /\ hist' = [hist EXCEPT !.tested[v] = n]
         \/ \E v, k, i, n : v # u /\ hist' = [hist EXCEPT !.claims[k][i] = n, !.tested[v] = 0]
         \/ \E e, r : hist' = [hist EXCEPT !.ended = e, !.raced = r]
  PROVE  hist'.tested[u] = hist.tested[u]
BY DEF Histories, Tear

LEMMA TestedOf ==
  ASSUME IInv, NEW q \in Requests, Acting(q), NEW u \in Users,
         ~Counting(q) \/ req[q].user # u
  PROVE  hist'.tested[u] = hist.tested[u] /\ clock' = clock
<1>1. hist \in Histories
  BY DEF IInv, StoresTyped
<1>2. clock' = clock
  BY DEF Acting, SessionStep, LoginRead, LoginFail, LoginClear, LoginSession, LoginTokens,
         RefreshRead, RefreshSession, RefreshCreate, RefreshRevoke, RefreshTouch,
         LogoutRead, LogoutRevoke, LogoutDelete, InvitationStep, InviteCheck, InviteCreate,
         InviteUndo, ResendRead, ResendCreate, SendMail, ResendUndo, ResendRevoke,
         AcceptRead, AcceptName, AcceptClaim, EmailChangeStep, ChangeRead, ChangeTaken,
         ChangeDelete, ChangeCreate, ConfirmRead, ConfirmTaken, ConfirmBurn, ConfirmClaim,
         UserAdminStep, UpdateRead, UpdateWrite, UpdateSync, DeleteRead, DeleteWrite, Die
<1>3. CASE Counting(q)
  <2>1. req[q].user # u
    BY <1>3
  <2> DEFINE v == req[q].user
             k == hist.tested[v] + 1
             n == hist.claims["invite"][req[q].link] + 1
             i == req[q].link
  <2>2. \/ hist' = hist
        \/ hist' = [hist EXCEPT !.tested[v] = k]
        \/ hist' = [hist EXCEPT !.tested[v] = 0]
        \/ hist' = [hist EXCEPT !.claims["invite"][i] = n, !.tested[v] = 0]
    <3>1. CASE LoginFail(q)
      BY <3>1 DEF LoginFail
    <3>2. CASE LoginClear(q)
      BY <3>2 DEF LoginClear
    <3>3. CASE AcceptClaim(q)
      BY <3>3 DEF AcceptClaim
    <3> QED
      BY <1>3, <3>1, <3>2, <3>3 DEF Counting
  <2> HIDE DEF v, k, n, i
  <2>3. \/ hist' = hist
        \/ \E w, x : w # u /\ hist' = [hist EXCEPT !.tested[w] = x]
        \/ \E w, j, l, x : w # u /\ hist' = [hist EXCEPT !.claims[j][l] = x, !.tested[w] = 0]
    <3>1. v # u
      BY <2>1 DEF v
    <3>2. CASE hist' = [hist EXCEPT !.tested[v] = k] \/ hist' = [hist EXCEPT !.tested[v] = 0]
      BY <3>1, <3>2
    <3>3. CASE hist' = [hist EXCEPT !.claims["invite"][i] = n, !.tested[v] = 0]
      BY <3>1, <3>3
    <3> QED
      BY <2>2, <3>2, <3>3
  <2> QED
    BY <1>1, <1>2, <2>3, TestedAs
<1>4. CASE ~Counting(q)
  <2>1. \/ hist' = hist
        \/ \E kind, v : hist' = Tear(kind, v)
        \/ \E t : hist' = [hist EXCEPT !.tokens = t]
        \/ \E s : hist' = [hist EXCEPT !.sids = s]
        \/ \E i : hist' = [hist EXCEPT !.invites = i]
        \/ \E i : hist' = [hist EXCEPT !.changes = i]
        \/ \E l : hist' = [hist EXCEPT !.lost = l]
        \/ \E k, i, n : hist' = [hist EXCEPT !.claims[k][i] = n]
        \/ \E e, r : hist' = [hist EXCEPT !.ended = e, !.raced = r]
    <3>1. CASE SessionStep(q)
      <4>1. CASE \E reached \in BOOLEAN : LogoutDelete(q, reached)
        <5> DEFINE e == hist.ended \cup {req[q].sid}
        <5>1. \E r : hist' = [hist EXCEPT !.ended = e, !.raced = r]
          BY <4>1 DEF LogoutDelete
        <5> HIDE DEF e
        <5> QED
          BY <5>1
      <4>2. CASE ~\E reached \in BOOLEAN : LogoutDelete(q, reached)
        BY <1>4, <3>1, <4>2
           DEF Counting, SessionStep, LoginRead, LoginSession, LoginTokens, AddToken,
               RefreshRead, RefreshSession, RefreshCreate, RefreshRevoke, RefreshTouch,
               LogoutRead, LogoutRevoke
      <4> QED
        BY <4>1, <4>2
    <3>2. CASE ~SessionStep(q) /\ ~ConfirmClaim(q)
      BY <1>4, <3>2 DEF Acting, Counting, InvitationStep, InviteCheck, InviteCreate,
         InviteUndo, ResendRead, ResendCreate, SendMail, ResendUndo, ResendRevoke,
         AcceptRead, AcceptName, EmailChangeStep, ChangeRead, ChangeTaken, ChangeDelete,
         ChangeCreate, ConfirmRead, ConfirmTaken, ConfirmBurn, UserAdminStep,
         UpdateRead, UpdateWrite, UpdateSync, DeleteRead, DeleteWrite, Die
    <3>3. CASE ConfirmClaim(q)
      <4> DEFINE n == hist.claims["change"][req[q].link] + 1
      <4>1. hist' = hist \/ hist' = [hist EXCEPT !.claims["change"][req[q].link] = n]
        BY <3>3 DEF ConfirmClaim
      <4> HIDE DEF n
      <4> QED
        BY <4>1
    <3> QED
      BY <3>1, <3>2, <3>3
  <2> QED
    BY <1>1, <1>2, <2>1, TestedAs
<1> QED
  BY <1>3, <1>4

(* A row is reserved by an invitation that has found it free.              *)
LEMMA ReservedOf ==
  ASSUME IInv, NEW q \in Requests, Acting(q), NEW u \in Users, Reserved(u)'
  PROVE  Reserved(u) \/ NeverUsed(u)
<1>1. req \in [Requests -> Requested \cup {Idle}] /\ Idle.op = "idle"
  BY DEF IInv, RequestsOK, Idle
<1>2. PICK p \in Requests : Doing(p, "invite", "create")' /\ req'[p].user = u
  BY DEF Reserved
<1>3. CASE req'[p] = req[p]
  BY <1>2, <1>3 DEF Reserved, Doing
<1>4. CASE req'[p] # req[p]
  <2>1. CASE SessionStep(q) \/ EmailChangeStep(q) \/ UserAdminStep(q) \/ Die(q)
    <3>1. p = q => req'[p].op # "invite"
      BY <1>1, <2>1, SessionKinds, EmailKinds, AdminKinds, EndOf DEF Die
    <3>2. p = q
      BY <1>4, <2>1, SessionKinds, EmailKinds, AdminKinds, EndOf DEF Die
    <3> QED
      BY <1>2, <3>1, <3>2 DEF Doing
  <2>2. CASE InvitationStep(q)
    <3>1. p = q
      BY <1>4, <2>2, InvitationKinds
    <3>2. CASE \E v \in Users, e \in Emails, r \in AskedRoles, g \in Groups \cup {None} :
                 InviteCheck(q, v, e, r, g)
      BY <1>1, <1>2, <3>1, <3>2 DEF InviteCheck, Begin
    <3>3. CASE ~\E v \in Users, e \in Emails, r \in AskedRoles, g \in Groups \cup {None} :
                  InviteCheck(q, v, e, r, g)
      <4>1. \/ End(q) \/ req'[q].op \in {"accept", "resend"}
            \/ /\ req[q].op \in {"invite", "resend", "accept"}
               /\ \/ \E at : at # "create" /\ Goto(q, at)
                  \/ /\ req[q].op \in {"invite", "resend"}
                     /\ \E i : Linked(q, i)
        <5>1. CASE InviteCreate(q) \/ ResendCreate(q)
          BY <5>1 DEF InviteCreate, ResendCreate, Linked, Doing
        <5>2. CASE \/ \E i \in Links, n \in Names : AcceptRead(q, i, n)
                   \/ \E v \in Users : ResendRead(q, v)
          BY <1>1, <5>2 DEF AcceptRead, ResendRead, Begin
        <5>3. CASE \E delivered, ok \in BOOLEAN : SendMail(q, delivered, ok)
          BY <5>3 DEF SendMail
        <5>4. CASE \/ InviteUndo(q) \/ ResendUndo(q) \/ ResendRevoke(q) \/ AcceptName(q)
                   \/ AcceptClaim(q)
          BY <5>4 DEF InviteUndo, ResendUndo, ResendRevoke, AcceptName, AcceptClaim, Doing
        <5> QED
          BY <2>2, <3>3, <5>1, <5>2, <5>3, <5>4 DEF InvitationStep
      <4>2. \/ req'[q].op \in {"idle", "accept", "resend"}
            \/ req'[q].at # "create"
        BY <1>1, <4>1, EndOf, GotoOf, LinkGiven
      <4> QED
        BY <1>2, <3>1, <4>2 DEF Doing
    <3> QED
      BY <3>2, <3>3
  <2> QED
    BY <2>1, <2>2 DEF Acting
<1> QED
  BY <1>3, <1>4

(* An account that is free of failures: the password was right, or a new   *)
(* one was set.                                                            *)
LEMMA ClearWrites ==
  ASSUME IInv, NEW q \in Requests, LoginClear(q) \/ AcceptClaim(q),
         NEW u \in Users, req[q].user = u
  PROVE  /\ clock' = clock
         /\ \/ user' = user /\ hist' = hist
            \/ hist'.tested[u] = 0 /\ (user'[u] # None => user'[u].failed = 0)
<1>1. /\ user \in [Users -> UserRow \cup {None}] /\ hist \in Histories
  BY DEF IInv, StoresTyped
<1>2. CASE LoginClear(q)
  <2>1. CASE ~Exists(u)
    BY <1>2, <2>1 DEF LoginClear
  <2>2. CASE Exists(u)
    <3>1. /\ user' = [user EXCEPT ![u].failed = 0, ![u].lockedUntil = None]
          /\ hist' = [hist EXCEPT !.tested[u] = 0] /\ clock' = clock
      BY <1>2, <2>2 DEF LoginClear
    <3>2. user[u] \in UserRow
      BY <1>1, <2>2 DEF Exists
    <3>3. user'[u] = [user[u] EXCEPT !.failed = 0, !.lockedUntil = None]
      BY <1>1, <3>1
    <3>4. user'[u].failed = 0 /\ hist'.tested[u] = 0
      BY <1>1, <3>1, <3>2, <3>3 DEF UserRow, Histories
    <3> QED
      BY <3>1, <3>4
  <2> QED
    BY <2>1, <2>2
<1>3. CASE AcceptClaim(q)
  <2> DEFINE i == req[q].link
             n == hist.claims["invite"][i] + 1
             name == req[q].name
  <2>1. CASE ~(ClaimInvitation(i, req[q].now) /\ NameFree(name, u))
    BY <1>3, <2>1 DEF AcceptClaim, LoginClear, Doing
  <2>2. CASE ClaimInvitation(i, req[q].now) /\ NameFree(name, u)
    <3>1. /\ user' = [user EXCEPT ![u] = [@ EXCEPT !.name = name, !.active = TRUE,
                                                  !.failed = 0, !.lockedUntil = None]]
          /\ hist' = [hist EXCEPT !.claims["invite"][i] = n, !.tested[u] = 0]
          /\ clock' = clock
      BY <1>3, <2>2 DEF AcceptClaim
    <3>2. Exists(u)
      <4>1. req[q] \in AcceptReq /\ Sound(q)
        BY <1>3, FieldsOf DEF AcceptClaim, Doing, IInv, RequestsOK
      <4> QED
        BY <2>2, <4>1 DEF ClaimInvitation, ActiveInvitation, Pending, Sound, AcceptSound,
                          AcceptReq, IInv, Owned
    <3>3. user[u] \in UserRow
      BY <1>1, <3>2 DEF Exists
    <3>4. user'[u] = [user[u] EXCEPT !.name = name, !.active = TRUE,
                                     !.failed = 0, !.lockedUntil = None]
      BY <1>1, <3>1
    <3>5. user'[u].failed = 0
      BY <3>3, <3>4 DEF UserRow
    <3> HIDE DEF n
    <3>6. hist'.tested[u] = 0
      BY <1>1, <3>1 DEF Histories
    <3> QED
      BY <1>3, <3>1, <3>5, <3>6 DEF AcceptClaim, LoginClear, Doing
  <2> QED
    BY <2>1, <2>2
<1> QED
  BY <1>2, <1>3

LEMMA UnbornStep ==
  ASSUME IInv, RolesKnown, NEW q \in Requests, Acting(q), NEW u \in Users, Unborn(u)
  PROVE  Unborn(u)'
<1> SUFFICES ASSUME NeverUsed(u)' \/ Reserved(u)'
             PROVE  hist'.tested[u] = 0 /\ Guessing(u)' = {}
  BY DEF Unborn
<1>1. RolesNoted
  BY SessionsNote, OthersNote DEF Acting, RolesKnown
<1>2. NeverUsed(u) \/ Reserved(u)
  BY <1>1, UsedStays, ReservedOf
<1>3. hist.tested[u] = 0 /\ Guessing(u) = {}
  BY <1>2 DEF Unborn
<1>4. ~Exists(u)
  BY <1>2 DEF NeverUsed, Reserved, RolesKnown, FreshUsers
<1>5. PendingKept(u)
  BY <1>4, PendingOf DEF LoginRead
<1>6. Guessing(u)' = {}
  BY <1>3, <1>5 DEF PendingKept, Guessing
<1>7. hist'.tested[u] = 0
  <2>1. CASE ~Counting(q) \/ req[q].user # u
    BY <1>3, <2>1, TestedOf
  <2>2. CASE Counting(q) /\ req[q].user = u
    <3>1. ~LoginFail(q)
      BY <1>3, <2>2 DEF LoginFail, Guessing, Guess
    <3> QED
      BY <1>3, <2>2, <3>1, ClearWrites DEF Counting
  <2> QED
    BY <2>1, <2>2
<1> QED
  BY <1>6, <1>7

LEMMA GuessesStep ==
  ASSUME IInv, RolesKnown, Pair, NEW q \in Requests, Acting(q), NEW u \in Users,
         Unborn(u), GuessesOf(u)
  PROVE  GuessesOf(u)'
<1>1. CASE LoginRead(q, u, FALSE)
  BY <1>1, GuessReads
<1>2. CASE LoginFail(q) /\ req[q].user = u
  BY <1>2, GuessFails
<1>3. CASE ~LoginRead(q, u, FALSE) /\ ~(LoginFail(q) /\ req[q].user = u)
  <2>1. PendingKept(u)
    BY <1>3, PendingOf
  <2>2. \A p \in Requests : Guess(p, u)' => req'[p].failed \in Nat
    BY <2>1, GuessTyped DEF PendingKept
  <2>3. CASE Counting(q) /\ req[q].user = u
    <3>1. LoginClear(q) \/ AcceptClaim(q)
      BY <1>3, <2>3 DEF Counting
    <3>2. clock' = clock
      BY <2>3, <3>1, ClearWrites
    <3>3. CASE user' = user /\ hist' = hist
      <4>1. AttemptsKept(u)
        BY <3>3 DEF AttemptsKept, Exists
      <4> QED
        BY <2>1, <3>2, <3>3, <4>1, GuessesStay
    <3>4. CASE hist'.tested[u] = 0 /\ (user'[u] # None => user'[u].failed = 0)
      BY <2>2, <3>2, <3>4, GuessesAnew
    <3> QED
      BY <2>3, <3>1, <3>3, <3>4, ClearWrites
  <2>4. CASE ~(Counting(q) /\ req[q].user = u) /\ ~(InviteCreate(q) /\ req[q].user = u)
    <3>1. AttemptsKept(u)
      BY <2>4, AttemptsOf
    <3>2. hist'.tested[u] = hist.tested[u] /\ clock' = clock
      BY <2>4, TestedOf
    <3> QED
      BY <2>1, <3>1, <3>2, GuessesStay
  <2>5. CASE InviteCreate(q) /\ req[q].user = u
    <3>1. hist.tested[u] = 0
      BY <2>5 DEF Unborn, Reserved, InviteCreate
    <3>2. ~Counting(q)
      BY <2>5 DEF InviteCreate, Counting, LoginFail, LoginClear, AcceptClaim, Doing
    <3>3. hist'.tested[u] = 0 /\ clock' = clock
      BY <3>1, <3>2, TestedOf
    <3>4. user'[u] # None => user'[u].failed = 0
      <4>1. ~Exists(u)
        BY <2>5 DEF InviteCreate, RolesKnown, FreshUsers
      <4>2. user \in [Users -> UserRow \cup {None}]
        BY DEF IInv, StoresTyped
      <4> DEFINE managed == IF req[q].role = "ADMIN" THEN FactoriesOf(req[q].group) ELSE {}
                 row == [name |-> None, email |-> req[q].email, active |-> FALSE,
                         role |-> req[q].role, group |-> req[q].group, failed |-> 0,
                         lockedUntil |-> None, managed |-> managed]
      <4>3. user' = user \/ user' = [user EXCEPT ![u] = row]
        BY <2>5 DEF InviteCreate
      <4>4. row.failed = 0
        OBVIOUS
      <4> HIDE DEF row
      <4> QED
        BY <4>1, <4>2, <4>3, <4>4 DEF Exists
    <3> QED
      BY <2>2, <3>3, <3>4, GuessesAnew
  <2> QED
    BY <2>3, <2>4, <2>5
<1> QED
  BY <1>1, <1>2, <1>3

LEMMA GuessesAllowed ==
  ASSUME IInv, NEW u \in Users, Pair, GuessesOf(u), Exists(u)
  PROVE  hist.tested[u] <= Bound(clock)
<1>1. PICK m \in Nat : Fits(u, m)
  BY DEF GuessesOf
<1>2. Room(hist.tested[u], user[u].failed, Cardinality(Guessing(u)), m, clock)
  BY <1>1 DEF Fits
<1>3. /\ hist.tested[u] \in Nat /\ user[u].failed \in Nat /\ clock \in Nat
      /\ LockThreshold \in Nat /\ Left(m + 1) \in Nat /\ Bound(clock) \in Nat
  BY GuessTyped, StoreAssumption, LeftIs, BoundGrows
<1>4. Cardinality(Guessing(u)) \in Nat
  BY PairCounts DEF Guessing
<1>5. Cost(user[u].failed, Cardinality(Guessing(u))) \in Nat
  BY <1>3, <1>4 DEF Cost
<1> QED
  BY <1>2, <1>3, <1>5 DEF Room

LEMMA GuessesBegin ==
  ASSUME Init, Pair, NEW u \in Users
  PROVE  Unborn(u) /\ GuessesOf(u)
<1>1. Guessing(u) = {} /\ ~Reserved(u) /\ hist.tested[u] = 0 /\ clock = 0
  BY DEF Init, Guessing, Guess, Reserved, Doing, Idle
<1>2. Unborn(u)
  BY <1>1 DEF Unborn
<1>3. ASSUME Exists(u) PROVE Both(u) /\ \E m \in Nat : Fits(u, m)
  <2>1. user[u] \in UserRow
    BY <1>3, SeedAssumption DEF Init, Exists
  <2>2. PICK f \in Nat : f = user[u].failed
    BY <2>1 DEF UserRow
  <2>3. PICK T \in Nat \ {0} : T = LockThreshold
    BY StoreAssumption
  <2>4. LockEnd(u) \in Nat
    BY <1>1, <2>1 DEF LockEnd, IsLocked, UserRow
  <2>5. Both(u)
    BY <1>1 DEF Both
  <2>6. Cardinality(Guessing(u)) = 0
    BY <1>1, FS_EmptySet
  <2>7. /\ Left(f) \in Nat /\ Left(f + 1) \in Nat /\ Left(0) \in Nat /\ Left(f) <= Left(0)
        /\ Left(f + 1) <= Left(f) /\ Left(1) \in Nat
    <3>1. f + 1 \in Nat
      OBVIOUS
    <3> QED
      BY <3>1, LeftIs, LeftFalls
  <2>8. Left(0) <= Bound(clock) /\ Left(0) <= Bound(LockEnd(u))
        /\ Bound(clock) \in Nat /\ Bound(LockEnd(u)) \in Nat
    BY <1>1, <2>4, BoundGrows
  <2>9. Left(0) >= 2
    BY <2>3, <2>7, LeftIs
  <2>10. Room(0, f, 0, f, clock)
    <3>1. CASE f < LockThreshold
      <4>1. Left(f) = LockThreshold - f + 1 + Left(f + 1)
        BY <3>1, LeftIs
      <4>2. Cost(f, 0) = LockThreshold - f + 1
        BY <3>1 DEF Cost
      <4>3. 0 + (LockThreshold - f + 1) + Left(f + 1) <= Bound(clock)
        BY <2>3, <2>7, <2>8, <4>1
      <4> QED
        BY <4>2, <4>3 DEF Room
    <3>2. CASE ~(f < LockThreshold)
      <4>1. 0 + 0 + Left(f + 1) <= Bound(clock)
        BY <2>7, <2>8
      <4>2. Cost(f, 0) = 0
        BY <3>2 DEF Cost
      <4> QED
        BY <4>1, <4>2 DEF Room
    <3> QED
      BY <3>1, <3>2
  <2>11. f >= LockThreshold => 0 + Left(f + 1) + 2 <= Bound(LockEnd(u))
    <3>1. f >= LockThreshold => Left(f + 1) = 0
      <4>1. f >= LockThreshold => ~(f + 1 < LockThreshold)
        BY <2>3
      <4> QED
        BY <4>1 DEF Left
    <3> QED
      BY <2>7, <2>8, <2>9, <3>1
  <2>12. Fits(u, f)
    BY <1>1, <2>2, <2>6, <2>10, <2>11 DEF Fits
  <2> QED
    BY <2>5, <2>12
<1> QED
  BY <1>2, <1>3 DEF GuessesOf

(* How many wrong passwords are tested on an account that is there, when   *)
(* two requests at most are served at one time: T * (T + 3) / 2 for the    *)
(* threshold T, and two each time a lock runs out, for any threshold, any  *)
(* time that a lock lasts, any users and any mixes of requests with        *)
(* crashes, whatever count and lock the accounts start with                *)
(* (auth-service.ts:194).                                                  *)
THEOREM GuessesAlwaysBounded == Spec => []GuessesBounded
<1> DEFINE Guessed == Pair => \A u \in Users : Unborn(u) /\ GuessesOf(u)
<1>1. Init => Guessed
  BY GuessesBegin
<1>2. IInv /\ RolesKnown /\ Guessed /\ [Next]_vars => Guessed'
  <2> SUFFICES ASSUME IInv, RolesKnown, [Next]_vars, Pair, NEW u \in Users,
                      Unborn(u), GuessesOf(u)
               PROVE  Unborn(u)' /\ GuessesOf(u)'
    BY DEF Pair
  <2>1. CASE \E q \in Requests : Acting(q)
    BY <2>1, UnbornStep, GuessesStep
  <2>2. CASE Tick
    <3>1. clock' = clock + 1 /\ user' = user /\ req' = req /\ hist' = hist
      BY <2>2 DEF Tick, tables
    <3>2. Unborn(u)'
      BY <3>1 DEF Unborn, NeverUsed, Exists, Reserved, Guessing, Guess, Doing
    <3> QED
      BY <3>1, <3>2, GuessesWait
  <2>3. CASE UNCHANGED vars
    <3>1. clock' = clock /\ user' = user /\ req' = req /\ hist' = hist
      BY <2>3 DEF vars
    <3>2. Unborn(u)'
      BY <3>1 DEF Unborn, NeverUsed, Exists, Reserved, Guessing, Guess, Doing
    <3>3. PendingKept(u) /\ AttemptsKept(u)
      BY <3>1 DEF PendingKept, AttemptsKept, Guess, Doing, Exists
    <3> QED
      BY <3>1, <3>2, <3>3, GuessesStay
  <2> QED
    BY <2>1, <2>2, <2>3 DEF Next, Acting
<1>3. IInv /\ Guessed => GuessesBounded
  <2> SUFFICES ASSUME IInv, Pair, NEW u \in Users, GuessesOf(u), Exists(u)
               PROVE  hist.tested[u] <= ((LockThreshold * (LockThreshold + 3)) \div 2)
                                        + 2 * (clock \div (LockTtl - 1))
    BY DEF GuessesBounded, Pair
  <2>1. hist.tested[u] <= Left(0) + 2 * (clock \div (LockTtl - 1))
    BY GuessesAllowed DEF Bound
  <2>2. Left(0) = (LockThreshold * (LockThreshold + 3)) \div 2
    <3>1. LockThreshold \in Nat \ {0}
      BY StoreAssumption
    <3>2. 0 < LockThreshold /\ LockThreshold - 0 = LockThreshold
      BY <3>1
    <3> QED
      BY <3>2 DEF Left
  <2> QED
    BY <2>1, <2>2
<1> HIDE DEF Guessed
<1> QED
  BY <1>1, <1>2, <1>3, RolesAlwaysKnown, PTL DEF Spec
===============================================================================
