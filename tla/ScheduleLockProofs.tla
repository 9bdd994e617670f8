-------------------------- MODULE ScheduleLockProofs --------------------------
(***************************************************************************)
(* Theorems about ScheduleLock, for any number of callers, types and calls *)
(* and for every combination of faults.                                    *)
(***************************************************************************)
EXTENDS ScheduleLock, TLAPS

(* The types of withScheduleLock's state are preserved by every step.      *)
LEMMA TypeStep == TypeOK /\ [Next]_vars => TypeOK'
<1> SUFFICES ASSUME TypeOK, [Next]_vars PROVE TypeOK'
  OBVIOUS
<1> USE DEF TypeOK, Token, Tokens, Blames, Types
<1>1. ASSUME NEW p \in Procs, NEW T \in SUBSET Types, Call(p, T)
      PROVE  TypeOK'
  BY <1>1 DEF Call
<1>2. ASSUME NEW p \in Procs, NEW t \in Types, Acquire(p, t)
      PROVE  TypeOK'
  BY <1>2 DEF Acquire, Trying, First
<1>3. ASSUME NEW p \in Procs, NEW t \in Types, Refused(p, t)
      PROVE  TypeOK'
  BY <1>3 DEF Refused, Trying, First
<1>4. ASSUME NEW p \in Procs, NEW t \in Types, Release(p, t)
      PROVE  TypeOK'
  BY <1>4 DEF Release, CompareAndDelete, First
<1>5. ASSUME NEW p \in Procs, Enter(p) \/ Leave(p) \/ Return(p)
      PROVE  TypeOK'
  BY <1>5 DEF Enter, Leave, Return
<1>6. ASSUME NEW p \in Procs, NEW t \in Types, AcquireError(p, t)
      PROVE  TypeOK'
  BY <1>6 DEF AcquireError, Trying, First
<1>7. ASSUME NEW p \in Procs, NEW t \in Types, ReleaseError(p, t)
      PROVE  TypeOK'
  BY <1>7 DEF ReleaseError, CompareAndDelete, First
<1>8. ASSUME NEW p \in Procs, Crash(p) \/ Restart(p)
      PROVE  TypeOK'
  BY <1>8 DEF Crash, Restart
<1>9. ASSUME NEW t \in Types, Expire(t)
      PROVE  TypeOK'
  BY <1>9 DEF Expire
<1>10. CASE UNCHANGED vars
  BY <1>10 DEF vars
<1> QED
  BY <1>1, <1>2, <1>3, <1>4, <1>5, <1>6, <1>7, <1>8, <1>9, <1>10
     DEF Next, Step, Fault

(* Type correctness of withScheduleLock's state.                           *)
THEOREM TypeCorrect == Spec => []TypeOK
<1>1. Init => TypeOK
  BY DEF Init, TypeOK, Types
<1> QED
  BY <1>1, TypeStep, PTL DEF Spec

-------------------------------------------------------------------------------
(***************************************************************************)
(* Mutual exclusion.  The body holds exactly the types it asked for        *)
(* (Listed), and a type a call has still to free is either lapsed or under *)
(* its token (KeyHeld): only an expiry takes the key away, because every   *)
(* other deletion compares the token first.                                *)
(***************************************************************************)
Holding(p) == pc[p] \in {"acquire", "body", "release"}

Listed ==
  /\ \A p \in Procs : pc[p] \in {"acquire", "body"} => toFree[p] = acquired[p]
  /\ \A p \in Procs : pc[p] = "body" => acquired[p] = want[p]

KeyHeld ==
  \A p \in Procs : \A t \in Types :
     Holding(p) /\ t \in toFree[p] /\ t \notin lapsed[p] => store[t] = Token(p)

LEMMA ListedStep == TypeOK /\ Listed /\ [Next]_vars => Listed'
<1> SUFFICES ASSUME TypeOK, Listed, [Next]_vars PROVE Listed'
  OBVIOUS
<1> USE DEF TypeOK, Listed
<1>1. ASSUME NEW p \in Procs, NEW T \in SUBSET Types, Call(p, T)
      PROVE  Listed'
  BY <1>1 DEF Call
<1>2. ASSUME NEW p \in Procs, NEW t \in Types,
             Acquire(p, t) \/ Refused(p, t) \/ AcquireError(p, t)
      PROVE  Listed'
  <2>1. CASE Acquire(p, t)
    BY <2>1 DEF Acquire, Trying
  <2>2. CASE Refused(p, t)
    BY <2>2 DEF Refused
  <2>3. CASE AcquireError(p, t)
    BY <2>3 DEF AcquireError
  <2> QED
    BY <1>2, <2>1, <2>2, <2>3
<1>3. ASSUME NEW p \in Procs, NEW t \in Types,
             Release(p, t) \/ ReleaseError(p, t)
      PROVE  Listed'
  BY <1>3 DEF Release, ReleaseError
<1>4. ASSUME NEW p \in Procs,
             Enter(p) \/ Leave(p) \/ Return(p) \/ Crash(p) \/ Restart(p)
      PROVE  Listed'
  BY <1>4 DEF Enter, Leave, Return, Crash, Restart
<1>5. ASSUME NEW t \in Types, Expire(t)
      PROVE  Listed'
  BY <1>5 DEF Expire
<1>6. CASE UNCHANGED vars
  BY <1>6 DEF vars
<1> QED
  BY <1>1, <1>2, <1>3, <1>4, <1>5, <1>6 DEF Next, Step, Fault

(* A token names the caller and its call.                                  *)
LEMMA TokenInjective ==
  ASSUME NEW p, NEW q, Token(p) = Token(q) PROVE p = q
BY DEF Token

LEMMA TokenNotNone ==
  ASSUME TypeOK, NEW p \in Procs PROVE Token(p) # None
BY LockAssumption DEF TypeOK, Token

(* The release script touches no key but the one it is given, and that one *)
(* only when it carries the token of the caller.                           *)
LEMMA DeletesOwnOnly ==
  ASSUME TypeOK, NEW p \in Procs, NEW t \in Types, CompareAndDelete(p, t),
         NEW q \in Procs, NEW u \in Types, u # t \/ q # p, store[u] = Token(q)
  PROVE  store'[u] = Token(q)
BY TokenInjective DEF TypeOK, CompareAndDelete

(* A step that starts no call, lists no new key and takes no key from its  *)
(* holder keeps KeyHeld.                                                   *)
LEMMA KeyHeldKept ==
  ASSUME KeyHeld, UNCHANGED <<call, lapsed>>,
         \A q \in Procs : Holding(q)' => Holding(q) /\ toFree'[q] \subseteq toFree[q],
         \A q \in Procs : \A u \in Types :
            Holding(q)' /\ u \in toFree'[q] /\ store[u] = Token(q)
              => store'[u] = Token(q)
  PROVE  KeyHeld'
<1> SUFFICES ASSUME NEW q \in Procs, NEW u \in Types, Holding(q)',
                    u \in toFree'[q], u \notin lapsed'[q]
             PROVE  store'[u] = Token(q)'
  BY DEF KeyHeld
<1>1. store[u] = Token(q)
  BY DEF KeyHeld
<1>2. Token(q)' = Token(q)
  BY DEF Token
<1> QED
  BY <1>1, <1>2

LEMMA KeyHeldStep == TypeOK /\ KeyHeld /\ [Next]_vars => KeyHeld'
<1> SUFFICES ASSUME TypeOK, KeyHeld, [Next]_vars PROVE KeyHeld'
  OBVIOUS
<1>1. ASSUME NEW p \in Procs, NEW T \in SUBSET Types, Call(p, T)
      PROVE  KeyHeld'
  <2> SUFFICES ASSUME NEW q \in Procs, NEW u \in Types, Holding(q)',
                      u \in toFree'[q], u \notin lapsed'[q]
               PROVE  store'[u] = Token(q)'
    BY DEF KeyHeld
  <2>1. q # p /\ Holding(q) /\ u \in toFree[q] /\ u \notin lapsed[q]
    BY <1>1 DEF Call, TypeOK, Holding
  <2>2. store'[u] = store[u] /\ Token(q)' = Token(q)
    BY <1>1, <2>1 DEF Call, TypeOK, Token
  <2> QED
    BY <2>1, <2>2 DEF KeyHeld
<1>2. ASSUME NEW p \in Procs, NEW t \in Types, Acquire(p, t)
      PROVE  KeyHeld'
  <2> SUFFICES ASSUME NEW q \in Procs, NEW u \in Types, Holding(q)',
                      u \in toFree'[q], u \notin lapsed'[q]
               PROVE  store'[u] = Token(q)'
    BY DEF KeyHeld
  <2>1. Token(q)' = Token(q) /\ Holding(q) /\ u \notin lapsed[q]
    BY <1>2 DEF Acquire, Token, Holding
  <2>2. CASE u = t /\ q = p
    BY <1>2, <2>1, <2>2 DEF Acquire, TypeOK
  <2>3. CASE ~(u = t /\ q = p)
    <3>1. u \in toFree[q]
      BY <1>2, <2>3 DEF Acquire, TypeOK
    <3>2. store[u] = Token(q) /\ u # t
      BY <1>2, <2>1, <3>1, TokenNotNone DEF KeyHeld, Acquire
    <3> QED
      BY <1>2, <2>1, <3>2 DEF Acquire, TypeOK
  <2> QED
    BY <2>2, <2>3
<1>3. ASSUME NEW p \in Procs, NEW t \in Types, Refused(p, t)
      PROVE  KeyHeld'
  <2>1. \A q \in Procs : Holding(q)' => Holding(q)
    BY <1>3 DEF Refused, Trying, TypeOK, Holding
  <2> QED
    BY <1>3, <2>1, KeyHeldKept DEF Refused
<1>4. ASSUME NEW p \in Procs, NEW t \in Types, AcquireError(p, t)
      PROVE  KeyHeld'
  <2>1. \A q \in Procs : Holding(q)' => Holding(q)
    BY <1>4 DEF AcquireError, Trying, TypeOK, Holding
  <2>2. \A q \in Procs : \A u \in Types :
           store[u] = Token(q) => store'[u] = Token(q)
    BY <1>4, TokenNotNone DEF AcquireError, TypeOK
  <2> QED
    BY <1>4, <2>1, <2>2, KeyHeldKept DEF AcquireError
<1>5. ASSUME NEW p \in Procs, NEW t \in Types, Release(p, t)
      PROVE  KeyHeld'
  <2>1. CompareAndDelete(p, t) /\ UNCHANGED <<pc, call, lapsed>>
    BY <1>5 DEF Release
  <2>2. \A q \in Procs : toFree'[q] \subseteq toFree[q]
    BY <1>5 DEF Release, TypeOK
  <2>3. t \notin toFree'[p]
    BY <1>5 DEF Release, TypeOK
  <2>4. \A q \in Procs : \A u \in Types :
           u \in toFree'[q] /\ store[u] = Token(q) => store'[u] = Token(q)
    BY <2>1, <2>3, DeletesOwnOnly
  <2> QED
    BY <2>1, <2>2, <2>4, KeyHeldKept DEF Holding
<1>6. ASSUME NEW p \in Procs, NEW t \in Types, ReleaseError(p, t)
      PROVE  KeyHeld'
  <2>1. UNCHANGED <<call, lapsed, toFree>>
    BY <1>6 DEF ReleaseError
  <2>2. \A q \in Procs : Holding(q)' => Holding(q) /\ q # p
    BY <1>6 DEF ReleaseError, TypeOK, Holding
  <2>3. \A q \in Procs : \A u \in Types :
           q # p /\ store[u] = Token(q) => store'[u] = Token(q)
    <3>1. CASE CompareAndDelete(p, t)
      BY <3>1, DeletesOwnOnly
    <3>2. CASE UNCHANGED store
      BY <3>2
    <3> QED
      BY <1>6, <3>1, <3>2 DEF ReleaseError
  <2> QED
    BY <2>1, <2>2, <2>3, KeyHeldKept
<1>7. ASSUME NEW p \in Procs, Enter(p) \/ Leave(p) \/ Return(p)
      PROVE  KeyHeld'
  <2>1. UNCHANGED <<store, toFree, call, lapsed>>
    BY <1>7 DEF Enter, Leave, Return
  <2>2. \A q \in Procs : Holding(q)' => Holding(q)
    BY <1>7 DEF Enter, Leave, Return, TypeOK, Holding
  <2> QED
    BY <2>1, <2>2, KeyHeldKept
<1>8. ASSUME NEW p \in Procs, Crash(p) \/ Restart(p)
      PROVE  KeyHeld'
  <2>1. UNCHANGED <<store, call, lapsed>>
    BY <1>8 DEF Crash, Restart
  <2>2. \A q \in Procs : Holding(q)' => Holding(q) /\ toFree'[q] = toFree[q]
    BY <1>8 DEF Crash, Restart, TypeOK, Holding
  <2> QED
    BY <2>1, <2>2, KeyHeldKept
<1>9. ASSUME NEW t \in Types, Expire(t)
      PROVE  KeyHeld'
  <2> SUFFICES ASSUME NEW q \in Procs, NEW u \in Types, Holding(q)',
                      u \in toFree'[q], u \notin lapsed'[q]
               PROVE  store'[u] = Token(q)'
    BY DEF KeyHeld
  <2>1. Holding(q) /\ u \in toFree[q] /\ u \notin lapsed[q]
    BY <1>9 DEF Expire, TypeOK, Holding
  <2>2. store[u] = Token(q)
    BY <2>1 DEF KeyHeld
  <2>3. u # t
    BY <1>9, <2>2 DEF Expire, TypeOK
  <2> QED
    BY <1>9, <2>2, <2>3 DEF Expire, TypeOK, Token
<1>10. CASE UNCHANGED vars
  BY <1>10, KeyHeldKept DEF vars, Holding
<1> QED
  BY <1>1, <1>2, <1>3, <1>4, <1>5, <1>6, <1>7, <1>8, <1>9, <1>10
     DEF Next, Step, Fault

(* withScheduleLock excludes: two bodies under a common type run together  *)
(* only when the lease of one of them has run out.                         *)
THEOREM LockExcludes == Spec => []MutualExclusion
<1>1. Init => Listed /\ KeyHeld
  BY DEF Init, Listed, KeyHeld, Holding
<1>2. TypeOK /\ Listed /\ KeyHeld => MutualExclusion
  <2> SUFFICES ASSUME TypeOK, Listed, KeyHeld, NEW p \in Procs, NEW q \in Procs,
                      p # q, pc[p] = "body", pc[q] = "body",
                      NEW t \in want[p] \cap want[q],
                      t \notin lapsed[p], t \notin lapsed[q]
               PROVE  FALSE
    BY DEF MutualExclusion
  <2>1. t \in Types /\ t \in toFree[p] /\ t \in toFree[q]
    BY DEF TypeOK, Listed
  <2>2. store[t] = Token(p) /\ store[t] = Token(q)
    BY <2>1 DEF KeyHeld, Holding
  <2> QED
    BY <2>2, TokenInjective
<1> QED
  BY <1>1, <1>2, TypeCorrect, ListedStep, KeyHeldStep, PTL DEF Spec

-------------------------------------------------------------------------------
(***************************************************************************)
(* Sorted acquisition.  A key found under a token was listed by that call  *)
(* (or by a SET whose reply was lost, and then the call was not refused);  *)
(* a refused call had listed only smaller types.  So if p was refused at t *)
(* because of q, and q at u because of p, then t < u and u < t.            *)
(***************************************************************************)
Started(tok) == tok.call <= call[tok.proc]

(* The call of q was not refused, and takes no more keys.                  *)
GaveUp(q) == blame[q] = None /\ pc[q] \notin {"acquire", "body"}

TokensStarted ==
  /\ \A t \in Types : store[t] # None => Started(store[t])
  /\ \A p \in Procs : blame[p] # None => Started(blame[p].by)

Ascending ==
  \A p \in Procs : pc[p] = "acquire" =>
    \A t \in acquired[p], u \in want[p] \ acquired[p] : t < u

KeyListed ==
  \A p \in Procs : \A t \in Types :
    store[t] = Token(p) => t \in acquired[p] \/ GaveUp(p)

RefusedLast ==
  \A p \in Procs : blame[p] # None =>
    /\ pc[p] \notin {"acquire", "body"}
    /\ \A t \in acquired[p] : t < blame[p].on

BlameListed ==
  \A p, q \in Procs : blame[p] # None /\ blame[p].by = Token(q) =>
    blame[p].on \in acquired[q] \/ GaveUp(q)

SortedInv ==
  TokensStarted /\ Ascending /\ KeyListed /\ RefusedLast /\ BlameListed

(* Two calls never refuse each other.                                      *)
LEMMA SortedExcludesMutualRefusal ==
  TypeOK /\ SortedInv => NoMutualRefusal
<1> SUFFICES ASSUME TypeOK, SortedInv, NEW p \in Procs, NEW q \in Procs,
                    blame[p] # None, blame[p].by = Token(q),
                    blame[q] # None, blame[q].by = Token(p)
             PROVE  FALSE
  BY DEF NoMutualRefusal
<1>1. blame[p].on \in acquired[q] /\ blame[q].on \in acquired[p]
  BY DEF SortedInv, BlameListed, GaveUp
<1>2. blame[p].on < blame[q].on /\ blame[q].on < blame[p].on
  BY <1>1 DEF SortedInv, RefusedLast
<1>3. blame[p].on \in Int /\ blame[q].on \in Int
  BY DEF TypeOK, Blames, Types
<1> QED
  BY <1>2, <1>3

LEMMA SortedStep == TypeOK /\ SortedInv /\ [Next]_vars => SortedInv'
<1> SUFFICES ASSUME TypeOK, SortedInv, [Next]_vars PROVE SortedInv'
  OBVIOUS
<1> USE DEF Types
<1>0. /\ TokensStarted /\ Ascending /\ KeyListed /\ RefusedLast /\ BlameListed
      /\ TypeOK'
  BY TypeStep DEF SortedInv
<1>1. ASSUME NEW p \in Procs, NEW T \in SUBSET Types, Call(p, T)
      PROVE  SortedInv'
  <2>1. /\ UNCHANGED store
        /\ call'[p] = call[p] + 1 /\ acquired'[p] = {} /\ blame'[p] = None
        /\ \A q \in Procs \ {p} : /\ call'[q] = call[q]
                                  /\ blame'[q] = blame[q]
                                  /\ acquired'[q] = acquired[q]
                                  /\ want'[q] = want[q]
                                  /\ pc'[q] = pc[q]
    BY <1>1 DEF Call, TypeOK
  <2>2. \A tok \in Tokens : Started(tok) => Started(tok)' /\ tok # Token(p)'
    BY <2>1, <1>1 DEF Tokens, Started, Token, TypeOK
  <2>3. \A t \in Types : store[t] # None => store[t] \in Tokens
    BY DEF TypeOK
  <2>4. \A q \in Procs : blame[q] # None => blame[q].by \in Tokens
    BY DEF TypeOK, Blames
  <2>5. \A q \in Procs \ {p} : Token(q)' = Token(q)
    BY <2>1 DEF Token
  <2>6. TokensStarted'
    BY <1>0, <2>1, <2>2, <2>3, <2>4 DEF TokensStarted
  <2>7. Ascending'
    BY <1>0, <2>1 DEF Ascending
  <2>8. KeyListed'
    <3> SUFFICES ASSUME NEW q \in Procs, NEW t \in Types,
                        store'[t] = Token(q)'
                 PROVE  t \in acquired'[q] \/ GaveUp(q)'
      BY DEF KeyListed
    <3>1. store[t] # None
      BY <1>0, <2>1, TokenNotNone, LockAssumption DEF Token, TypeOK
    <3>2. q # p
      BY <1>0, <2>1, <2>2, <2>3, <3>1 DEF TokensStarted
    <3> QED
      BY <1>0, <2>1, <2>5, <3>2 DEF KeyListed, GaveUp
  <2>9. RefusedLast'
    BY <1>0, <2>1 DEF RefusedLast
  <2>10. BlameListed'
    <3> SUFFICES ASSUME NEW r \in Procs, NEW q \in Procs,
                        blame'[r] # None, blame'[r].by = Token(q)'
                 PROVE  blame'[r].on \in acquired'[q] \/ GaveUp(q)'
      BY DEF BlameListed
    <3>1. r # p /\ blame'[r] = blame[r]
      BY <2>1
    <3>2. q # p
      BY <1>0, <2>2, <2>4, <3>1 DEF TokensStarted
    <3> QED
      BY <1>0, <2>1, <2>5, <3>1, <3>2 DEF BlameListed, GaveUp
  <2> QED
    BY <2>6, <2>7, <2>8, <2>9, <2>10 DEF SortedInv
<1>2. ASSUME NEW p \in Procs, NEW t \in Types, Acquire(p, t)
      PROVE  SortedInv'
  <2>1. /\ UNCHANGED <<pc, want, call, blame>>
        /\ pc[p] = "acquire" /\ t \in want[p] /\ t \notin acquired[p]
        /\ \A u \in want[p] \ acquired[p] : t <= u
        /\ store' = [store EXCEPT ![t] = Token(p)]
        /\ acquired' = [acquired EXCEPT ![p] = @ \cup {t}]
    BY <1>2 DEF Acquire, Trying, First
  <2>2. \A q \in Procs : Token(q)' = Token(q) /\ GaveUp(q)' = GaveUp(q)
    BY <2>1 DEF Token, GaveUp
  <2>3. \A q \in Procs : acquired[q] \subseteq acquired'[q] /\ (q # p => acquired'[q] = acquired[q])
    BY <2>1 DEF TypeOK
  <2>4. TokensStarted'
    <3>1. Started(Token(p)) /\ \A tok : Started(tok)' = Started(tok)
      BY <2>1 DEF Started, Token, TypeOK
    <3> QED
      BY <1>0, <2>1, <3>1 DEF TokensStarted, TypeOK
  <2>5. Ascending'
    <3> SUFFICES ASSUME NEW q \in Procs, pc'[q] = "acquire",
                        NEW u \in acquired'[q], NEW v \in want'[q] \ acquired'[q]
                 PROVE  u < v
      BY DEF Ascending
    <3>1. CASE q = p /\ u = t
      BY <2>1, <3>1 DEF TypeOK
    <3>2. CASE ~(q = p /\ u = t)
      BY <1>0, <2>1, <2>3, <3>2 DEF Ascending, TypeOK
    <3> QED
      BY <3>1, <3>2
  <2>6. KeyListed'
    <3> SUFFICES ASSUME NEW q \in Procs, NEW u \in Types,
                        store'[u] = Token(q)'
                 PROVE  u \in acquired'[q] \/ GaveUp(q)'
      BY DEF KeyListed
    <3>1. CASE u = t
      BY <2>1, <2>2, <3>1, TokenInjective DEF TypeOK
    <3>2. CASE u # t
      BY <1>0, <2>1, <2>2, <2>3, <3>2 DEF KeyListed, TypeOK
    <3> QED
      BY <3>1, <3>2
  <2>7. RefusedLast'
    BY <1>0, <2>1, <2>3 DEF RefusedLast
  <2>8. BlameListed'
    BY <1>0, <2>1, <2>2, <2>3 DEF BlameListed
  <2> QED
    BY <2>4, <2>5, <2>6, <2>7, <2>8 DEF SortedInv
<1>3. ASSUME NEW p \in Procs, NEW t \in Types, Refused(p, t)
      PROVE  SortedInv'
  <2>1. /\ UNCHANGED <<store, want, acquired, call>>
        /\ pc[p] = "acquire" /\ t \in want[p] /\ t \notin acquired[p]
        /\ store[t] # None
        /\ pc'[p] = "release" /\ blame'[p] = [by |-> store[t], on |-> t]
        /\ \A q \in Procs \ {p} : pc'[q] = pc[q] /\ blame'[q] = blame[q]
    BY <1>3 DEF Refused, Trying, First, TypeOK
  <2>2. blame[p] = None /\ ~GaveUp(p)
    BY <1>0, <2>1 DEF RefusedLast, GaveUp
  <2>3. \A q \in Procs : /\ Token(q)' = Token(q)
                         /\ q # p => GaveUp(q)' = GaveUp(q)
    BY <2>1 DEF Token, GaveUp
  <2>4. TokensStarted'
    BY <1>0, <2>1 DEF TokensStarted, Started
  <2>5. Ascending'
    BY <1>0, <2>1 DEF Ascending
  <2>6. KeyListed'
    BY <1>0, <2>1, <2>2, <2>3 DEF KeyListed
  <2>7. RefusedLast'
    <3>1. \A u \in acquired[p] : u < t
      BY <1>0, <2>1 DEF Ascending
    <3> QED
      BY <1>0, <2>1, <3>1 DEF RefusedLast
  <2>8. BlameListed'
    <3> SUFFICES ASSUME NEW r \in Procs, NEW q \in Procs,
                        blame'[r] # None, blame'[r].by = Token(q)'
                 PROVE  blame'[r].on \in acquired'[q] \/ GaveUp(q)'
      BY DEF BlameListed
    <3>1. CASE r = p
      <4>1. store[t] = Token(q) /\ blame'[r].on = t
        BY <2>1, <2>3, <3>1
      <4> QED
        BY <1>0, <2>1, <2>2, <2>3, <4>1 DEF KeyListed
    <3>2. CASE r # p
      BY <1>0, <2>1, <2>2, <2>3, <3>2 DEF BlameListed
    <3> QED
      BY <3>1, <3>2
  <2> QED
    BY <2>4, <2>5, <2>6, <2>7, <2>8 DEF SortedInv
<1>4. ASSUME NEW p \in Procs, NEW t \in Types, AcquireError(p, t)
      PROVE  SortedInv'
  <2>1. /\ UNCHANGED <<want, acquired, call, blame>>
        /\ pc[p] = "acquire" /\ pc'[p] = "release"
        /\ \A q \in Procs \ {p} : pc'[q] = pc[q]
        /\ \A u \in Types : store'[u] = store[u] \/ store'[u] = Token(p)
    BY <1>4 DEF AcquireError, Trying, TypeOK
  <2>2. GaveUp(p)'
    BY <1>0, <2>1 DEF RefusedLast, GaveUp
  <2>3. \A q \in Procs : Token(q)' = Token(q) /\ (GaveUp(q) => GaveUp(q)')
    BY <2>1, <2>2 DEF Token, GaveUp
  <2>4. TokensStarted'
    <3>1. Started(Token(p)) /\ \A tok : Started(tok)' = Started(tok)
      BY <2>1 DEF Started, Token, TypeOK
    <3> QED
      BY <1>0, <2>1, <3>1 DEF TokensStarted
  <2>5. Ascending' /\ RefusedLast'
    BY <1>0, <2>1 DEF Ascending, RefusedLast
  <2>6. KeyListed'
    BY <1>0, <2>1, <2>2, <2>3, TokenInjective DEF KeyListed
  <2>7. BlameListed'
    BY <1>0, <2>1, <2>3 DEF BlameListed
  <2> QED
    BY <2>4, <2>5, <2>6, <2>7 DEF SortedInv
<1>5. ASSUME NEW p \in Procs,
             Enter(p) \/ Leave(p) \/ Return(p) \/ Crash(p) \/ Restart(p)
      PROVE  SortedInv'
  <2>1. /\ UNCHANGED <<store, want, acquired, call, blame>>
        /\ \A q \in Procs \ {p} : pc'[q] = pc[q]
        /\ pc'[p] # "acquire"
        /\ pc[p] \notin {"acquire", "body"} => pc'[p] \notin {"acquire", "body"}
    BY <1>5 DEF Enter, Leave, Return, Crash, Restart, TypeOK
  <2>2. pc'[p] = "body" => blame[p] = None
    BY <1>0, <1>5 DEF Enter, Leave, Return, Crash, Restart, TypeOK, RefusedLast
  <2>3. \A q \in Procs : Token(q)' = Token(q) /\ (GaveUp(q) => GaveUp(q)')
    BY <2>1 DEF Token, GaveUp
  <2>4. TokensStarted' /\ Ascending'
    BY <1>0, <2>1 DEF TokensStarted, Started, Ascending
  <2>5. KeyListed' /\ BlameListed'
    BY <1>0, <2>1, <2>3 DEF KeyListed, BlameListed
  <2>6. RefusedLast'
    BY <1>0, <2>1, <2>2 DEF RefusedLast
  <2> QED
    BY <2>4, <2>5, <2>6 DEF SortedInv
<1>6. ASSUME NEW p \in Procs, NEW t \in Types,
             Release(p, t) \/ ReleaseError(p, t)
      PROVE  SortedInv'
  <2>1. /\ UNCHANGED <<want, acquired, call, blame>>
        /\ \A q \in Procs \ {p} : pc'[q] = pc[q]
        /\ pc[p] = "release" /\ pc'[p] \in {"release", "idle"}
        /\ \A u \in Types : store'[u] = store[u] \/ store'[u] = None
    BY <1>6 DEF Release, ReleaseError, CompareAndDelete, TypeOK
  <2>2. \A q \in Procs : Token(q)' = Token(q) /\ (GaveUp(q) => GaveUp(q)')
    BY <2>1 DEF Token, GaveUp
  <2>3. TokensStarted' /\ Ascending' /\ RefusedLast'
    BY <1>0, <2>1 DEF TokensStarted, Started, Ascending, RefusedLast
  <2>4. KeyListed'
    BY <1>0, <2>1, <2>2, TokenNotNone DEF KeyListed
  <2>5. BlameListed'
    BY <1>0, <2>1, <2>2 DEF BlameListed
  <2> QED
    BY <2>3, <2>4, <2>5 DEF SortedInv
<1>7. ASSUME NEW t \in Types, Expire(t)
      PROVE  SortedInv'
  <2>1. /\ UNCHANGED <<pc, want, acquired, call, blame>>
        /\ \A u \in Types : store'[u] = store[u] \/ store'[u] = None
    BY <1>7 DEF Expire, TypeOK
  <2>2. \A q \in Procs : Token(q)' = Token(q) /\ GaveUp(q)' = GaveUp(q)
    BY <2>1 DEF Token, GaveUp
  <2>3. TokensStarted' /\ Ascending' /\ RefusedLast'
    BY <1>0, <2>1 DEF TokensStarted, Started, Ascending, RefusedLast
  <2>4. KeyListed'
    BY <1>0, <2>1, <2>2, TokenNotNone DEF KeyListed
  <2>5. BlameListed'
    BY <1>0, <2>1, <2>2 DEF BlameListed
  <2> QED
    BY <2>3, <2>4, <2>5 DEF SortedInv
<1>8. CASE UNCHANGED vars
  BY <1>0, <1>8 DEF vars, SortedInv, TokensStarted, Started, Ascending,
     KeyListed, RefusedLast, BlameListed, GaveUp, Token
<1> QED
  BY <1>1, <1>2, <1>3, <1>4, <1>5, <1>6, <1>7, <1>8 DEF Next, Step, Fault

(* Two overlapping calls never make each other fail: at most one of them   *)
(* is refused because of the other, so contention alone lets one through.  *)
THEOREM NoMutualRefusalHolds == Spec => []NoMutualRefusal
<1>1. Init => SortedInv
  BY LockAssumption
     DEF Init, SortedInv, TokensStarted, Ascending, KeyListed, RefusedLast,
         BlameListed, GaveUp, Token, Types
<1> QED
  BY <1>1, TypeCorrect, SortedStep, SortedExcludesMutualRefusal, PTL DEF Spec

-------------------------------------------------------------------------------
(* Without failing commands and dying processes the finally block frees    *)
(* every key: a key in Redis always belongs to a call that will free it.   *)
THEOREM NoOrphanWithoutFaults ==
  ASSUME Faults \subseteq {"expiry"} PROVE Spec => []NoOrphanLock
<1>1. Init => NoOrphanLock
  BY DEF Init, NoOrphanLock, Types
<1>2. TypeOK /\ NoOrphanLock /\ [Next]_vars => NoOrphanLock'
  <2> SUFFICES ASSUME TypeOK, NoOrphanLock, [Next]_vars,
                      NEW t \in Types, store'[t] # None
               PROVE  \E p \in Procs : /\ store'[t] = Token(p)'
                                       /\ Holding(p)'
                                       /\ t \in toFree'[p]
    BY DEF NoOrphanLock, Holding
  <2>1. ASSUME store[t] = None
        PROVE  \E p \in Procs : Acquire(p, t)
    BY <2>1 DEF Next, Step, Fault, Call, Acquire, Refused, AcquireError, Enter,
       Leave, Release, CompareAndDelete, ReleaseError, Return, Expire, Crash,
       Restart, TypeOK, vars
  <2>2. CASE store[t] = None
    <3>1. PICK p \in Procs : Acquire(p, t)
      BY <2>1, <2>2
    <3>2. Token(p)' = Token(p) /\ Holding(p)'
      BY <3>1 DEF Acquire, Trying, Token, Holding
    <3> QED
      BY <3>1, <3>2 DEF Acquire, TypeOK
  <2>3. CASE store[t] # None
    <3>1. PICK p \in Procs : store[t] = Token(p) /\ Holding(p) /\ t \in toFree[p]
      BY <2>3 DEF NoOrphanLock, Holding
    <3>2. SUFFICES store'[t] = Token(p)' /\ Holding(p)' /\ t \in toFree'[p]
      OBVIOUS
    <3>3. ASSUME NEW q \in Procs, NEW T \in SUBSET Types, Call(q, T)
          PROVE  store'[t] = Token(p)' /\ Holding(p)' /\ t \in toFree'[p]
      BY <3>1, <3>3 DEF Call, TypeOK, Holding, Token
    <3>4. ASSUME NEW q \in Procs, NEW u \in Types, Acquire(q, u) \/ Refused(q, u)
          PROVE  store'[t] = Token(p)' /\ Holding(p)' /\ t \in toFree'[p]
      BY <2>3, <3>1, <3>4 DEF Acquire, Refused, TypeOK, Holding, Token
    <3>5. ASSUME NEW q \in Procs, NEW u \in Types, Release(q, u)
          PROVE  store'[t] = Token(p)' /\ Holding(p)' /\ t \in toFree'[p]
      <4>1. ~(q = p /\ u = t)
        BY <3>1, <3>5 DEF Release, CompareAndDelete, TypeOK
      <4>2. store'[t] = Token(p) /\ UNCHANGED <<pc, call>>
        BY <3>1, <3>5, <4>1, DeletesOwnOnly DEF Release
      <4>3. t \in toFree'[p]
        BY <3>1, <3>5, <4>1 DEF Release, TypeOK
      <4> QED
        BY <3>1, <4>2, <4>3 DEF Holding, Token
    <3>6. ASSUME NEW q \in Procs, Enter(q) \/ Leave(q) \/ Return(q) \/ Restart(q)
          PROVE  store'[t] = Token(p)' /\ Holding(p)' /\ t \in toFree'[p]
      BY <3>1, <3>6 DEF Enter, Leave, Return, Restart, TypeOK, Holding, Token
    <3>7. ASSUME NEW u \in Types, Expire(u)
          PROVE  store'[t] = Token(p)' /\ Holding(p)' /\ t \in toFree'[p]
      BY <3>1, <3>7 DEF Expire, TypeOK, Holding, Token
    <3>8. CASE UNCHANGED vars
      BY <3>1, <3>8 DEF vars, Holding, Token
    <3> QED
      BY <3>3, <3>4, <3>5, <3>6, <3>7, <3>8
         DEF Next, Step, Fault, AcquireError, ReleaseError, Crash
  <2> QED
    BY <2>2, <2>3
<1> QED
  BY <1>1, <1>2, TypeCorrect, PTL DEF Spec

(* The Redis keys implement the lock service: a type passes from one       *)
(* holder to the next only through being free, whatever fails.             *)
THEOREM KeysImplementService == Spec => ImplementsLockService
<1>1. Init => [t \in Types |-> IF store[t] = None THEN None ELSE store[t].proc]
                = Service!NewLocks
  BY DEF Init, Service!NewLocks
<1>2. TypeOK /\ [Next]_vars =>
        [Service!Next]_([t \in Types |->
                           IF store[t] = None THEN None ELSE store[t].proc])
  <2> DEFINE owner == [t \in Types |->
                         IF store[t] = None THEN None ELSE store[t].proc]
  <2> SUFFICES ASSUME TypeOK, [Next]_vars PROVE Service!Next \/ UNCHANGED owner
    OBVIOUS
  <2>1. CASE UNCHANGED store
    BY <2>1
  <2>2. ASSUME NEW p \in Procs, NEW t \in Types, store[t] = None,
               store' = [store EXCEPT ![t] = Token(p)]
        PROVE  Service!Next
    <3>1. owner' = [owner EXCEPT ![t] = p] /\ owner[t] = None
      BY <2>2, TokenNotNone DEF TypeOK, Token
    <3> QED
      BY <3>1 DEF Service!Next, Service!Grant
  <2>3. ASSUME NEW t \in Types, store[t] # None,
               store' = [store EXCEPT ![t] = None]
        PROVE  Service!Next
    <3>1. owner' = [owner EXCEPT ![t] = None]
      BY <2>3 DEF TypeOK
    <3>2. owner[t] # None
      BY <2>3, LockAssumption DEF TypeOK, Tokens
    <3> QED
      BY <3>1, <3>2 DEF Service!Next, Service!Free
  <2>4. ASSUME NEW p \in Procs, NEW t \in Types, CompareAndDelete(p, t)
        PROVE  UNCHANGED store \/ store' = [store EXCEPT ![t] = None]
    BY <2>4 DEF CompareAndDelete, TypeOK
  <2>5. ASSUME NEW p \in Procs, NEW t \in Types, CompareAndDelete(p, t)
        PROVE  Service!Next \/ UNCHANGED owner
    <3>1. CASE store[t] = None
      <4>1. UNCHANGED store
        BY <2>4, <2>5, <3>1 DEF TypeOK
      <4> QED
        BY <4>1
    <3>2. CASE store[t] # None
      BY <2>3, <2>4, <2>5, <3>2
    <3> QED
      BY <3>1, <3>2
  <2>6. ASSUME NEW p \in Procs, NEW t \in Types,
               \/ Acquire(p, t) \/ Refused(p, t) \/ AcquireError(p, t)
               \/ Release(p, t) \/ ReleaseError(p, t)
        PROVE  Service!Next \/ UNCHANGED owner
    BY <2>1, <2>2, <2>5, <2>6
       DEF Acquire, Refused, AcquireError, Release, ReleaseError
  <2>7. ASSUME NEW t \in Types, Expire(t)
        PROVE  Service!Next
    BY <2>3, <2>7 DEF Expire
  <2> QED
    BY <2>1, <2>6, <2>7
       DEF Next, Step, Fault, Call, Enter, Leave, Return, Crash, Restart, vars
<1> QED
  BY <1>1, <1>2, TypeCorrect, PTL DEF Spec, ImplementsLockService, Service!Spec
===============================================================================
