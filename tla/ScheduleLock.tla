----------------------------- MODULE ScheduleLock -----------------------------
(***************************************************************************)
(* withScheduleLock of infra/redis/schedule-store.ts: one Redis key per    *)
(* production type, taken with SET NX EX under a fresh owner token and     *)
(* deleted by a script that compares the token first.  A call asks for a   *)
(* set of types, takes them one by one in sorted order, gives up at once   *)
(* when one is taken, runs its body, and in a finally block frees what it  *)
(* took.  Every await of the code is a step of its own, so the steps of    *)
(* all callers interleave; the key may expire under a body that is still   *)
(* running, a Redis command may fail (applied or not), and a process may   *)
(* die with keys held.                                                     *)
(***************************************************************************)
EXTENDS Integers

CONSTANTS
  NTypes,    \* number of production types; a type is its rank in sort order
  Procs,     \* the callers (request handlers and cron processes)
  MaxCalls,  \* bound on the calls each of them makes
  Faults,    \* which faults can happen
  Live,      \* the callers assumed to keep running (for liveness only)
  None       \* no token, no blame

FaultKinds == {"expiry", "redis", "crash"}

ASSUME LockAssumption ==
  /\ NTypes \in Nat
  /\ MaxCalls \in Nat
  /\ Faults \subseteq FaultKinds
  /\ Live \subseteq Procs
  /\ None \notin [proc : Procs, call : Nat]
  /\ None \notin [by : [proc : Procs, call : Nat], on : 1 .. NTypes]
  /\ None \notin Procs

VARIABLES
  store,     \* store[t]: the owner token under schedule:lock:t, or None
  pc,        \* where each caller is in withScheduleLock
  want,      \* the deduplicated types of its current call
  acquired,  \* acquiredLocks: the types whose SET succeeded in this call
  toFree,    \* those the finally loop has still to free
  call,      \* number of calls made, which makes the tokens unique
  lapsed,    \* history: held types whose lease ran out during this call
  blame      \* history: the token, and the type, that made this call fail

vars == <<store, pc, want, acquired, toFree, call, lapsed, blame>>

Types == 1 .. NTypes
Tokens == [proc : Procs, call : Nat]
Blames == [by : Tokens, on : Types]
Token(p) == [proc |-> p, call |-> call[p]]

TypeOK ==
  /\ store \in [Types -> Tokens \cup {None}]
  /\ pc \in [Procs -> {"idle", "acquire", "body", "release", "dead"}]
  /\ want \in [Procs -> SUBSET Types]
  /\ acquired \in [Procs -> SUBSET Types]
  /\ toFree \in [Procs -> SUBSET Types]
  /\ call \in [Procs -> Nat]
  /\ lapsed \in [Procs -> SUBSET Types]
  /\ blame \in [Procs -> Blames \cup {None}]

Init ==
  /\ store = [t \in Types |-> None]
  /\ pc = [p \in Procs |-> "idle"]
  /\ want = [p \in Procs |-> {}]
  /\ acquired = [p \in Procs |-> {}]
  /\ toFree = [p \in Procs |-> {}]
  /\ call = [p \in Procs |-> 0]
  /\ lapsed = [p \in Procs |-> {}]
  /\ blame = [p \in Procs |-> None]

(* Mutant: the types are locked in the order the caller listed them.       *)
FirstUnsorted(t, S) == t \in S

(* The loops walk sorted types: t is the first of S.                       *)
First(t, S) == t \in S /\ \A u \in S : t <= u

(***************************************************************************)
(* The call.  The argument is an array; Set and sort make it a sorted list *)
(* without duplicates, that is, the set T walked in increasing order.      *)
(***************************************************************************)
Call(p, T) ==
  /\ pc[p] = "idle"
  /\ call[p] < MaxCalls
  /\ pc' = [pc EXCEPT ![p] = "acquire"]
  /\ want' = [want EXCEPT ![p] = T]
  /\ acquired' = [acquired EXCEPT ![p] = {}]
  /\ toFree' = [toFree EXCEPT ![p] = {}]
  /\ call' = [call EXCEPT ![p] = @ + 1]
  /\ lapsed' = [lapsed EXCEPT ![p] = {}]
  /\ blame' = [blame EXCEPT ![p] = None]
  /\ UNCHANGED store

(* The next type the loop of p tries to lock.                              *)
Trying(p, t) ==
  /\ pc[p] = "acquire"
  /\ First(t, want[p] \ acquired[p])

(* Mutant: SET EX, without NX.                                             *)
AcquireWithoutNX(p, t) ==
  /\ Trying(p, t)
  /\ store' = [store EXCEPT ![t] = Token(p)]
  /\ acquired' = [acquired EXCEPT ![p] = @ \cup {t}]
  /\ toFree' = [toFree EXCEPT ![p] = @ \cup {t}]
  /\ UNCHANGED <<pc, want, call, lapsed, blame>>

(* SET NX EX on a free key.                                                *)
Acquire(p, t) ==
  /\ Trying(p, t)
  /\ store[t] = None
  /\ store' = [store EXCEPT ![t] = Token(p)]
  /\ acquired' = [acquired EXCEPT ![p] = @ \cup {t}]
  /\ toFree' = [toFree EXCEPT ![p] = @ \cup {t}]
  /\ UNCHANGED <<pc, want, call, lapsed, blame>>

(* Mutant: the throw is outside of the try, so no finally block runs.      *)
RefusedOutsideTry(p, t) ==
  /\ Trying(p, t)
  /\ store[t] # None
  /\ pc' = [pc EXCEPT ![p] = "idle"]
  /\ blame' = [blame EXCEPT ![p] = [by |-> store[t], on |-> t]]
  /\ UNCHANGED <<store, want, acquired, toFree, call, lapsed>>

(* SET NX on a key that exists: the call throws and goes to finally.       *)
Refused(p, t) ==
  /\ Trying(p, t)
  /\ store[t] # None
  /\ pc' = [pc EXCEPT ![p] = "release"]
  /\ blame' = [blame EXCEPT ![p] = [by |-> store[t], on |-> t]]
  /\ UNCHANGED <<store, want, acquired, toFree, call, lapsed>>

(* The SET itself throws: it may have been applied before the connection   *)
(* failed, and then the key is taken by a token acquiredLocks misses.      *)
AcquireError(p, t) ==
  /\ "redis" \in Faults
  /\ Trying(p, t)
  /\ \/ UNCHANGED store
     \/ store[t] = None /\ store' = [store EXCEPT ![t] = Token(p)]
  /\ pc' = [pc EXCEPT ![p] = "release"]
  /\ UNCHANGED <<want, acquired, toFree, call, lapsed, blame>>

(* The loop is over: fn() runs.                                            *)
Enter(p) ==
  /\ pc[p] = "acquire"
  /\ acquired[p] = want[p]
  /\ pc' = [pc EXCEPT ![p] = "body"]
  /\ UNCHANGED <<store, want, acquired, toFree, call, lapsed, blame>>

(* fn() returns or throws; either way the finally block follows.           *)
Leave(p) ==
  /\ pc[p] = "body"
  /\ pc' = [pc EXCEPT ![p] = "release"]
  /\ UNCHANGED <<store, want, acquired, toFree, call, lapsed, blame>>

(* Mutant: DEL, whoever the owner is.                                      *)
DeleteAlways(p, t) == store' = [store EXCEPT ![t] = None]

(* RELEASE_SCHEDULE_LOCK_SCRIPT: delete the key if the token is ours.      *)
CompareAndDelete(p, t) ==
  store' = [store EXCEPT ![t] = IF @ = Token(p) THEN None ELSE @]

(* Mutant: the script is retried until it reports a deletion.              *)
ReleaseUntilDeleted(p, t) ==
  /\ pc[p] = "release"
  /\ First(t, toFree[p])
  /\ store[t] = Token(p)
  /\ CompareAndDelete(p, t)
  /\ toFree' = [toFree EXCEPT ![p] = @ \ {t}]
  /\ UNCHANGED <<pc, want, acquired, call, lapsed, blame>>

Release(p, t) ==
  /\ pc[p] = "release"
  /\ First(t, toFree[p])
  /\ CompareAndDelete(p, t)
  /\ toFree' = [toFree EXCEPT ![p] = @ \ {t}]
  /\ UNCHANGED <<pc, want, acquired, call, lapsed, blame>>

(* The eval throws, applied or not: the loop ends and what it had not yet  *)
(* freed stays taken.                                                      *)
ReleaseError(p, t) ==
  /\ "redis" \in Faults
  /\ pc[p] = "release"
  /\ First(t, toFree[p])
  /\ UNCHANGED store \/ CompareAndDelete(p, t)
  /\ pc' = [pc EXCEPT ![p] = "idle"]
  /\ UNCHANGED <<want, acquired, toFree, call, lapsed, blame>>

Return(p) ==
  /\ pc[p] = "release"
  /\ toFree[p] = {}
  /\ pc' = [pc EXCEPT ![p] = "idle"]
  /\ UNCHANGED <<store, want, acquired, toFree, call, lapsed, blame>>

(* Mutant: SET NX without EX.                                              *)
ExpireNever(t) == FALSE

(* Redis deletes the key SCHEDULE_LOCK_TTL_SECONDS after the SET, whatever *)
(* its owner is doing; nothing renews the lease.                           *)
Expire(t) ==
  /\ "expiry" \in Faults
  /\ store[t] # None
  /\ store' = [store EXCEPT ![t] = None]
  /\ lapsed' = [p \in Procs |->
                  IF store[t] = Token(p) THEN lapsed[p] \cup {t}
                                         ELSE lapsed[p]]
  /\ UNCHANGED <<pc, want, acquired, toFree, call, blame>>

(* The process dies: its memory is gone, its keys stay.                    *)
Crash(p) ==
  /\ "crash" \in Faults
  /\ pc[p] \notin {"idle", "dead"}
  /\ pc' = [pc EXCEPT ![p] = "dead"]
  /\ toFree' = [toFree EXCEPT ![p] = {}]
  /\ UNCHANGED <<store, want, acquired, call, lapsed, blame>>

Restart(p) ==
  /\ pc[p] = "dead"
  /\ pc' = [pc EXCEPT ![p] = "idle"]
  /\ UNCHANGED <<store, want, acquired, toFree, call, lapsed, blame>>

(* The steps a live caller takes by itself once it has been called.        *)
Step(p) ==
  \/ \E t \in Types : \/ Acquire(p, t)
                      \/ Refused(p, t)
                      \/ Release(p, t)
  \/ Enter(p)
  \/ Leave(p)
  \/ Return(p)

Fault(p) ==
  \/ \E t \in Types : AcquireError(p, t) \/ ReleaseError(p, t)
  \/ Crash(p)
  \/ Restart(p)

Next ==
  \/ \E p \in Procs : (\E T \in SUBSET Types : Call(p, T)) \/ Step(p) \/ Fault(p)
  \/ \E t \in Types : Expire(t)

Spec == Init /\ [][Next]_vars

(***************************************************************************)
(* Fairness: Node runs every continuation that is ready, so a live caller  *)
(* goes on; Redis expires every key it was given a TTL for.  Calls, faults *)
(* and restarts need never happen, and callers outside Live may stop       *)
(* anywhere.  A body is a database transaction with a timeout, so it ends. *)
(***************************************************************************)
Fairness ==
  /\ \A p \in Live : WF_vars(Step(p))
  /\ \A t \in Types : WF_vars(Expire(t))

FairSpec == Spec /\ Fairness

-------------------------------------------------------------------------------
(* Two bodies that run at the same time under a common type: one of them   *)
(* has outlived its lease.  Short of that, withScheduleLock excludes every *)
(* other holder of any of its types, whatever commands fail and whoever    *)
(* dies, and no caller can free a key that has passed to another.          *)
MutualExclusion ==
  \A p, q \in Procs :
    p # q /\ pc[p] = "body" /\ pc[q] = "body"
      => want[p] \cap want[q] \subseteq lapsed[p] \cup lapsed[q]

(* The reason the types are sorted: two calls that overlap in several      *)
(* types never make each other fail.  Of two contenders at most one is     *)
(* refused because of the other, so contention alone cannot stop both.     *)
NoMutualRefusal ==
  \A p, q \in Procs :
    ~ /\ blame[p] # None /\ blame[p].by = Token(q)
      /\ blame[q] # None /\ blame[q].by = Token(p)

(* A key in Redis belongs to a call in progress that will free it: unless  *)
(* a command fails or a process dies, no path through the refusals and the *)
(* finally block, and no expiry in the middle, leaves a lock behind.       *)
NoOrphanLock ==
  \A t \in Types : store[t] # None =>
    \E p \in Procs : /\ store[t] = Token(p)
                     /\ pc[p] \in {"acquire", "body", "release"}
                     /\ t \in toFree[p]

(* A call never waits for another caller: it runs its body and comes back, *)
(* or is refused, even when everyone else stops with locks in hand.        *)
EveryCallReturns ==
  \A p \in Live : pc[p] = "acquire" ~> pc[p] \in {"idle", "dead"}

(* Whatever failed or died, a type is not locked for ever.                 *)
NoLockForEver == \A t \in Types : []<>(store[t] = None)

(* The keys implement the lock service, with the process named in the      *)
(* token as the holder.                                                    *)
Service == INSTANCE LockService WITH
  Clients <- Procs,
  NoClient <- None,
  holder <- [t \in Types |-> IF store[t] = None THEN None ELSE store[t].proc]

ImplementsLockService == Service!Spec
===============================================================================
