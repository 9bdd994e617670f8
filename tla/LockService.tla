----------------------------- MODULE LockService -----------------------------
(***************************************************************************)
(* What the callers of withScheduleLock rely on: one lock per production   *)
(* type, granted only while it is free and never handed from one client    *)
(* to another without having been freed in between.  Who frees it, and     *)
(* when (the holder at the end of its work, or the expiry of the lease),   *)
(* is left open here; ScheduleLock.tla shows how the Redis keys of         *)
(* infra/redis/schedule-store.ts implement this service, and               *)
(* ScheduleCore.tla builds the scheduling operations on top of it.         *)
(***************************************************************************)
CONSTANTS
  Types,    \* the production types, one lock each
  Clients,  \* whoever may hold a lock
  NoClient  \* the holder of a free lock

VARIABLE holder

NewLocks == [t \in Types |-> NoClient]

Grant(c, t) ==
  /\ holder[t] = NoClient
  /\ holder' = [holder EXCEPT ![t] = c]

Free(t) ==
  /\ holder[t] # NoClient
  /\ holder' = [holder EXCEPT ![t] = NoClient]

Next == \E t \in Types : Free(t) \/ \E c \in Clients : Grant(c, t)

Spec == holder = NewLocks /\ [][Next]_holder
==============================================================================
