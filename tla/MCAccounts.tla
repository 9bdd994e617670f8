------------------------------ MODULE MCAccounts ------------------------------
(* Two users, the second of them not yet there, and two requests at a time. *)
EXTENDS Accounts, TLC

CONSTANTS u1, u2, n1, n2, e1, e2, g1, g2, f1, f2, q1, q2

MCGroupOf == [f \in {f1, f2} |-> IF f = f1 THEN g1 ELSE g2]

MCSeed ==
  [u \in {u1, u2} |->
     IF u = u2 THEN None
     ELSE [name |-> n1, email |-> e1, active |-> TRUE, role |-> "ADMIN",
           group |-> g1, failed |-> 0, lockedUntil |-> None,
           managed |-> {f1}]]

RequestSymmetry == Permutations(Requests)

MCMixes ==
  { {"login", "refresh", "logout", "time", "failure"},
    {"login", "refresh", "update", "demote", "time"},
    {"login", "refresh", "delete", "time", "failure"},
    {"login", "guess", "time", "failure"},
    {"invite", "resend", "accept", "time", "failure"},
    {"change", "confirm", "invite", "time"},
    {"invite", "update", "email", "failure"},
    {"update", "role", "group", "delete", "failure"} }
===============================================================================
