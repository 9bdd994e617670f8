---------------------------- MODULE MCScheduleCore ----------------------------
(* Small instances of ScheduleCore for TLC.                                *)
EXTENDS ScheduleCore, TLC

CONSTANTS a, b, f1, q1, q2, q3

TwoOrders == {a, b}
OneOrder == {a}
OneFactory == {f1}
TwoRequests == {q1, q2}
ThreeRequests == {q1, q2, q3}

(* An order that must be started on day 2, and one that can wait to day 3. *)
Deadlines == [o \in Orders |-> IF o = a THEN 2 ELSE 3]

NoOrder == {}
OnlyB == {b}
NoCell == {}
EveryCell == Cells
Optimize == {"GLOBAL_OPTIMIZE"}
BothPolicies == {"GAP_FILLING", "GLOBAL_OPTIMIZE"}

LockedOperations == {"run", "cancel", "delete", "daily", "move", "place"}
OccOperations == {"run", "preview", "apply", "issueCancel", "daily"}
SilentRuns == {"run", "preview", "apply"}
DailyRace == {"preview", "apply", "daily"}
IssueRace == {"run", "issueCancel"}
CancelDaily == {"cancel", "daily"}

SymRequests == Permutations(Requests)
===============================================================================
