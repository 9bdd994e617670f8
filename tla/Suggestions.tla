------------------------------ MODULE Suggestions ------------------------------
(***************************************************************************)
(* getSuggestions of modules/order/conflict-issue-service.ts: what the     *)
(* issue page tells a planner to make of an order that did not fit.  It    *)
(* looks at the capacities of now, in the window of the run that failed,   *)
(* which the issue keeps as its snapshot.                                  *)
(***************************************************************************)
EXTENDS OrderStore

(* A cell without a row has all the room of its factory.                   *)
Available(c) == IF cap[c] = None THEN Room[c[1]] ELSE Larger(0, cap[c])
DayCapacity(d) == MapThenSumSet(LAMBDA f : Available(<<f, d>>), Factories)
BlockOfDay(d) == Max({Available(<<f, d>>) : f \in Factories})

(* maxFitInOriginalWindow: how much would fit by the old due date.         *)
MaxFit(s) ==
  LET window == (s.start .. s.end) \cap Calendar
  IN IF s.splittable
     THEN MapThenSumSet(DayCapacity, window)
     ELSE Smaller(s.qty, Max({0} \cup {BlockOfDay(d) : d \in window}))

(* earliestFitForOriginalQty: the due date from which all of it would fit, *)
(* by a scan of the days after the window.                                 *)
(* Mutant: the parts of an order that cannot be split are added up too.    *)
EarliestFitSummed(s) ==
  LET until(d) == {e \in Calendar : s.end < e /\ e <= d}
      fits == {d \in Calendar : /\ s.end < d
                 /\ MaxFit(s) + MapThenSumSet(DayCapacity, until(d)) >= s.qty}
  IN IF fits = {} THEN None ELSE Min(fits) + ProductionDays + BufferDays

EarliestFit(s) ==
  LET until(d) == {e \in Calendar : s.end < e /\ e <= d}
      met(d) ==
        IF s.splittable
        THEN MaxFit(s) + MapThenSumSet(DayCapacity, until(d)) >= s.qty
        ELSE BlockOfDay(d) >= s.qty
      fits == {d \in Calendar : s.end < d /\ met(d)}
  IN IF fits = {} THEN None ELSE Min(fits) + ProductionDays + BufferDays
================================================================================
