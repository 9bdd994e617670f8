--------------------------- MODULE MCScheduleLock ---------------------------
(* Small instances of ScheduleLock for TLC.                                *)
EXTENDS ScheduleLock, TLC

CONSTANTS p1, p2, p3

TwoProcs == {p1, p2}
ThreeProcs == {p1, p2, p3}
OneLive == {p1}
NoFaults == {}
OnlyExpiry == {"expiry"}
AllFaults == FaultKinds
SymThree == Permutations(ThreeProcs)
=============================================================================
