---------------------------- MODULE MCRedelivery ---------------------------
(* Redelivery for TLC. *)
EXTENDS Redelivery, TLC

CONSTANTS j1, j2, j3, a1, l1, l2

MCJobs      == {j1, j2}
MCAttempts  == {a1}
ThreeJobs   == {j1, j2, j3}
ThirdJob    == {j3}
OneLoop     == {l1}
TwoLoops    == {l1, l2}
NoJob       == {}
SecondJob   == {j2}
MCSymmetry  == Permutations(TwoLoops)
=============================================================================
