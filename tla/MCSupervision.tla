--------------------------- MODULE MCSupervision ---------------------------
(* Supervision for TLC.  Of the instants 1.0 and 1.5 the first, trimmed, sorts
   after the second. *)
EXTENDS Supervision

CONSTANTS p1, p2

TwoProcs == {p1, p2}
At(second, tenth) == [i \in 0..1 |-> IF i = 0 THEN second ELSE tenth]
FewTimes == <<At(1, 0), At(1, 5)>>
=============================================================================
