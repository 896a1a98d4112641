---------------------------- MODULE MCWorkStore ----------------------------
(* The WorkStore's lease and execution columns with two jobs and two       *)
(* workers; each job may be leased three times and run twice.              *)
EXTENDS WorkStore, TLC

CONSTANTS j1, j2, w1, w2

MCJobs == {j1, j2}
MCWorkers == {w1, w2}
MCSymmetry == Permutations(MCJobs) \cup Permutations(MCWorkers)
=============================================================================
