--------------------------- MODULE MCLedgerCalls ---------------------------
(***************************************************************************)
(* LedgerCalls for TLC: two jobs, two lease generations, a batch of one so *)
(* that the order of claims matters, and three claims per job so that      *)
(* replaced tokens exist.                                                  *)
(***************************************************************************)
EXTENDS LedgerCalls, TLC

CONSTANTS j1, j2, a1, a2

MCJobs     == {j1, j2}
MCAttempts == {a1, a2}
MCSymmetry == Permutations(MCJobs) \cup Permutations(MCAttempts)
=============================================================================
