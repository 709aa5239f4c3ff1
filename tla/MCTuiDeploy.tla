---------------------------- MODULE MCTuiDeploy ----------------------------
(* TuiDeploy with three runs, which are alike. *)
EXTENDS TuiDeploy, TLC

CONSTANTS r1, r2, r3

MCRuns == {r1, r2, r3}
Symmetry == Permutations(MCRuns)
=============================================================================
