---------------------------- MODULE MCDetection -----------------------------
(* Detection for TLC: constants of the configurations and symmetry.        *)
EXTENDS Detection, TLC

NoEngine == {}
LastEngine == {<<Windows, Iterations>>}

WorkerSymmetry == Permutations(Workers)
=============================================================================
