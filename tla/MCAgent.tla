------------------------------ MODULE MCAgent ------------------------------
(***************************************************************************)
(* Two workers that are alike; symmetry is used where only safety is       *)
(* checked.                                                                *)
(***************************************************************************)
EXTENDS Agent, TLC

CONSTANTS w1, w2

OneWorker == {w1}
TwoWorkers == {w1, w2}
WorkerSymmetry == Permutations(TwoWorkers)
=============================================================================
