------------------------------ MODULE MCMining ------------------------------
(***************************************************************************)
(* A session and its agent.                                                *)
(***************************************************************************)
EXTENDS Mining, TLC

CONSTANTS w1, w2

OneWorker == {w1}
TwoWorkers == {w1, w2}
WorkerSymmetry == Permutations(TwoWorkers)
=============================================================================
