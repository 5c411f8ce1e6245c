---------------------------- MODULE MCCudaWorker ----------------------------
(***************************************************************************)
(* Batches of up to four offsets, two threads that look at found every     *)
(* second time: a thread has up to two offsets, and looks before some of   *)
(* them and not before others.                                             *)
(***************************************************************************)
EXTENDS CudaWorker
=============================================================================
