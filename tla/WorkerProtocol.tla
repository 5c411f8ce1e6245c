--------------------------- MODULE WorkerProtocol ---------------------------
(***************************************************************************)
(* The lines a worker process reads and writes (worker_common.h).          *)
(*                                                                         *)
(* A batch is its count and the offsets whose digest is below the target.  *)
(* An offset also stands for its digest.                                   *)
(***************************************************************************)
EXTENDS Integers

CONSTANT MaxCount  \* largest batch (2^32)

ASSUME ProtocolAssumption == MaxCount \in Nat \ {0}

Offsets == 0 .. MaxCount

(* No batch, and those parse_job lets through.                             *)
NoBatch == [count |-> 0, good |-> {}]
Batches == [count : 1 .. MaxCount, good : SUBSET Offsets]

Within(b) == 0 .. b.count - 1

(* Lines written.  A hit counts the offsets up to its own.                 *)
NoReply == [kind |-> "none"]
Error == [kind |-> "error"]
Digest == [kind |-> "digest"]
Hit(offset, digest) ==
  [kind |-> "hit", nonce |-> offset, digest |-> digest, hashes |-> offset + 1]
Miss(hashes) == [kind |-> "miss", hashes |-> hashes]
=============================================================================
