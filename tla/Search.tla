------------------------------- MODULE Search -------------------------------
(***************************************************************************)
(* What a worker process promises for one line of input: a job is answered *)
(* by a hit whose nonce and digest belong together and meet the target, by *)
(* a miss only if nothing in the batch meets it, or by an error.           *)
(***************************************************************************)
EXTENDS WorkerProtocol

VARIABLES batch,  \* the batch being searched
          reply   \* the line last written

Init == batch = NoBatch /\ reply = NoReply

Take ==
  /\ batch = NoBatch
  /\ batch' \in Batches
  /\ reply' = NoReply

(* A digest line, and one that is not understood.                          *)
AnswerOther ==
  /\ batch = NoBatch
  /\ reply' \in {Digest, Error}
  /\ UNCHANGED batch

Done == batch # NoBatch /\ batch' = NoBatch

AnswerHit ==
  /\ Done
  /\ \E o \in Within(batch) \intersect batch.good : reply' = Hit(o, o)

AnswerMiss ==
  /\ Done
  /\ Within(batch) \intersect batch.good = {}
  /\ reply' = Miss(batch.count)

AnswerError == Done /\ reply' = Error

Next == Take \/ AnswerOther \/ AnswerHit \/ AnswerMiss \/ AnswerError

Spec == Init /\ [][Next]_<<batch, reply>>
=============================================================================
