----------------------------- MODULE CudaWorker -----------------------------
(***************************************************************************)
(* miner/worker.cu: the host loop, and the kernel it launches, whose       *)
(* threads share one result in device memory.                              *)
(*                                                                         *)
(* A kernel step is a read or a write of that result, with the thread's    *)
(* own arithmetic around it.  The winner's stores to the result are two    *)
(* steps, offset and digest.                                               *)
(***************************************************************************)
EXTENDS WorkerProtocol

CONSTANTS Stride,  \* threads of the launch: blocks times threads per block
          Every    \* how often a thread looks at found (32)

ASSUME CudaAssumption == Stride \in Nat \ {0} /\ Every \in Nat \ {0}

VARIABLES batch,  \* the batch b, until its result is written
          reply,  \* the line last written
          host,   \* where the host loop is
          res,    \* the DeviceResult
          phase,  \* where each thread is
          at,     \* o, of each thread
          iter,   \* iter, of each thread
          tried   \* history: the offsets hashed by this launch

hostVars == <<batch, reply, host>>
kernelVars == <<res, phase, at, iter, tried>>
vars == <<batch, reply, host, res, phase, at, iter, tried>>

Threads == 0 .. Stride - 1
Unset == -1  \* the digest of a cleared result

Zero == [found |-> FALSE, offset |-> 0, digest |-> Unset]

Init ==
  /\ batch = NoBatch /\ reply = NoReply
  /\ host = "read"
  /\ res = Zero
  /\ phase = [t \in Threads |-> "done"]
  /\ at = [t \in Threads |-> t]
  /\ iter = [t \in Threads |-> 0]
  /\ tried = {}

-----------------------------------------------------------------------------
(* The host loop.  A line that is no job, or does not parse as one.        *)
OtherLine ==
  /\ host = "read"
  /\ reply' \in {Digest, Error}
  /\ UNCHANGED <<batch, host, kernelVars>>

ParseJob ==
  /\ host = "read"
  /\ batch' \in Batches
  /\ reply' = NoReply
  /\ host' = "copy"
  /\ UNCHANGED kernelVars

(* The job and a zero result are copied to the device.                     *)
CopyJobOnly ==  \* mutation: the result of the batch before stays
  /\ host = "copy"
  /\ host' = "launch"
  /\ UNCHANGED <<batch, reply, kernelVars>>

CopyJob ==
  /\ host = "copy"
  /\ res' = Zero
  /\ host' = "launch"
  /\ UNCHANGED <<batch, reply, phase, at, iter, tried>>

Launch ==
  /\ host = "launch"
  /\ phase' = [t \in Threads |-> "loop"]
  /\ at' = [t \in Threads |-> t]
  /\ iter' = [t \in Threads |-> 0]
  /\ tried' = {}
  /\ host' = "sync"
  /\ UNCHANGED <<batch, reply, res>>

KernelOver == \A t \in Threads : phase[t] = "done"

SomeThreadOver == \E t \in Threads : phase[t] = "done"  \* mutation

(* cudaDeviceSynchronize, the copy of the result, and the line.            *)
Synchronized(ended) ==
  /\ host = "sync" /\ ended
  /\ reply' = IF res.found THEN Hit(res.offset, res.digest)
                           ELSE Miss(batch.count)
  /\ batch' = NoBatch
  /\ host' = "read"
  /\ UNCHANGED kernelVars

ReadAtOnce == Synchronized(SomeThreadOver)  \* mutation: no synchronization

ReadHitOnly == Synchronized(KernelOver /\ res.found)  \* mutation: no line for a miss

ReadResult == Synchronized(KernelOver)

(* One of the CUDA calls fails; the kernel does not outlive that.          *)
CudaFails ==
  /\ host \in {"copy", "launch", "sync"}
  /\ reply' = Error
  /\ batch' = NoBatch
  /\ host' = "read"
  /\ phase' = [t \in Threads |-> "done"]
  /\ UNCHANGED <<res, at, iter, tried>>

QuitLine ==
  /\ host = "read"
  /\ host' = "over"
  /\ UNCHANGED <<batch, reply, kernelVars>>

-----------------------------------------------------------------------------
(* The kernel.                                                             *)
At(t, p) == host = "sync" /\ phase[t] = p

Goto(t, p) == phase' = [phase EXCEPT ![t] = p]

InBatchNarrow(o) == o + 1 < batch.count  \* mutation: off by one

InBatchAlways(o) == TRUE  \* mutation: the end of the batch is not looked at

InBatch(o) == o < batch.count

Looks(t) == (iter[t] + 1) % Every = 0

Exhausted(t) ==
  /\ At(t, "loop") /\ ~InBatch(at[t])
  /\ Goto(t, "done")
  /\ UNCHANGED <<hostVars, res, at, iter, tried>>

SeesFound(t) ==
  /\ At(t, "loop") /\ InBatch(at[t])
  /\ Looks(t) /\ res.found
  /\ iter' = [iter EXCEPT ![t] = @ + 1]
  /\ Goto(t, "done")
  /\ UNCHANGED <<hostVars, res, at, tried>>

GoesOn(t) ==
  /\ At(t, "loop") /\ InBatch(at[t])
  /\ ~(Looks(t) /\ res.found)
  /\ iter' = [iter EXCEPT ![t] = @ + 1]
  /\ Goto(t, "hash")
  /\ UNCHANGED <<hostVars, res, at, tried>>

(* hc_hash_offset and hc_below_target.                                     *)
NoHit(t) ==
  /\ At(t, "hash") /\ at[t] \notin batch.good
  /\ tried' = tried \union {at[t]}
  /\ at' = [at EXCEPT ![t] = @ + Stride]
  /\ Goto(t, "loop")
  /\ UNCHANGED <<hostVars, res, iter>>

(* The atomicCAS of found, by a thread that has a hit.                     *)
StoreFound(t) ==  \* mutation: found is set, not compared
  /\ At(t, "hash") /\ at[t] \in batch.good
  /\ tried' = tried \union {at[t]}
  /\ res' = [res EXCEPT !.found = TRUE]
  /\ Goto(t, "offset")
  /\ UNCHANGED <<hostVars, at, iter>>

Claim(t) ==
  /\ At(t, "hash") /\ at[t] \in batch.good
  /\ tried' = tried \union {at[t]}
  /\ res' = [res EXCEPT !.found = TRUE]
  /\ Goto(t, IF res.found THEN "done" ELSE "offset")
  /\ UNCHANGED <<hostVars, at, iter>>

StoreOffset(t) ==
  /\ At(t, "offset")
  /\ res' = [res EXCEPT !.offset = at[t]]
  /\ Goto(t, "digest")
  /\ UNCHANGED <<hostVars, at, iter, tried>>

StoreDigest(t) ==
  /\ At(t, "digest")
  /\ res' = [res EXCEPT !.digest = at[t]]
  /\ Goto(t, "done")
  /\ UNCHANGED <<hostVars, at, iter, tried>>

ThreadStep(t) ==
  \/ Exhausted(t) \/ SeesFound(t) \/ GoesOn(t) \/ NoHit(t)
  \/ Claim(t) \/ StoreOffset(t) \/ StoreDigest(t)

-----------------------------------------------------------------------------
HostStep == CopyJob \/ Launch \/ ReadResult \/ CudaFails

Next ==
  \/ OtherLine \/ ParseJob \/ QuitLine
  \/ HostStep
  \/ \E t \in Threads : ThreadStep(t)

Spec == Init /\ [][Next]_vars

(* The host goes on, and the device gets every thread of a launch done.    *)
FairSpec ==
  /\ Spec
  /\ WF_vars(CopyJob) /\ WF_vars(Launch) /\ WF_vars(ReadResult)
  /\ \A t \in Threads : WF_vars(ThreadStep(t))

-----------------------------------------------------------------------------
(* Types.                                                                  *)
TypeOK ==
  /\ batch \in Batches \union {NoBatch}
  /\ host \in {"read", "copy", "launch", "sync", "over"}
  /\ res \in [found : BOOLEAN, offset : Offsets, digest : Offsets \union {Unset}]
  /\ phase \in [Threads -> {"loop", "hash", "offset", "digest", "done"}]
  /\ at \in [Threads -> Nat] /\ iter \in [Threads -> Nat]
  /\ tried \subseteq Offsets

(* Without a hit every offset of the batch was hashed (worker.cu: "Without *)
(* a hit every offset was tried"), by threads that only stop early when    *)
(* they see one, and none beyond it ever is.                               *)
MissTriedAll ==
  host = "sync" => /\ tried \subseteq Within(batch)
                   /\ KernelOver /\ ~res.found => tried = Within(batch)

(* The result belongs to one thread: whoever has claimed it is alone in    *)
(* writing it, and nobody writes one that is not claimed (atomicCAS).      *)
OneWriter ==
  host = "sync" =>
    \A t, u \in Threads :
      phase[t] \in {"offset", "digest"} =>
        res.found /\ (phase[u] \in {"offset", "digest"} => u = t)

(* What makes the two above inductive, while a launch is on.  A thread     *)
(* stays in its lane and leaves no offset of it out; only offsets of the   *)
(* batch get beyond the bound check; a thread that writes the result has a *)
(* hit; without a hit no thread has stopped early; a result nobody writes  *)
(* is that of one hit.                                                     *)
Writing(t) == phase[t] \in {"offset", "digest"}

LaneInv == \A t \in Threads : at[t] % Stride = t

SweepInv == \A o \in Within(batch) : o < at[o % Stride] => o \in tried

BoundInv ==
  /\ tried \subseteq Within(batch)
  /\ \A t \in Threads : phase[t] = "hash" \/ Writing(t) => at[t] \in Within(batch)

HitInv ==
  \A t \in Threads : /\ Writing(t) => at[t] \in batch.good
                     /\ phase[t] = "digest" => res.offset = at[t]

MissInv ==
  ~res.found => /\ tried \intersect batch.good = {}
                /\ \A t \in Threads : phase[t] = "done" => batch.count <= at[t]

ResultInv ==
  res.found /\ (\A t \in Threads : ~Writing(t)) =>
     res.offset = res.digest /\ res.offset \in Within(batch) \intersect batch.good

KernelInv == LaneInv /\ SweepInv /\ BoundInv /\ HitInv /\ MissInv /\ ResultInv

(* The host holds a batch exactly while it works on one, and the result is *)
(* cleared before a launch.                                                *)
HostInv ==
  /\ host \in {"read", "over"} <=> batch = NoBatch
  /\ host = "launch" => res = Zero

Inv == TypeOK /\ OneWriter /\ HostInv /\ (host = "sync" => KernelInv)

Promise == INSTANCE Search

(* The worker keeps the promises of Search whatever the order in which the *)
(* device runs its threads: the nonce and the digest of a hit are those of *)
(* one offset of this batch, and a miss is a miss (worker.cu).             *)
Searches == Promise!Spec

(* A job is answered (worker.cu, main).                                    *)
JobAnswered == (batch # NoBatch) ~> (batch = NoBatch)
=============================================================================
