----------------------------- MODULE CpuWorker -----------------------------
(***************************************************************************)
(* miner/cpu_worker.cpp: it reads a line, tries one offset after the other *)
(* and writes its result, all in terms of the bytes on the line.           *)
(***************************************************************************)
EXTENDS Lanes

VARIABLES inbox,  \* the line written by the client, not read yet
          line,   \* the line being answered, or the one answered last
          batch,  \* the batch b, until its result is written
          reply,  \* the line last written
          o,      \* the loop variable
          over    \* the process has ended

vars == <<inbox, line, batch, reply, o, over>>

Offsets == 0 .. HalfLane

NoLine == [kind |-> "none"]
NoBatch == [count |-> 0, below |-> {}]
Quit == [kind |-> "quit"]
Error == [kind |-> "error"]

Init ==
  /\ inbox = NoLine /\ line = NoLine /\ batch = NoBatch /\ reply = NoLine
  /\ o = 0 /\ over = FALSE

Idle == batch = NoBatch /\ ~over

Reads(kind) ==
  /\ Idle /\ inbox.kind = kind
  /\ line' = inbox
  /\ inbox' = NoLine

-----------------------------------------------------------------------------
(* Short fields are filled up with zeros, long ones refused.               *)
HexBytes(field, n) == Zeros(n - Len(field)) \o field

Fit(l) ==
  /\ Len(l.address) <= AddressLen
  /\ \A f \in {"prev", "anchor"} : Len(l[f]) <= WordLen

JobFits(l) ==
  /\ Fit(l) /\ Len(l.target) <= WordLen /\ Len(l.start) <= WordLen
  /\ SubSeq(HexBytes(l.start, WordLen), WordLen - Lane + 1, WordLen) = Zeros(Lane)
  /\ l.count \in 1 .. HalfLane

LanesOf(l, nonce) ==
  BuildLanes(HexBytes(l.address, AddressLen), nonce,
             HexBytes(l.prev, WordLen), HexBytes(l.anchor, WordLen))

(* below: the offsets of any batch whose digest is below the target.       *)
BatchOf(l) ==
  LET s == HexBytes(l.start, WordLen)
      lanes == LanesOf(l, s)
      target == TargetWords(HexBytes(l.target, WordLen))
  IN  [start |-> s, lanes |-> lanes, count |-> l.count,
       below |-> {n \in Offsets : BelowTarget(HashOffset(lanes, n), target)}]

ParseJob ==
  /\ Reads("job") /\ JobFits(inbox)
  /\ batch' = BatchOf(inbox)
  /\ reply' = NoLine
  /\ o' = 0
  /\ UNCHANGED over

DigestFits(l) == Fit(l) /\ Len(l.nonce) <= WordLen

(* The low lane of the nonce goes through the batch path.                  *)
DigestCommand ==
  /\ Reads("digest") /\ DigestFits(inbox)
  /\ LET n == HexBytes(inbox.nonce, WordLen)
         high == SubSeq(n, 1, WordLen - Lane)
         low == BeWord(SubSeq(n, WordLen - Lane + 1, WordLen))
     IN  reply' = [kind |-> "digest",
                   digest |-> DigestBytes(
                     HashOffset(LanesOf(inbox, high \o Zeros(Lane)), low))]
  /\ UNCHANGED <<batch, o, over>>

Refuse ==
  /\ \/ Reads("job") /\ ~JobFits(inbox)
     \/ Reads("digest") /\ ~DigestFits(inbox)
     \/ Reads("unknown")
  /\ reply' = Error
  /\ UNCHANGED <<batch, o, over>>

QuitLine ==
  /\ Reads("quit")
  /\ over' = TRUE
  /\ UNCHANGED <<batch, reply, o>>

-----------------------------------------------------------------------------
InBatchWide(n) == n <= batch.count  \* mutation: off by one

InBatch(n) == n < batch.count

Searching == batch # NoBatch

Below(n) == n \in batch.below

NoHit ==
  /\ Searching /\ InBatch(o) /\ ~Below(o)
  /\ o' = o + 1
  /\ UNCHANGED <<inbox, line, batch, reply, over>>

Answer(fields) ==
  /\ reply' = fields
  /\ batch' = NoBatch
  /\ UNCHANGED <<inbox, line, o, over>>

Result(found, nonce, digest, hashes) ==
  [kind |-> "result", found |-> found, nonce |-> nonce, digest |-> digest,
   hashes |-> hashes]

Hit(n) ==
  Answer(Result(TRUE, NonceHex(batch.start, n),
                DigestBytes(HashOffset(batch.lanes, n)), n + 1))

HitLate ==  \* mutation: the loop goes on after a hit and keeps the last one
  /\ Searching /\ InBatch(o) /\ Below(o)
  /\ IF InBatch(o + 1) /\ Below(o + 1)
       THEN o' = o + 1 /\ UNCHANGED <<inbox, line, batch, reply, over>>
       ELSE Hit(o)

FindsHit == Searching /\ InBatch(o) /\ Below(o) /\ Hit(o)

Exhausted ==
  /\ Searching /\ ~InBatch(o)
  /\ Answer(Result(FALSE, Zeros(WordLen), Zeros(WordLen), batch.count))

Next ==
  \/ ParseJob \/ DigestCommand \/ Refuse \/ QuitLine
  \/ NoHit \/ FindsHit \/ Exhausted

-----------------------------------------------------------------------------
(***************************************************************************)
(* What the worker's state means to Search: a batch is its count and its   *)
(* hits, and an offset stands for its nonce and for its digest (that the   *)
(* digest on the line is the nonce's is AnswerVerifies of SelfTest).       *)
(***************************************************************************)
IsHit(r) == r.kind = "result" /\ r.found

OffsetOf(bytes) == BeWord(SubSeq(bytes, WordLen - Lane + 1, WordLen))

PlainBatch ==
  [count |-> batch.count,
   good |-> batch.below]

PlainReply ==
  CASE IsHit(reply) ->
         LET n == OffsetOf(reply.nonce)
         IN  [kind |-> "hit", nonce |-> n, digest |-> n, hashes |-> reply.hashes]
    [] reply.kind = "result" /\ ~reply.found ->
         [kind |-> "miss", hashes |-> reply.hashes]
    [] OTHER -> [kind |-> reply.kind]

Promise == INSTANCE Search
             WITH MaxCount <- HalfLane, batch <- PlainBatch, reply <- PlainReply

(* The CPU worker keeps the promises of Search (cpu_worker.cpp): it        *)
(* answers a job by a hit of its batch, by a miss after the whole batch    *)
(* or by an error.                                                         *)
Searches == Promise!Spec

(* tests/test_cpu_worker.py: the search "finds smallest valid offset".     *)
(* The offset it answers with is the first one of the batch.               *)
FindsSmallest ==
  [][Searching /\ IsHit(reply') =>
       \A n \in PlainBatch.good : OffsetOf(reply'.nonce) <= n]_vars
=============================================================================
