----------------------------- MODULE SelfTest ------------------------------
(***************************************************************************)
(* The two clients of a worker process: scripts/gpu_selftest.py, which     *)
(* checks a worker on a rented box before it is paid to mine, and the      *)
(* agent with its batches.  Either asks one line at a time.                *)
(***************************************************************************)
EXTENDS CpuWorker, FiniteSets

CONSTANTS
  Rounds,      \* digest lines the self-test asks for (16), lines of the agent
  Addresses, Words, Nonces,  \* what it draws from
  EasyTarget,  \* 1 << 240
  Salts, Workers, MaxSeq, Targets,  \* the agent's batches
  OtherLines   \* lines neither client writes, typed by a person

JobLines ==
  [kind : {"job"}, address : Seq(Byte), prev : Seq(Byte), anchor : Seq(Byte),
   target : Seq(Byte), start : Seq(Byte), count : Nat]

DigestLines ==
  [kind : {"digest"}, address : Seq(Byte), prev : Seq(Byte), anchor : Seq(Byte),
   nonce : Seq(Byte)]

Lines == JobLines \union DigestLines \union {[kind |-> "unknown"]}

ASSUME SelfTestAssumption ==
  /\ Rounds \in Nat \ {0} /\ MaxSeq \in 0 .. Power[Lane] - 1
  /\ Addresses # {} /\ Addresses \subseteq [1 .. AddressLen -> Byte]
  /\ Words # {} /\ Words \subseteq [1 .. WordLen -> Byte]
  /\ Nonces \subseteq Nat /\ Targets \subseteq Nat
  /\ Salts \subseteq 0 .. Power[Lane] - 1 /\ Workers \subseteq Nat
  /\ EasyTarget \in 2 .. Power[WordLen] - 1
  /\ OtherLines \subseteq Lines

VARIABLES
  step,    \* where check_worker is, or "agent" for the other client
  asking,  \* the client waits for a line
  left     \* lines still to ask

clientVars == <<step, asking, left>>
allVars == <<vars, clientVars>>

ClientInit ==
  /\ Init
  /\ step \in {"digest", "agent"}
  /\ asking = FALSE
  /\ left = Rounds

-----------------------------------------------------------------------------
Ask(l) ==
  /\ ~asking /\ ~over
  /\ inbox' = l
  /\ asking' = TRUE
  /\ UNCHANGED <<line, batch, reply, o, over, step>>

Got(next) ==
  /\ step' = next
  /\ asking' = FALSE
  /\ UNCHANGED <<vars, left>>

Answered == asking /\ inbox = NoLine /\ batch = NoBatch /\ ~over

JobLine(address, prev, anchor, target, start, count) ==
  [kind |-> "job", address |-> address, prev |-> prev, anchor |-> anchor,
   target |-> Bytes(target, WordLen), start |-> Bytes(start, WordLen),
   count |-> count]

AskDigest ==
  /\ step = "digest"
  /\ left' = left - 1
  /\ \E address \in Addresses, prev, anchor \in Words, nonce \in Nonces :
       /\ line.kind = "digest" => address = line.address
       /\ Ask([kind |-> "digest", address |-> address, prev |-> prev,
               anchor |-> anchor, nonce |-> Bytes(nonce, WordLen)])

(* The numbers on a line, as pow.py hashes them.                           *)
Reference(l, nonce) ==
  PowDigest(HexBytes(l.address, AddressLen), nonce,
            HexBytes(l.prev, WordLen), HexBytes(l.anchor, WordLen))

Meets(l, nonce) == BeWord(Reference(l, nonce)) < BeWord(l.target)

(* Any other answer makes ask or the check raise.                          *)
DigestRight ==
  /\ reply.kind = "digest"
  /\ reply.digest = Reference(line, BeWord(line.nonce))

CheckDigest ==
  /\ step = "digest" /\ Answered
  /\ Got(CASE ~DigestRight -> "failed"
           [] DigestRight /\ left = 0 -> "easy"
           [] OTHER -> "digest")

AskEasy ==
  /\ step = "easy"
  /\ UNCHANGED left
  /\ \E prev, anchor \in Words, nonce \in Nonces :
       LET start == (nonce \div Power[Lane]) * Power[Lane]
       IN  Ask(JobLine(line.address, prev, anchor, EasyTarget, start, HalfLane))

Within(b, n) == n - BeWord(b.start) \in 0 .. b.count - 1

Verifies ==
  LET n == BeWord(reply.nonce)
  IN  Meets(line, n) /\ reply.digest = Reference(line, n)

EasyFound ==
  /\ reply.kind = "result" /\ reply.found
  /\ SubSeq(reply.nonce, 1, WordLen - Lane) = SubSeq(line.start, 1, WordLen - Lane)
  /\ Verifies

CheckEasy ==
  /\ step = "easy" /\ Answered
  /\ Got(IF EasyFound THEN "impossible" ELSE "failed")

AskAgain ==
  /\ step \in {"impossible", "throughput"}
  /\ UNCHANGED left
  /\ Ask([line EXCEPT !.target = Bytes(1, WordLen)])

ImpossibleMissed ==
  reply.kind = "result" /\ ~reply.found /\ reply.hashes = HalfLane

CheckImpossible ==
  /\ step = "impossible" /\ Answered
  /\ Got(IF ImpossibleMissed THEN "throughput" ELSE "failed")

(* Until the seconds are over; the last answer ends it.                    *)
CheckThroughput ==
  /\ step = "throughput" /\ Answered
  /\ \E next \in {"throughput", "ok"} :
       Got(IF reply.kind = "result" THEN next ELSE "failed")

MinerAddress == CHOOSE a \in Addresses : TRUE
AnyWord == CHOOSE w \in Words : TRUE

AgentAsks ==
  /\ step = "agent" /\ left > 0
  /\ left' = left - 1
  /\ \/ \E target \in Targets, idx \in Workers, salt \in Salts, seq \in 0 .. MaxSeq,
          count \in 1 .. HalfLane :
          Ask(JobLine(MinerAddress, AnyWord, AnyWord, target,
                      NonceStart(idx, salt, seq), count))
     \/ \E l \in OtherLines : Ask(l)

AgentReads == step = "agent" /\ Answered /\ Got("agent")

Close ==
  /\ step \in {"ok", "failed", "agent"}
  /\ Ask(Quit)
  /\ UNCHANGED left

Client ==
  \/ AskDigest \/ CheckDigest \/ AskEasy \/ CheckEasy
  \/ AskAgain \/ CheckImpossible \/ CheckThroughput
  \/ AgentAsks \/ AgentReads \/ Close

Worker == Next /\ UNCHANGED clientVars

ClientNext == Client \/ Worker

ClientSpec == ClientInit /\ [][ClientNext]_allVars

-----------------------------------------------------------------------------
JobAnswered == line.kind = "job" /\ batch = NoBatch /\ reply.kind = "result"

(* The worker hashes the message pow.py hashes, although it splices the    *)
(* offset into two swapped half lanes (keccak.h): a hit verifies, with its *)
(* digest, and lies in its batch; after a miss no nonce of the batch       *)
(* verifies; and a digest line is answered by the digest of its nonce.     *)
AnswerVerifies ==
  /\ JobAnswered /\ reply.found => Verifies /\ Within(line, BeWord(reply.nonce))
  /\ JobAnswered /\ ~reply.found =>
       \A n \in 0 .. line.count - 1 : ~Meets(line, BeWord(line.start) + n)
  /\ line.kind = "digest" /\ reply.kind = "digest" => DigestRight

(* A worker that is right passes the self-test (gpu_selftest.py), unless   *)
(* the numbers drawn make the easy search miss or the impossible one hit.  *)
PassesSelfTest ==
  step = "failed" /\ inbox = NoLine /\ ~over =>
    JobAnswered /\ (reply.found <=> BeWord(line.target) = 1)

(* "Unique nonce space per worker, per process start, per batch"           *)
(* (remote_agent.py): a nonce that was found is in the space of no two     *)
(* workers, salts or sequence numbers.                                     *)
NonceNamesBatch ==
  step = "agent" /\ JobAnswered /\ reply.found =>
    Cardinality({b \in Workers \X (0 .. Power[Lane] - 1) \X (0 .. MaxSeq) :
                   BeWord(reply.nonce) - NonceStart(b[1], b[2], b[3])
                     \in 0 .. HalfLane - 1}) <= 1
=============================================================================
