------------------------------- MODULE Lanes -------------------------------
(***************************************************************************)
(* How a nonce becomes a digest, written twice: as pow.py does it and as   *)
(* the workers do it (keccak.h, worker_common.h), and how the agent packs  *)
(* worker, salt and sequence number into the start of a batch.             *)
(*                                                                         *)
(* Bytes are digits below Base, and half a lane is Half of them: 256 and 4 *)
(* in the code.  Every length of the code is a multiple of half a lane.    *)
(* The permutation is not modelled: Hash takes the 17 lanes of a block to  *)
(* the 4 lanes of its digest, for the workers and for pow.py alike.        *)
(***************************************************************************)
EXTENDS Integers, SequencesExt

CONSTANTS
  Base,    \* values of a byte
  Half,    \* bytes of half a lane
  Hash(_)  \* the lanes of a block -> the lanes of its digest

ASSUME LanesAssumption ==
  /\ Base \in Nat \ {0} /\ Base % 2 = 0
  /\ Half \in Nat \ {0}

Lane == 2 * Half
AddressLen == 5 * Half
WordLen == 8 * Half   \* nonce, prevWork, anchor, target, digest
RateLen == 34 * Half

Byte == 0 .. Base - 1

(* Base to the power n: a shift by n bytes.                                *)
Power[n \in Nat] == IF n = 0 THEN 1 ELSE Base * Power[n - 1]

HalfLane == Power[Half]

-----------------------------------------------------------------------------
(* Bytes and numbers.                                                      *)
Zeros(n) == [i \in 1 .. n |-> 0]

Bytes(value, n) == [i \in 1 .. n |-> (value \div Power[n - i]) % Base]

BeWord(p) ==
  LET w[i \in 0 .. Len(p)] == IF i = 0 THEN 0 ELSE w[i - 1] * Base + p[i]
  IN  w[Len(p)]

LeWord(p) == BeWord(Reverse(p))

Bswap(x) == LeWord(Bytes(x, Lane))

-----------------------------------------------------------------------------
(* The message, its block and the digest.                                  *)
Message(address, nonce, prev, anchor) == address \o nonce \o prev \o anchor

PaddedBlock(msg) ==
  msg \o <<1>> \o Zeros(RateLen - Len(msg) - 2) \o <<Base \div 2>>

BuildLanes(address, nonce, prev, anchor) ==
  LET block == PaddedBlock(Message(address, nonce, prev, anchor))
  IN  [i \in 1 .. 17 |-> LeWord(SubSeq(block, Lane * (i - 1) + 1, Lane * i))]

DigestBytes(out) ==
  LET bytes(w) == Reverse(Bytes(w, Lane))
  IN  bytes(out[1]) \o bytes(out[2]) \o bytes(out[3]) \o bytes(out[4])

Splice(base, s5, s6) == SubSeq(base, 1, 5) \o <<s5, s6>> \o SubSeq(base, 8, 17)

HashOffsetUnswapped(base, offset) ==  \* mutation: the bytes are not swapped
  Hash(Splice(base,
              (base[6] % HalfLane) + (offset % HalfLane) * HalfLane,
              (base[7] \div HalfLane) * HalfLane + offset \div HalfLane))

(* The offset goes into the high half of the sixth lane and the low half   *)
(* of the seventh (s[5] and s[6] in the code).                             *)
HashOffset(base, offset) ==
  LET r == Bswap(offset)
  IN  Hash(Splice(base,
                  (base[6] % HalfLane) + (r % HalfLane) * HalfLane,
                  (base[7] \div HalfLane) * HalfLane + r \div HalfLane))

TargetWords(t) ==
  [i \in 1 .. 4 |-> BeWord(SubSeq(t, Lane * (i - 1) + 1, Lane * i))]

(* Word by word, the most significant first.                               *)
BelowTarget(out, target) ==
  \E i \in 1 .. 4 :
    /\ Bswap(out[i]) < target[i]
    /\ \A j \in 1 .. i - 1 : Bswap(out[j]) = target[j]

NonceHexShort(start, offset) ==  \* mutation: the lane cut one byte too high
  SubSeq(start, 1, WordLen - Lane - 1) \o Bytes(offset, Lane + 1)

NonceHex(start, offset) ==
  SubSeq(start, 1, WordLen - Lane) \o Bytes(offset, Lane)

-----------------------------------------------------------------------------
(* pow.py, the reference the coordinator checks candidates with.           *)
PowDigest(address, nonce, prev, anchor) ==
  DigestBytes(Hash(BuildLanes(address, Bytes(nonce, WordLen), prev, anchor)))

-----------------------------------------------------------------------------
(* remote_agent.py: a nonce space per worker, per process start, per batch. *)
NonceStartTight(idx, salt, seq) ==  \* mutation: the counter overlaps the salt
  (idx + 1) * Power[6 * Half + 1] + salt * Power[4 * Half]
    + seq * Power[4 * Half]

NonceStart(idx, salt, seq) ==
  (idx + 1) * Power[6 * Half + 1] + salt * Power[4 * Half]
    + seq * Power[Lane]
=============================================================================
