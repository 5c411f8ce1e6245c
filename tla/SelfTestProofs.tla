--------------------------- MODULE SelfTestProofs ---------------------------
(***************************************************************************)
(* Proofs about the CPU worker and its two clients, for every base, lane   *)
(* and permutation: what a worker answers is true of the message pow.py    *)
(* hashes, its search refines Search and stops at the first hit, and a     *)
(* worker passes the self-test unless the numbers drawn are unlucky.       *)
(***************************************************************************)
EXTENDS SelfTest, LanesProofs

(* The permutation takes the lanes of a block to four lanes.               *)
HashFits == \A s \in LaneSet : Hash(s) \in [1 .. 4 -> 0 .. Power[Lane] - 1]

-----------------------------------------------------------------------------
(* The fields of a line.                                                   *)
LEMMA Filled ==
  ASSUME NEW n \in Nat, NEW f \in Seq(Byte), Len(f) <= n
  PROVE  HexBytes(f, n) \in Str(n) /\ BeWord(HexBytes(f, n)) = BeWord(f)
<1>1. PICK k \in Nat : k = n - Len(f) /\ n = k + Len(f)
  <2>1. Len(f) \in Nat
    BY Strings
  <2>2. n - Len(f) \in Nat /\ n = (n - Len(f)) + Len(f)
    BY <2>1
  <2> QED BY <2>2
<1>2. f \in Str(Len(f)) /\ Len(f) \in Nat /\ Zeros(k) \in Str(k) /\ BeWord(Zeros(k)) = 0
  BY Strings, ZeroWord
<1>3. HexBytes(f, n) = Zeros(k) \o f
  BY <1>1 DEF HexBytes
<1> DEFINE z == Zeros(k)
           l == Len(f)
<1> HIDE DEF z, l
<1>4. z \o f \in Str(n)
  BY <1>1, <1>2, Joined DEF z, l
<1>5. BeWord(z \o f) = BeWord(z) * Power[l] + BeWord(f)
  BY <1>2, WordJoined DEF z, l
<1>6. BeWord(z) = 0 /\ Power[l] \in Nat /\ BeWord(f) \in Nat
  BY <1>2, PowerType, WordBound DEF z, l
<1>7. BeWord(z \o f) = BeWord(f)
  BY <1>5, <1>6
<1> QED BY <1>3, <1>4, <1>7 DEF z

LEMMA FullField ==
  ASSUME NEW n \in Nat, NEW f \in Str(n)
  PROVE  f \in Seq(Byte) /\ Len(f) <= n /\ HexBytes(f, n) = f
<1>1. f \in Seq(Byte) /\ Len(f) = n
  BY StrFacts
<1>2. HexBytes(f, n) = Zeros(0) \o f
  <2>1. n - n = 0
    OBVIOUS
  <2> QED BY <1>1, <2>1 DEF HexBytes
<1>3. Zeros(0) = << >>
  BY DEF Zeros
<1>4. << >> \o f = f
  BY <1>1
<1> QED BY <1>1, <1>2, <1>3, <1>4

LEMMA Alphabet ==
  /\ WordLen \in Nat /\ AddressLen \in Nat /\ Lane \in Nat
  /\ Power[Lane] \in Nat \ {0} /\ HalfLane \in Nat \ {0} /\ HalfLane <= Power[Lane] - 1
<1>1. WordLen \in Nat /\ AddressLen \in Nat /\ Lane \in Nat
  BY Lengths
<1>2. Power[Lane] \in Nat \ {0} /\ HalfLane \in Nat \ {0}
  BY <1>1, BaseFacts, PowerType DEF HalfLane
<1>3. HalfLane <= Power[Lane] - 1
  <2>1. PICK h \in Nat : Half = h + 1
    <3>1. Half - 1 \in Nat /\ Half = (Half - 1) + 1
      BY BaseFacts
    <3> QED BY <3>1
  <2>2. HalfLane = Base * Power[h] /\ Power[h] \in Nat \ {0}
    BY <2>1, PowerFacts, PowerType DEF HalfLane
  <2>3. Power[Lane] = HalfLane * HalfLane
    <3>1. Lane = Half + Half
      BY BaseFacts
    <3> QED BY <3>1, BaseFacts, PowerSum DEF HalfLane
  <2>4. Base >= 2
    BY LanesAssumption
  <2> DEFINE x == HalfLane
             p == Power[h]
  <2> HIDE DEF x, p
  <2>5. x >= 2
    <3>1. PICK e \in Nat : Base = 2 + e
      <4>1. Base - 2 \in Nat /\ Base = 2 + (Base - 2)
        BY <2>4, BaseFacts
      <4> QED BY <4>1
    <3>2. x = 2 * p + e * p /\ e * p \in Nat /\ p \in Nat \ {0}
      <4>1. p \in Nat \ {0} /\ x = (2 + e) * p
        BY <2>2, <3>1 DEF x, p
      <4>2. (2 + e) * p = 2 * p + e * p /\ e * p \in Nat
        BY <4>1
      <4> QED BY <4>1, <4>2
    <3> QED BY <3>2
  <2>6. x * x >= x + 1
    <3>1. PICK e \in Nat : x = 2 + e
      <4>1. x - 2 \in Nat /\ x = 2 + (x - 2)
        BY <1>2, <2>5 DEF x
      <4> QED BY <4>1
    <3>2. (2 + e) * (2 + e) = 2 * (2 + e) + e * (2 + e) /\ e * (2 + e) \in Nat
      OBVIOUS
    <3> QED BY <3>1, <3>2
  <2>7. x * x \in Nat /\ x \in Nat
    BY <1>2 DEF x
  <2> QED BY <2>3, <2>6, <2>7 DEF x
<1> QED BY <1>1, <1>2, <1>3

-----------------------------------------------------------------------------
(* What the worker computes from a line is what pow.py computes.           *)
LEMMA SplicedDigest ==
  ASSUME NEW a \in Str(AddressLen), NEW s \in Str(WordLen),
         NEW p \in Str(WordLen), NEW q \in Str(WordLen), NEW n \in Nat
  PROVE  DigestBytes(HashOffset(BuildLanes(a, s, p, q), n))
           = PowDigest(a, BeWord(NonceHex(s, n)), p, q)
<1> DEFINE x == NonceHex(s, n)
<1>1. x \in Str(WordLen)
  BY NonceHexBytes
<1>2. HashOffset(BuildLanes(a, s, p, q), n) = Hash(BuildLanes(a, x, p, q))
  BY SpliceHashesTheNonce
<1> HIDE DEF x
<1>3. Bytes(BeWord(x), WordLen) = x
  BY <1>1, Lengths, BytesInverse
<1>4. PowDigest(a, BeWord(x), p, q) = DigestBytes(Hash(BuildLanes(a, x, p, q)))
  BY Zenon, <1>3 DEF PowDigest
<1>5. DigestBytes(HashOffset(BuildLanes(a, s, p, q), n)) = PowDigest(a, BeWord(x), p, q)
  BY Zenon, <1>2, <1>4
<1> QED BY <1>5 DEF x

LEMMA SplicedBelow ==
  ASSUME HashFits,
         NEW a \in Str(AddressLen), NEW s \in Str(WordLen),
         NEW p \in Str(WordLen), NEW q \in Str(WordLen), NEW n \in Nat,
         NEW t \in Str(WordLen)
  PROVE  BelowTarget(HashOffset(BuildLanes(a, s, p, q), n), TargetWords(t))
           <=> BeWord(PowDigest(a, BeWord(NonceHex(s, n)), p, q)) < BeWord(t)
<1> DEFINE x == NonceHex(s, n)
           out == HashOffset(BuildLanes(a, s, p, q), n)
<1>1. x \in Str(WordLen)
  BY NonceHexBytes
<1>2. out = Hash(BuildLanes(a, x, p, q))
  BY SpliceHashesTheNonce
<1> HIDE DEF x
<1>3. BuildLanes(a, x, p, q) \in LaneSet
  BY <1>1, LanesType
<1> DEFINE b == BuildLanes(a, x, p, q)
<1> HIDE DEF b
<1>4. Hash(b) \in [1 .. 4 -> 0 .. Power[Lane] - 1]
  BY <1>3 DEF HashFits, b
<1>5. out \in [1 .. 4 -> 0 .. Power[Lane] - 1]
  BY Zenon, <1>2, <1>4 DEF b
<1>6. DigestBytes(out) = PowDigest(a, BeWord(x), p, q)
  BY SplicedDigest DEF x
<1> HIDE DEF out
<1>7. BelowTarget(out, TargetWords(t)) <=> BeWord(DigestBytes(out)) < BeWord(t)
  BY <1>5, BelowTargetCompares
<1> QED BY <1>6, <1>7 DEF out, x

LEMMA LineFields ==
  ASSUME NEW l \in JobLines \union DigestLines, Fit(l)
  PROVE  /\ HexBytes(l.address, AddressLen) \in Str(AddressLen)
         /\ HexBytes(l.prev, WordLen) \in Str(WordLen)
         /\ HexBytes(l.anchor, WordLen) \in Str(WordLen)
<1>1. l.address \in Seq(Byte) /\ l.prev \in Seq(Byte) /\ l.anchor \in Seq(Byte)
  BY DEF JobLines, DigestLines
<1>2. Len(l.address) <= AddressLen /\ Len(l.prev) <= WordLen /\ Len(l.anchor) <= WordLen
  <2>1. Len(l["prev"]) <= WordLen /\ Len(l["anchor"]) <= WordLen
    BY DEF Fit
  <2> QED BY <2>1 DEF Fit
<1> DEFINE a == l.address
           p == l.prev
           q == l.anchor
<1> HIDE DEF a, p, q
<1>3. HexBytes(a, AddressLen) \in Str(AddressLen)
  BY <1>1, <1>2, Filled, Alphabet DEF a
<1>4. HexBytes(p, WordLen) \in Str(WordLen)
  BY <1>1, <1>2, Filled, Alphabet DEF p
<1>5. HexBytes(q, WordLen) \in Str(WordLen)
  BY <1>1, <1>2, Filled, Alphabet DEF q
<1> QED BY <1>3, <1>4, <1>5 DEF a, p, q

(* A batch, by the numbers on its line.                                    *)
LEMMA BatchFacts ==
  ASSUME NEW l \in JobLines, JobFits(l)
  PROVE  LET b == BatchOf(l)
             first == BeWord(l.start)
         IN  /\ b.start \in Str(WordLen)
             /\ High(b.start) = High(HexBytes(l.start, WordLen))
             /\ first \in Nat
             /\ b.count = l.count /\ l.count \in 1 .. HalfLane
             /\ b.below \subseteq Offsets
             /\ \A n \in Offsets :
                  /\ n \in Nat /\ NonceHex(b.start, n) \in Str(WordLen)
                  /\ High(NonceHex(b.start, n)) = High(b.start)
                  /\ BeWord(Low(NonceHex(b.start, n))) = n
                  /\ BeWord(NonceHex(b.start, n)) = first + n
                  /\ DigestBytes(HashOffset(b.lanes, n)) = Reference(l, first + n)
<1> DEFINE s == HexBytes(l.start, WordLen)
           first == BeWord(l.start)
           a == HexBytes(l.address, AddressLen)
           p == HexBytes(l.prev, WordLen)
           q == HexBytes(l.anchor, WordLen)
           b == BatchOf(l)
<1>1. a \in Str(AddressLen) /\ p \in Str(WordLen) /\ q \in Str(WordLen)
  BY LineFields DEF JobFits
<1>2. s \in Str(WordLen) /\ BeWord(s) = first /\ Low(s) = Zeros(Lane)
  <2>1. l.start \in Seq(Byte) /\ Len(l.start) <= WordLen
    BY DEF JobLines, JobFits
  <2>2. Low(s) = Zeros(Lane)
    BY DEF JobFits, Low
  <2> QED BY <2>1, <2>2, Filled, Alphabet
<1>3. b.start = s /\ b.lanes = BuildLanes(a, s, p, q) /\ b.count = l.count
      /\ b.below \subseteq Offsets
  BY DEF BatchOf, LanesOf
<1>4. l.count \in 1 .. HalfLane
  BY DEF JobFits
<1>5. \A n : Reference(l, n) = PowDigest(a, n, p, q)
  BY DEF Reference
<1> HIDE DEF a, p, q, s, first, b
<1>6. first \in Nat
  BY <1>2, WordBound, Alphabet, PowerType
<1>7. ASSUME NEW n \in Offsets
      PROVE  /\ n \in Nat /\ NonceHex(s, n) \in Str(WordLen)
             /\ High(NonceHex(s, n)) = High(s)
             /\ BeWord(Low(NonceHex(s, n))) = n
             /\ BeWord(NonceHex(s, n)) = first + n
             /\ DigestBytes(HashOffset(b.lanes, n)) = Reference(l, first + n)
  <2>1. n \in 0 .. Power[Lane] - 1 /\ n \in Nat
    BY Alphabet DEF Offsets
  <2>2. /\ NonceHex(s, n) \in Str(WordLen)
        /\ High(NonceHex(s, n)) = High(s)
        /\ BeWord(Low(NonceHex(s, n))) = n
        /\ BeWord(NonceHex(s, n)) = first + n
    BY <1>2, <2>1, NonceHexNumber
  <2>3. DigestBytes(HashOffset(BuildLanes(a, s, p, q), n))
          = PowDigest(a, BeWord(NonceHex(s, n)), p, q)
    BY <1>1, <1>2, <2>1, SplicedDigest
  <2>4. PowDigest(a, BeWord(NonceHex(s, n)), p, q) = Reference(l, first + n)
    BY <1>5, <2>2
  <2>5. DigestBytes(HashOffset(b.lanes, n)) = Reference(l, first + n)
    BY Zenon, <1>3, <2>3, <2>4
  <2> QED BY <2>1, <2>2, <2>5
<1> QED BY <1>2, <1>3, <1>4, <1>6, <1>7 DEF b, s, first

LEMMA BatchMeets ==
  ASSUME HashFits, NEW l \in JobLines, JobFits(l), NEW n \in Offsets
  PROVE  n \in BatchOf(l).below <=> Meets(l, BeWord(l.start) + n)
<1> DEFINE s == HexBytes(l.start, WordLen)
           t == HexBytes(l.target, WordLen)
           a == HexBytes(l.address, AddressLen)
           p == HexBytes(l.prev, WordLen)
           q == HexBytes(l.anchor, WordLen)
<1>1. a \in Str(AddressLen) /\ p \in Str(WordLen) /\ q \in Str(WordLen)
  BY LineFields DEF JobFits
<1>2. BatchOf(l).start = s
  BY DEF BatchOf
<1>3. s \in Str(WordLen) /\ n \in Nat /\ BeWord(NonceHex(s, n)) = BeWord(l.start) + n
  BY <1>2, BatchFacts
<1>4. t \in Str(WordLen) /\ BeWord(t) = BeWord(l.target)
  <2>1. l.target \in Seq(Byte) /\ Len(l.target) <= WordLen
    BY DEF JobLines, JobFits
  <2> QED BY <2>1, Filled, Alphabet
<1>5. n \in BatchOf(l).below
        <=> BelowTarget(HashOffset(BuildLanes(a, s, p, q), n), TargetWords(t))
  BY DEF BatchOf, LanesOf
<1>6. Meets(l, BeWord(l.start) + n)
        <=> BeWord(PowDigest(a, BeWord(l.start) + n, p, q)) < BeWord(l.target)
  BY DEF Meets, Reference
<1> HIDE DEF s, t, a, p, q
<1>7. BelowTarget(HashOffset(BuildLanes(a, s, p, q), n), TargetWords(t))
        <=> BeWord(PowDigest(a, BeWord(NonceHex(s, n)), p, q)) < BeWord(t)
  BY <1>1, <1>3, <1>4, SplicedBelow
<1> QED BY <1>3, <1>4, <1>5, <1>6, <1>7

LEMMA DigestFacts ==
  ASSUME NEW l \in DigestLines, DigestFits(l)
  PROVE  LET n == HexBytes(l.nonce, WordLen)
             high == SubSeq(n, 1, WordLen - Lane)
             low == BeWord(SubSeq(n, WordLen - Lane + 1, WordLen))
         IN  DigestBytes(HashOffset(LanesOf(l, high \o Zeros(Lane)), low))
               = Reference(l, BeWord(l.nonce))
<1> DEFINE n == HexBytes(l.nonce, WordLen)
           a == HexBytes(l.address, AddressLen)
           p == HexBytes(l.prev, WordLen)
           q == HexBytes(l.anchor, WordLen)
           h == High(n)
           low == BeWord(Low(n))
           s == h \o Zeros(Lane)
<1>1. a \in Str(AddressLen) /\ p \in Str(WordLen) /\ q \in Str(WordLen)
  BY LineFields DEF DigestFits
<1>2. n \in Str(WordLen) /\ BeWord(n) = BeWord(l.nonce)
  <2>1. l.nonce \in Seq(Byte) /\ Len(l.nonce) <= WordLen
    BY DEF DigestLines, DigestFits
  <2> QED BY <2>1, Filled, Alphabet
<1>3. \A x : LanesOf(l, x) = BuildLanes(a, x, p, q)
  BY DEF LanesOf
<1>4. Reference(l, BeWord(l.nonce)) = PowDigest(a, BeWord(l.nonce), p, q)
  BY DEF Reference
<1> HIDE DEF n, a, p, q
<1>5. h \in Str(HighLen) /\ Low(n) \in Str(Lane) /\ n = h \o Low(n)
  BY <1>2, HighLow
<1> HIDE DEF h
<1>6. s \in Str(WordLen) /\ High(s) = h
  <2>1. Zeros(Lane) \in Str(Lane)
    BY Alphabet, ZeroWord
  <2> QED BY <1>5, <2>1, SplitWord
<1> HIDE DEF s
<1>7. low \in Nat /\ Bytes(low, Lane) = Low(n)
  BY <1>5, Alphabet, WordBound, BytesInverse
<1> HIDE DEF low
<1>8. NonceHex(s, low) = n
  <2>1. NonceHex(s, low) = High(s) \o Bytes(low, Lane)
    BY DEF NonceHex, High
  <2> QED BY Zenon, <1>5, <1>6, <1>7, <2>1
<1>9. DigestBytes(HashOffset(BuildLanes(a, s, p, q), low)) = PowDigest(a, BeWord(n), p, q)
  <2>1. DigestBytes(HashOffset(BuildLanes(a, s, p, q), low))
          = PowDigest(a, BeWord(NonceHex(s, low)), p, q)
    BY <1>1, <1>6, <1>7, SplicedDigest
  <2> QED BY Zenon, <1>8, <2>1
<1>10. DigestBytes(HashOffset(LanesOf(l, s), low)) = Reference(l, BeWord(l.nonce))
  BY Zenon, <1>2, <1>3, <1>4, <1>9
<1> QED BY Zenon, <1>10 DEF s, low, h, n, High, Low

(* The lines the two clients write.                                        *)
LEMMA JobLineFacts ==
  ASSUME NEW a \in Seq(Byte), NEW p \in Str(WordLen), NEW q \in Str(WordLen),
         NEW t \in Nat, NEW s \in Nat, NEW c \in Nat
  PROVE  LET l == JobLine(a, p, q, t, s, c)
         IN  /\ l \in JobLines
             /\ l.target = Bytes(t, WordLen) /\ l.count = c
             /\ l.start \in Str(WordLen)
             /\ Len(a) <= AddressLen /\ c \in 1 .. HalfLane
                /\ Low(Bytes(s, WordLen)) = Zeros(Lane) => JobFits(l)
<1> DEFINE l == JobLine(a, p, q, t, s, c)
           bt == Bytes(t, WordLen)
           bs == Bytes(s, WordLen)
<1>1. /\ bt \in Str(WordLen) /\ bs \in Str(WordLen)
      /\ bt \in Seq(Byte) /\ bs \in Seq(Byte) /\ p \in Seq(Byte) /\ q \in Seq(Byte)
      /\ Len(bt) <= WordLen /\ Len(bs) <= WordLen /\ Len(p) <= WordLen /\ Len(q) <= WordLen
      /\ HexBytes(bs, WordLen) = bs
  <2>1. bt \in Str(WordLen) /\ bs \in Str(WordLen)
    BY Alphabet, BytesType
  <2> HIDE DEF bt, bs
  <2> QED BY <2>1, Alphabet, FullField
<1>2. l = [kind |-> "job", address |-> a, prev |-> p, anchor |-> q,
           target |-> bt, start |-> bs, count |-> c]
  BY DEF JobLine
<1> HIDE DEF l, bt, bs
<1>3. l \in JobLines /\ l.target = bt /\ l.count = c /\ l.start \in Str(WordLen)
  BY <1>1, <1>2 DEF JobLines
<1>4. ASSUME Len(a) <= AddressLen, c \in 1 .. HalfLane, Low(bs) = Zeros(Lane)
      PROVE  JobFits(l)
  <2>1. /\ l.address = a /\ l["prev"] = p /\ l["anchor"] = q /\ l.target = bt
        /\ l.start = bs /\ l.count = c
    BY <1>2
  <2>2. Fit(l)
    BY <1>1, <1>4, <2>1 DEF Fit
  <2> QED BY <1>1, <1>4, <2>1, <2>2 DEF JobFits, Low
<1> QED BY <1>3, <1>4 DEF l, bt, bs

-----------------------------------------------------------------------------
(* The inductive invariant: what a line, a batch in search and an answer   *)
(* are, and which line the self-test waits for at each of its steps.       *)
LineInv ==
  /\ inbox \in Lines \union {NoLine, Quit}
  /\ line \in Lines \union {NoLine, Quit}
  /\ inbox # NoLine => asking /\ batch = NoBatch
  /\ batch # NoBatch => asking

SearchInv ==
  batch # NoBatch =>
    /\ line \in JobLines /\ JobFits(line) /\ batch = BatchOf(line)
    /\ o \in 0 .. line.count
    /\ \A n \in 0 .. o - 1 : n \notin batch.below
    /\ reply = NoLine

HitReply(l, n) ==
  Result(TRUE, NonceHex(BatchOf(l).start, n),
         DigestBytes(HashOffset(BatchOf(l).lanes, n)), n + 1)

MissReply(l) == Result(FALSE, Zeros(WordLen), Zeros(WordLen), l.count)

JobReply(l, r) ==
  \/ \E n \in 0 .. l.count - 1 : n \in BatchOf(l).below /\ r = HitReply(l, n)
  \/ r = MissReply(l) /\ \A n \in 0 .. l.count - 1 : n \notin BatchOf(l).below

DigestReply(l) == [kind |-> "digest", digest |-> Reference(l, BeWord(l.nonce))]

RightReply(l, r) ==
  /\ l \in JobLines => IF JobFits(l) THEN JobReply(l, r) ELSE r = Error
  /\ l \in DigestLines => IF DigestFits(l) THEN r = DigestReply(l) ELSE r = Error
  /\ l.kind = "unknown" => r = Error

ReplyInv == batch = NoBatch => RightReply(line, reply)

(* The line asked last: the worker may not have read it yet.               *)
Question == IF inbox # NoLine THEN inbox ELSE line

DigestLine(l) == l \in DigestLines /\ DigestFits(l)

FullJob(l) ==
  l \in JobLines /\ JobFits(l) /\ l.count = HalfLane /\ l.start \in Str(WordLen)

StepInv ==
  /\ step = "digest" /\ asking => DigestLine(Question)
  /\ step = "easy" =>
       IF asking THEN FullJob(Question) /\ BeWord(Question.target) # 1
       ELSE DigestLine(line)
  /\ step \in {"impossible", "throughput"} =>
       IF asking THEN FullJob(Question) /\ BeWord(Question.target) = 1
       ELSE FullJob(line)

Inv == LineInv /\ SearchInv /\ ReplyInv /\ StepInv

(* Why the self-test fails, if it does.                                    *)
FailInv ==
  HashFits /\ step = "failed" =>
    IF asking THEN Question = Quit
    ELSE /\ FullJob(line) /\ batch = NoBatch /\ reply.kind = "result"
         /\ IF BeWord(line.target) = 1 THEN reply.found ELSE ~reply.found

-----------------------------------------------------------------------------
LEMMA KindsDiffer ==
  /\ \A l \in JobLines : l.kind = "job"
  /\ \A l \in DigestLines : l.kind = "digest"
  /\ NoLine.kind = "none" /\ Quit.kind = "quit" /\ Error.kind = "error"
  /\ \A l \in Lines : l.kind \in {"job", "digest", "unknown"}
  BY DEF JobLines, DigestLines, Lines, NoLine, Quit, Error

LEMMA StartsRight == ClientInit => Inv /\ FailInv
<1> SUFFICES ASSUME ClientInit PROVE Inv /\ FailInv
  OBVIOUS
<1>1. /\ inbox = NoLine /\ line = NoLine /\ batch = NoBatch /\ reply = NoLine
      /\ step \in {"digest", "agent"} /\ asking = FALSE
  BY DEF ClientInit, Init
<1>2. LineInv /\ SearchInv
  BY <1>1 DEF LineInv, SearchInv
<1>3. ReplyInv
  BY <1>1, KindsDiffer DEF ReplyInv, RightReply
<1>4. StepInv /\ FailInv
  BY <1>1 DEF StepInv, FailInv
<1> QED BY <1>2, <1>3, <1>4 DEF Inv

(* What a step of the worker leaves alone, and a line that is read.        *)
LEMMA KeepsQuestion ==
  ASSUME LineInv, StepInv, FailInv, UNCHANGED clientVars, asking,
         Question' = Question
  PROVE  StepInv' /\ FailInv'
<1>1. step' = step /\ asking' = asking
  BY DEF clientVars
<1>2. StepInv'
  BY <1>1 DEF StepInv
<1>3. FailInv'
  BY <1>1 DEF FailInv
<1> QED BY <1>2, <1>3

LEMMA Reading ==
  ASSUME Inv, NEW kind \in {"job", "digest", "unknown", "quit"}, Reads(kind),
         UNCHANGED clientVars
  PROVE  /\ asking /\ batch = NoBatch /\ inbox.kind = kind
         /\ inbox' = NoLine /\ line' = inbox
         /\ inbox \in Lines \union {Quit}
         /\ kind = "job" => inbox \in JobLines
         /\ kind = "digest" => inbox \in DigestLines
         /\ kind = "quit" => inbox = Quit
         /\ Question' = Question
         /\ asking' = asking
<1>1. inbox.kind = kind /\ inbox' = NoLine /\ line' = inbox
  BY DEF Reads
<1>2. inbox # NoLine /\ inbox \in Lines \union {Quit}
  BY <1>1, KindsDiffer DEF Inv, LineInv
<1>3. asking /\ batch = NoBatch
  BY <1>2 DEF Inv, LineInv
<1>4. /\ kind = "job" => inbox \in JobLines
      /\ kind = "digest" => inbox \in DigestLines
      /\ kind = "quit" => inbox = Quit
  BY <1>1, <1>2, KindsDiffer DEF Lines
<1>5. Question' = Question
  BY <1>1, <1>2 DEF Question
<1> QED BY <1>1, <1>2, <1>3, <1>4, <1>5 DEF clientVars

LEMMA ParseJobStep ==
  ASSUME Inv, FailInv, ParseJob, UNCHANGED clientVars
  PROVE  Inv' /\ FailInv'
<1>1. /\ Reads("job") /\ JobFits(inbox) /\ batch' = BatchOf(inbox)
      /\ reply' = NoLine /\ o' = 0
  BY DEF ParseJob
<1>2. /\ asking /\ inbox' = NoLine /\ line' = inbox /\ inbox \in JobLines
      /\ Question' = Question /\ asking' = asking
  BY <1>1, Reading
<1>3. /\ batch'.count = line'.count /\ line'.count \in 1 .. HalfLane
      /\ batch'.count # 0
  BY <1>1, <1>2, BatchFacts
<1>4. batch' # NoBatch
  BY <1>3 DEF NoBatch
<1>5. LineInv'
  BY <1>2, <1>4 DEF LineInv, Lines
<1>6. SearchInv'
  <2>1. 0 \in 0 .. line'.count
    BY <1>3
  <2>2. \A n \in 0 .. 0 - 1 : n \notin batch'.below
    OBVIOUS
  <2> QED BY <1>1, <1>2, <2>1, <2>2 DEF SearchInv
<1>7. ReplyInv'
  BY <1>4 DEF ReplyInv
<1>8. StepInv' /\ FailInv'
  BY <1>2, KeepsQuestion DEF Inv
<1> QED BY <1>5, <1>6, <1>7, <1>8 DEF Inv

LEMMA DigestStep ==
  ASSUME Inv, FailInv, DigestCommand, UNCHANGED clientVars
  PROVE  Inv' /\ FailInv'
<1>1. /\ Reads("digest") /\ DigestFits(inbox) /\ batch' = batch
  BY DEF DigestCommand
<1>2. /\ asking /\ inbox' = NoLine /\ line' = inbox /\ inbox \in DigestLines
      /\ Question' = Question /\ asking' = asking /\ batch = NoBatch
  BY <1>1, Reading
<1>3. reply' = DigestReply(line')
  BY <1>1, <1>2, DigestFacts DEF DigestCommand, DigestReply
<1>4. LineInv' /\ SearchInv'
  BY <1>1, <1>2 DEF LineInv, SearchInv, Lines
<1>5. ReplyInv'
  <2>1. RightReply(line', reply')
    BY <1>1, <1>2, <1>3, KindsDiffer DEF RightReply
  <2> QED BY <2>1 DEF ReplyInv
<1>6. StepInv' /\ FailInv'
  BY <1>2, KeepsQuestion DEF Inv
<1> QED BY <1>4, <1>5, <1>6 DEF Inv

LEMMA RefuseStep ==
  ASSUME Inv, FailInv, Refuse, UNCHANGED clientVars
  PROVE  Inv' /\ FailInv'
<1>1. PICK kind \in {"job", "digest", "unknown"} :
        /\ Reads(kind)
        /\ kind = "job" => ~JobFits(inbox)
        /\ kind = "digest" => ~DigestFits(inbox)
  BY DEF Refuse
<1>2. reply' = Error /\ batch' = batch
  BY DEF Refuse
<1>3. /\ asking /\ inbox' = NoLine /\ line' = inbox /\ inbox.kind = kind
      /\ inbox \in Lines \union {Quit}
      /\ Question' = Question /\ asking' = asking /\ batch = NoBatch
  BY <1>1, Reading
<1>4. LineInv' /\ SearchInv'
  BY <1>2, <1>3 DEF LineInv, SearchInv
<1>5. ReplyInv'
  <2>1. RightReply(line', reply')
    BY <1>1, <1>2, <1>3, KindsDiffer DEF RightReply
  <2> QED BY <2>1 DEF ReplyInv
<1>6. StepInv' /\ FailInv'
  BY <1>3, KeepsQuestion DEF Inv
<1> QED BY <1>4, <1>5, <1>6 DEF Inv

LEMMA QuitStep ==
  ASSUME Inv, FailInv, QuitLine, UNCHANGED clientVars
  PROVE  Inv' /\ FailInv'
<1>1. Reads("quit") /\ batch' = batch
  BY DEF QuitLine
<1>2. /\ asking /\ inbox' = NoLine /\ line' = Quit /\ inbox = Quit
      /\ Question' = Question /\ asking' = asking /\ batch = NoBatch
  BY <1>1, Reading
<1>3. LineInv' /\ SearchInv'
  BY <1>1, <1>2 DEF LineInv, SearchInv
<1>4. ReplyInv'
  <2>1. RightReply(line', reply')
    BY <1>2, KindsDiffer DEF RightReply
  <2> QED BY <2>1 DEF ReplyInv
<1>5. StepInv' /\ FailInv'
  BY <1>2, KeepsQuestion DEF Inv
<1> QED BY <1>3, <1>4, <1>5 DEF Inv

(* A batch in search: its line, and the loop variable.                     *)
LEMMA InSearch ==
  ASSUME Inv, Searching
  PROVE  /\ asking /\ inbox = NoLine
         /\ line \in JobLines /\ JobFits(line) /\ batch = BatchOf(line)
         /\ batch.count = line.count /\ line.count \in 1 .. HalfLane
         /\ o \in 0 .. line.count /\ reply = NoLine
         /\ \A n \in 0 .. o - 1 : n \notin batch.below
<1>1. batch # NoBatch
  BY DEF Searching
<1>2. /\ asking /\ inbox = NoLine
  BY <1>1 DEF Inv, LineInv
<1>3. /\ line \in JobLines /\ JobFits(line) /\ batch = BatchOf(line)
      /\ o \in 0 .. line.count /\ reply = NoLine
      /\ \A n \in 0 .. o - 1 : n \notin batch.below
  BY <1>1 DEF Inv, SearchInv
<1> QED BY <1>2, <1>3, BatchFacts

LEMMA NoHitStep ==
  ASSUME Inv, FailInv, NoHit, UNCHANGED clientVars
  PROVE  Inv' /\ FailInv'
<1>1. /\ Searching /\ o < batch.count /\ o \notin batch.below /\ o' = o + 1
      /\ inbox' = inbox /\ line' = line /\ batch' = batch /\ reply' = reply
  BY DEF NoHit, InBatch, Below
<1>2. /\ asking /\ inbox = NoLine
      /\ line \in JobLines /\ JobFits(line) /\ batch = BatchOf(line)
      /\ batch.count = line.count /\ line.count \in 1 .. HalfLane
      /\ o \in 0 .. line.count /\ reply = NoLine
      /\ \A n \in 0 .. o - 1 : n \notin batch.below
  BY <1>1, InSearch
<1>3. asking' = asking
  BY DEF clientVars
<1>4. LineInv' /\ ReplyInv'
  BY <1>1, <1>3 DEF Inv, LineInv, ReplyInv
<1>5. SearchInv'
  <2>1. line.count \in Nat /\ HalfLane \in Nat
    BY <1>2, Alphabet
  <2>2. o + 1 \in 0 .. line.count
    BY <1>1, <1>2, <2>1
  <2>3. ASSUME NEW n \in 0 .. (o + 1) - 1 PROVE n \notin batch.below
    <3>1. n = o \/ n \in 0 .. o - 1
      BY <1>2, <2>1
    <3> QED BY <1>1, <1>2, <3>1
  <2> QED BY <1>1, <1>2, <2>2, <2>3 DEF SearchInv
<1>6. Question' = Question
  BY <1>1 DEF Question
<1>7. StepInv' /\ FailInv'
  BY <1>2, <1>6, KeepsQuestion DEF Inv
<1> QED BY <1>4, <1>5, <1>7 DEF Inv

LEMMA AnswerStep ==
  ASSUME Inv, FailInv, FindsHit \/ Exhausted, UNCHANGED clientVars
  PROVE  /\ Inv' /\ FailInv'
         /\ Searching /\ batch' = NoBatch /\ line' = line /\ JobReply(line, reply')
         /\ FindsHit => o \in 0 .. line.count - 1 /\ o \in BatchOf(line).below
                        /\ reply' = HitReply(line, o)
         /\ ~FindsHit => reply' = MissReply(line)
                         /\ \A n \in 0 .. line.count - 1 : n \notin BatchOf(line).below
<1>1. /\ Searching /\ batch' = NoBatch /\ inbox' = inbox /\ line' = line
  BY DEF FindsHit, Exhausted, Hit, Answer
<1>2. /\ asking /\ inbox = NoLine
      /\ line \in JobLines /\ JobFits(line) /\ batch = BatchOf(line)
      /\ batch.count = line.count /\ line.count \in 1 .. HalfLane
      /\ o \in 0 .. line.count /\ reply = NoLine
      /\ \A n \in 0 .. o - 1 : n \notin batch.below
  BY <1>1, InSearch
<1>3. line.count \in Nat /\ asking' = asking
  BY <1>2, Alphabet DEF clientVars
<1>4. FindsHit => o \in 0 .. line.count - 1 /\ o \in BatchOf(line).below
                  /\ reply' = HitReply(line, o)
  BY <1>2, <1>3 DEF FindsHit, InBatch, Below, Hit, Answer, HitReply
<1>5. Exhausted => reply' = MissReply(line)
                   /\ \A n \in 0 .. line.count - 1 : n \notin BatchOf(line).below
  <2> SUFFICES ASSUME Exhausted
               PROVE  reply' = MissReply(line)
                      /\ \A n \in 0 .. line.count - 1 : n \notin BatchOf(line).below
    OBVIOUS
  <2>1. o = line.count
    BY <1>2, <1>3 DEF Exhausted, InBatch
  <2>2. reply' = MissReply(line)
    BY <1>2 DEF Exhausted, Answer, MissReply
  <2> QED BY <1>2, <2>1, <2>2
<1>6. JobReply(line, reply')
  BY <1>4, <1>5 DEF JobReply
<1>7. LineInv' /\ SearchInv'
  BY <1>1, <1>2, <1>3 DEF Inv, LineInv, SearchInv
<1>8. ReplyInv'
  <2>1. RightReply(line', reply')
    BY <1>1, <1>2, <1>6, KindsDiffer DEF RightReply
  <2> QED BY <2>1 DEF ReplyInv
<1>9. Question' = Question
  BY <1>1 DEF Question
<1>10. StepInv' /\ FailInv'
  BY <1>2, <1>9, KeepsQuestion DEF Inv
<1> QED BY <1>1, <1>4, <1>5, <1>6, <1>7, <1>8, <1>10 DEF Inv

-----------------------------------------------------------------------------
(* The steps of the clients.                                               *)
LEMMA Asking ==
  ASSUME Inv, NEW l \in Lines \union {Quit}, Ask(l)
  PROVE  /\ LineInv' /\ SearchInv' /\ ReplyInv'
         /\ Question' = l /\ asking' /\ step' = step /\ ~asking
<1>1. /\ ~asking /\ inbox' = l /\ asking' /\ step' = step
      /\ line' = line /\ batch' = batch /\ reply' = reply /\ o' = o
  BY DEF Ask
<1>2. l # NoLine /\ batch = NoBatch
  BY <1>1, KindsDiffer DEF Inv, LineInv
<1>3. LineInv' /\ SearchInv' /\ ReplyInv'
  BY <1>1, <1>2 DEF Inv, LineInv, SearchInv, ReplyInv
<1>4. Question' = l
  BY <1>1, <1>2 DEF Question
<1> QED BY <1>1, <1>3, <1>4

LEMMA Getting ==
  ASSUME Inv, Answered, NEW next, Got(next)
  PROVE  /\ LineInv' /\ SearchInv' /\ ReplyInv'
         /\ asking /\ Question = line /\ RightReply(line, reply)
         /\ step' = next /\ ~asking' /\ line' = line /\ reply' = reply
<1>1. /\ asking /\ inbox = NoLine /\ batch = NoBatch
  BY DEF Answered
<1>2. /\ step' = next /\ asking' = FALSE /\ inbox' = inbox
      /\ line' = line /\ batch' = batch /\ reply' = reply /\ o' = o
  BY DEF Got, vars
<1>3. LineInv' /\ SearchInv' /\ ReplyInv'
  BY <1>1, <1>2 DEF Inv, LineInv, SearchInv, ReplyInv
<1>4. Question = line /\ RightReply(line, reply)
  BY <1>1 DEF Inv, ReplyInv, Question
<1> QED BY <1>1, <1>2, <1>3, <1>4

LEMMA Drawn ==
  /\ \A a \in Addresses : a \in Seq(Byte) /\ Len(a) <= AddressLen
  /\ \A w \in Words : w \in Str(WordLen) /\ w \in Seq(Byte) /\ Len(w) <= WordLen
  /\ MinerAddress \in Addresses /\ AnyWord \in Words
<1>1. ASSUME NEW a \in Addresses PROVE a \in Seq(Byte) /\ Len(a) <= AddressLen
  <2>1. a \in Str(AddressLen)
    BY SelfTestAssumption DEF Str
  <2> QED BY <2>1, Alphabet, FullField
<1>2. ASSUME NEW w \in Words PROVE w \in Str(WordLen) /\ w \in Seq(Byte) /\ Len(w) <= WordLen
  <2>1. w \in Str(WordLen)
    BY SelfTestAssumption DEF Str
  <2> QED BY <2>1, Alphabet, FullField
<1>3. MinerAddress \in Addresses /\ AnyWord \in Words
  BY SelfTestAssumption DEF MinerAddress, AnyWord
<1> QED BY <1>1, <1>2, <1>3

LEMMA AskDigestStep ==
  ASSUME Inv, FailInv, AskDigest
  PROVE  Inv' /\ FailInv'
<1>1. PICK a \in Addresses, p \in Words, q \in Words, nonce \in Nonces :
        Ask([kind |-> "digest", address |-> a, prev |-> p, anchor |-> q,
             nonce |-> Bytes(nonce, WordLen)])
  BY DEF AskDigest
<1> DEFINE l == [kind |-> "digest", address |-> a, prev |-> p, anchor |-> q,
                 nonce |-> Bytes(nonce, WordLen)]
           b == Bytes(nonce, WordLen)
<1>2. step = "digest"
  BY DEF AskDigest
<1>3. b \in Seq(Byte) /\ Len(b) <= WordLen
  <2>1. nonce \in Nat
    BY SelfTestAssumption
  <2>2. b \in Str(WordLen)
    BY <2>1, Alphabet, BytesType
  <2> HIDE DEF b
  <2> QED BY <2>2, Alphabet, FullField
<1>4. l \in DigestLines /\ DigestFits(l)
  <2>1. l \in DigestLines
    BY <1>3, Drawn DEF DigestLines
  <2>2. /\ Len(a) <= AddressLen /\ Len(p) <= WordLen /\ Len(q) <= WordLen
    BY Drawn
  <2>3. /\ l.address = a /\ l["prev"] = p /\ l["anchor"] = q /\ l.nonce = b
    OBVIOUS
  <2> QED BY <1>3, <2>1, <2>2, <2>3 DEF DigestFits, Fit
<1> HIDE DEF l
<1>5. l \in Lines \union {Quit}
  BY <1>4 DEF Lines
<1>6. /\ LineInv' /\ SearchInv' /\ ReplyInv'
      /\ Question' = l /\ asking' /\ step' = step
  BY <1>1, <1>5, Asking DEF l
<1>7. StepInv' /\ FailInv'
  BY <1>2, <1>4, <1>6 DEF StepInv, FailInv, DigestLine
<1> QED BY <1>6, <1>7 DEF Inv

LEMMA CheckDigestStep ==
  ASSUME Inv, FailInv, CheckDigest
  PROVE  Inv' /\ FailInv'
<1>1. step = "digest" /\ Answered
  BY DEF CheckDigest
<1>2. asking
  BY <1>1 DEF Answered
<1>3. Question = line
  BY <1>1 DEF Answered, Question
<1>4. line \in DigestLines /\ DigestFits(line)
  BY <1>1, <1>2, <1>3 DEF Inv, StepInv, DigestLine
<1>5. RightReply(line, reply)
  BY <1>1 DEF Inv, ReplyInv, Answered
<1>6. DigestRight
  <2>1. reply = DigestReply(line)
    BY <1>4, <1>5 DEF RightReply
  <2> QED BY <2>1 DEF DigestRight, DigestReply
<1>7. PICK next \in {"easy", "digest"} : Got(next)
  <2>1. Got(IF left = 0 THEN "easy" ELSE "digest")
    BY <1>6 DEF CheckDigest
  <2> QED BY <2>1
<1>8. /\ LineInv' /\ SearchInv' /\ ReplyInv'
      /\ step' = next /\ ~asking' /\ line' = line
  BY <1>1, <1>7, Getting
<1>9. StepInv' /\ FailInv'
  BY <1>4, <1>8 DEF StepInv, FailInv, DigestLine
<1> QED BY <1>8, <1>9 DEF Inv

LEMMA AskEasyStep ==
  ASSUME Inv, FailInv, AskEasy
  PROVE  Inv' /\ FailInv'
<1>1. step = "easy"
  BY DEF AskEasy
<1>2. PICK p \in Words, q \in Words, nonce \in Nonces :
        Ask(JobLine(line.address, p, q, EasyTarget,
                    (nonce \div Power[Lane]) * Power[Lane], HalfLane))
  BY DEF AskEasy
<1>3. ~asking
  BY <1>2 DEF Ask
<1>4. line \in DigestLines /\ DigestFits(line)
  BY <1>1, <1>3 DEF Inv, StepInv, DigestLine
<1>5. line.address \in Seq(Byte) /\ Len(line.address) <= AddressLen
  BY <1>4 DEF DigestLines, DigestFits, Fit
<1> DEFINE s == (nonce \div Power[Lane]) * Power[Lane]
           l == JobLine(line.address, p, q, EasyTarget, s, HalfLane)
<1>6. s \in Nat /\ Low(Bytes(s, WordLen)) = Zeros(Lane)
  <2>1. nonce \in Nat
    BY SelfTestAssumption
  <2>2. nonce \div Power[Lane] \in Nat
    BY <2>1, Alphabet, Division
  <2>3. s \in Nat
    BY <2>2, Alphabet, Products
  <2> QED BY <2>1, <2>3, LowBytes
<1>7. EasyTarget \in Nat /\ EasyTarget # 1 /\ EasyTarget \in 0 .. Power[WordLen] - 1
  BY SelfTestAssumption
<1> HIDE DEF s
<1>8. /\ l \in JobLines /\ JobFits(l) /\ l.count = HalfLane /\ l.start \in Str(WordLen)
      /\ l.target = Bytes(EasyTarget, WordLen)
  <2> DEFINE a == line.address
             c == HalfLane
             t == EasyTarget
  <2>1. /\ a \in Seq(Byte) /\ p \in Str(WordLen) /\ q \in Str(WordLen)
        /\ t \in Nat /\ c \in Nat /\ c \in 1 .. HalfLane /\ Len(a) <= AddressLen
    BY <1>5, <1>7, Drawn, Alphabet
  <2> HIDE DEF a, c, t
  <2>2. /\ JobLine(a, p, q, t, s, c) \in JobLines
        /\ JobFits(JobLine(a, p, q, t, s, c))
        /\ JobLine(a, p, q, t, s, c).count = c
        /\ JobLine(a, p, q, t, s, c).start \in Str(WordLen)
        /\ JobLine(a, p, q, t, s, c).target = Bytes(t, WordLen)
    <3>1. /\ a \in Seq(Byte) /\ p \in Str(WordLen) /\ q \in Str(WordLen)
          /\ t \in Nat /\ s \in Nat /\ c \in Nat
      BY <1>6, <2>1
    <3>2. Len(a) <= AddressLen /\ c \in 1 .. HalfLane /\ Low(Bytes(s, WordLen)) = Zeros(Lane)
      BY <1>6, <2>1
    <3> DEFINE j == JobLine(a, p, q, t, s, c)
    <3>3. /\ j \in JobLines /\ j.count = c /\ j.target = Bytes(t, WordLen)
          /\ j.start \in Str(WordLen)
      BY <3>1, JobLineFacts
    <3>4. JobFits(j)
      BY <3>1, <3>2, JobLineFacts
    <3> QED BY <3>3, <3>4
  <2> QED BY <2>2 DEF a, c, t
<1> HIDE DEF l
<1>9. BeWord(l.target) # 1
  BY <1>7, <1>8, Alphabet, BytesInverse
<1>10. l \in Lines \union {Quit}
  BY <1>8 DEF Lines
<1>11. /\ LineInv' /\ SearchInv' /\ ReplyInv'
       /\ Question' = l /\ asking' /\ step' = step
  BY <1>2, <1>10, Asking DEF l, s
<1>12. StepInv' /\ FailInv'
  BY <1>1, <1>8, <1>9, <1>11 DEF StepInv, FailInv, FullJob
<1> QED BY <1>11, <1>12 DEF Inv

(* A hit is a hit, and it is in the batch.                                 *)
LEMMA HitFacts ==
  ASSUME NEW l \in JobLines, JobFits(l), NEW n \in 0 .. l.count - 1,
         n \in BatchOf(l).below
  PROVE  LET r == HitReply(l, n)
         IN  /\ r.kind = "result" /\ r.found /\ r.hashes = n + 1
             /\ r.nonce \in Str(WordLen) /\ BeWord(r.nonce) = BeWord(l.start) + n
             /\ High(r.nonce) = High(HexBytes(l.start, WordLen))
             /\ BeWord(Low(r.nonce)) = n
             /\ r.digest = Reference(l, BeWord(r.nonce))
             /\ HashFits => Meets(l, BeWord(r.nonce))
<1> DEFINE r == HitReply(l, n)
           b == BatchOf(l)
           x == NonceHex(b.start, n)
           d == DigestBytes(HashOffset(b.lanes, n))
<1>1. l.count \in 1 .. HalfLane /\ HalfLane \in Nat
  BY BatchFacts, Alphabet
<1>2. n \in Offsets
  BY <1>1 DEF Offsets
<1>3. /\ x \in Str(WordLen) /\ High(x) = High(b.start) /\ BeWord(Low(x)) = n
      /\ BeWord(x) = BeWord(l.start) + n
      /\ d = Reference(l, BeWord(l.start) + n)
      /\ High(b.start) = High(HexBytes(l.start, WordLen))
  BY <1>2, BatchFacts
<1>4. HashFits => Meets(l, BeWord(l.start) + n)
  BY <1>2, BatchMeets
<1>5. r = [kind |-> "result", found |-> TRUE, nonce |-> x, digest |-> d, hashes |-> n + 1]
  BY DEF HitReply, Result
<1> HIDE DEF r, x, d
<1>6. /\ r.kind = "result" /\ r.found /\ r.hashes = n + 1 /\ r.nonce = x /\ r.digest = d
  BY <1>5
<1> QED BY <1>3, <1>4, <1>6 DEF r

LEMMA MissFacts ==
  ASSUME NEW l
  PROVE  /\ MissReply(l).kind = "result" /\ ~MissReply(l).found
         /\ MissReply(l).hashes = l.count
  BY DEF MissReply, Result

LEMMA AnswersResult ==
  ASSUME NEW l \in JobLines, JobFits(l), NEW r, RightReply(l, r)
  PROVE  /\ JobReply(l, r) /\ r.kind = "result"
         /\ \/ r.found /\ \E n \in 0 .. l.count - 1 :
                            n \in BatchOf(l).below /\ r = HitReply(l, n)
            \/ ~r.found /\ r.hashes = l.count /\ r = MissReply(l)
                 /\ \A n \in 0 .. l.count - 1 : n \notin BatchOf(l).below
<1>1. JobReply(l, r)
  BY DEF RightReply
<1>2. CASE \E n \in 0 .. l.count - 1 : n \in BatchOf(l).below /\ r = HitReply(l, n)
  <2>1. PICK n \in 0 .. l.count - 1 : n \in BatchOf(l).below /\ r = HitReply(l, n)
    BY <1>2
  <2>2. r.kind = "result" /\ r.found
    BY <2>1, HitFacts
  <2> QED BY <1>1, <1>2, <2>2
<1>3. CASE r = MissReply(l) /\ \A n \in 0 .. l.count - 1 : n \notin BatchOf(l).below
  BY <1>1, <1>3, MissFacts
<1> QED BY <1>1, <1>2, <1>3 DEF JobReply

LEMMA CheckEasyStep ==
  ASSUME Inv, FailInv, CheckEasy
  PROVE  Inv' /\ FailInv'
<1>1. step = "easy" /\ Answered
  BY DEF CheckEasy
<1>2. asking /\ Question = line
  BY <1>1 DEF Answered, Question
<1>3. FullJob(line) /\ BeWord(line.target) # 1
  BY <1>1, <1>2 DEF Inv, StepInv
<1>4. line \in JobLines /\ JobFits(line) /\ RightReply(line, reply)
  BY <1>1, <1>3 DEF Inv, ReplyInv, Answered, FullJob
<1>5. reply.kind = "result"
  BY <1>4, AnswersResult
<1>6. HashFits /\ reply.found => EasyFound
  <2> SUFFICES ASSUME HashFits, reply.found PROVE EasyFound
    OBVIOUS
  <2>1. PICK n \in 0 .. line.count - 1 :
          n \in BatchOf(line).below /\ reply = HitReply(line, n)
    BY <1>4, AnswersResult
  <2>2. /\ High(reply.nonce) = High(HexBytes(line.start, WordLen))
        /\ reply.digest = Reference(line, BeWord(reply.nonce))
        /\ Meets(line, BeWord(reply.nonce))
    BY <1>4, <2>1, HitFacts
  <2>3. HexBytes(line.start, WordLen) = line.start
    BY <1>3, Alphabet, FullField DEF FullJob
  <2> QED BY <1>5, <2>2, <2>3 DEF EasyFound, Verifies, High
<1>7. PICK next \in {"impossible", "failed"} :
        Got(next) /\ (next = "failed" => ~EasyFound)
  BY DEF CheckEasy
<1>8. /\ LineInv' /\ SearchInv' /\ ReplyInv'
      /\ step' = next /\ ~asking' /\ line' = line /\ reply' = reply
      /\ batch' = batch /\ batch = NoBatch
  BY <1>1, <1>7, Getting DEF Answered, Got, vars
<1>9. StepInv'
  BY <1>3, <1>8 DEF StepInv
<1>10. FailInv'
  <2>1. HashFits /\ next = "failed" => ~reply.found
    BY <1>6, <1>7
  <2> QED BY <1>3, <1>5, <1>8, <2>1 DEF FailInv
<1> QED BY <1>8, <1>9, <1>10 DEF Inv

LEMMA AskAgainStep ==
  ASSUME Inv, FailInv, AskAgain
  PROVE  Inv' /\ FailInv'
<1>1. step \in {"impossible", "throughput"} /\ Ask([line EXCEPT !.target = Bytes(1, WordLen)])
  BY DEF AskAgain
<1>2. ~asking
  BY <1>1 DEF Ask
<1>3. FullJob(line)
  BY <1>1, <1>2 DEF Inv, StepInv
<1> DEFINE t == Bytes(1, WordLen)
           l == [line EXCEPT !.target = t]
<1>4. t \in Seq(Byte) /\ Len(t) <= WordLen /\ BeWord(t) = 1
  <2>1. 1 \in Nat /\ 1 \in 0 .. Power[WordLen] - 1
    BY SelfTestAssumption, Alphabet, PowerType
  <2>2. t \in Str(WordLen)
    BY <2>1, Alphabet, BytesType
  <2>3. BeWord(t) = 1
    BY <2>1, Alphabet, BytesInverse
  <2> HIDE DEF t
  <2> QED BY <2>2, <2>3, Alphabet, FullField
<1> HIDE DEF t
<1>5. /\ l \in JobLines /\ l.target = t /\ l.start = line.start /\ l.count = line.count
      /\ l.address = line.address /\ l["prev"] = line["prev"] /\ l["anchor"] = line["anchor"]
  BY <1>3, <1>4 DEF FullJob, JobLines
<1> HIDE DEF l
<1>6. FullJob(l)
  BY <1>3, <1>4, <1>5 DEF FullJob, JobFits, Fit
<1>7. l \in Lines \union {Quit}
  BY <1>5 DEF Lines
<1>8. /\ LineInv' /\ SearchInv' /\ ReplyInv'
      /\ Question' = l /\ asking' /\ step' = step
  BY <1>1, <1>7, Asking DEF l, t
<1>9. StepInv' /\ FailInv'
  BY <1>1, <1>4, <1>5, <1>6, <1>8 DEF StepInv, FailInv
<1> QED BY <1>8, <1>9 DEF Inv

LEMMA CheckHardStep ==
  ASSUME Inv, FailInv, CheckImpossible \/ CheckThroughput
  PROVE  Inv' /\ FailInv'
<1>1. step \in {"impossible", "throughput"} /\ Answered
  BY DEF CheckImpossible, CheckThroughput
<1>2. asking /\ Question = line
  BY <1>1 DEF Answered, Question
<1>3. FullJob(line) /\ BeWord(line.target) = 1
  BY <1>1, <1>2 DEF Inv, StepInv
<1>4. line \in JobLines /\ JobFits(line) /\ line.count = HalfLane /\ RightReply(line, reply)
  BY <1>1, <1>3 DEF Inv, ReplyInv, Answered, FullJob
<1>5. reply.kind = "result" /\ (~reply.found => reply.hashes = HalfLane)
  BY <1>4, AnswersResult
<1>6. PICK next \in {"throughput", "ok", "failed"} :
        Got(next) /\ (next = "failed" => reply.found)
  BY <1>5 DEF CheckImpossible, CheckThroughput, ImpossibleMissed
<1>7. /\ LineInv' /\ SearchInv' /\ ReplyInv'
      /\ step' = next /\ ~asking' /\ line' = line /\ reply' = reply
      /\ batch' = batch /\ batch = NoBatch
  BY <1>1, <1>6, Getting DEF Answered, Got, vars
<1>8. StepInv'
  BY <1>3, <1>7 DEF StepInv
<1>9. FailInv'
  BY <1>3, <1>5, <1>6, <1>7 DEF FailInv
<1> QED BY <1>7, <1>8, <1>9 DEF Inv

LEMMA AgentStep ==
  ASSUME Inv, FailInv, AgentAsks \/ AgentReads \/ Close
  PROVE  Inv' /\ FailInv'
<1>1. ASSUME NEW l \in Lines \union {Quit}, Ask(l),
             step \in {"ok", "agent"} \/ (step \in {"failed"} /\ l = Quit)
      PROVE  Inv' /\ FailInv'
  <2>1. /\ LineInv' /\ SearchInv' /\ ReplyInv'
        /\ Question' = l /\ asking' /\ step' = step
    BY <1>1, Asking
  <2>2. StepInv' /\ FailInv'
    BY <1>1, <2>1 DEF StepInv, FailInv
  <2> QED BY <2>1, <2>2 DEF Inv
<1>2. CASE AgentAsks
  <2>1. CASE \E l \in OtherLines : Ask(l)
    <3>1. PICK l \in OtherLines : Ask(l)
      BY <2>1
    <3>2. l \in Lines \union {Quit}
      BY SelfTestAssumption
    <3> QED BY <1>1, <1>2, <3>1, <3>2 DEF AgentAsks
  <2>2. CASE ~ \E l \in OtherLines : Ask(l)
    <3>1. PICK t \in Targets, idx \in Workers, salt \in Salts, seq \in 0 .. MaxSeq,
               c \in 1 .. HalfLane :
            Ask(JobLine(MinerAddress, AnyWord, AnyWord, t, NonceStart(idx, salt, seq), c))
      BY <1>2, <2>2 DEF AgentAsks
    <3> DEFINE s == NonceStart(idx, salt, seq)
               l == JobLine(MinerAddress, AnyWord, AnyWord, t, s, c)
    <3>2. /\ t \in Nat /\ idx \in Nat /\ salt \in Nat /\ seq \in Nat /\ c \in Nat
          /\ MinerAddress \in Seq(Byte) /\ AnyWord \in Str(WordLen)
      BY SelfTestAssumption, Alphabet, Drawn
    <3>3. s \in Nat
      BY <3>2, StartDigits
    <3> HIDE DEF s
    <3>4. l \in JobLines
      BY <3>2, <3>3, JobLineFacts
    <3>5. l \in Lines \union {Quit}
      BY <3>4 DEF Lines
    <3>6. Ask(l)
      BY <3>1 DEF s
    <3> HIDE DEF l
    <3> QED BY <1>1, <1>2, <3>5, <3>6 DEF AgentAsks
  <2> QED BY <2>1, <2>2
<1>3. CASE AgentReads
  <2>1. step = "agent" /\ Answered /\ Got("agent")
    BY <1>3 DEF AgentReads
  <2>2. /\ LineInv' /\ SearchInv' /\ ReplyInv' /\ step' = "agent"
    BY <2>1, Getting
  <2> QED BY <2>2 DEF Inv, StepInv, FailInv
<1>4. CASE Close
  <2>1. step \in {"ok", "failed", "agent"} /\ Ask(Quit)
    BY <1>4 DEF Close
  <2> QED BY <1>1, <2>1
<1> QED BY <1>2, <1>3, <1>4

LEMMA EveryStep ==
  ASSUME Inv, FailInv, [ClientNext]_allVars
  PROVE  Inv' /\ FailInv'
<1>1. CASE Client
  BY <1>1, AskDigestStep, CheckDigestStep, AskEasyStep, CheckEasyStep, AskAgainStep,
     CheckHardStep, AgentStep DEF Client
<1>2. CASE Worker
  BY <1>2, ParseJobStep, DigestStep, RefuseStep, QuitStep, NoHitStep, AnswerStep
     DEF Worker, Next
<1>3. CASE UNCHANGED allVars
  BY <1>3 DEF allVars, vars, clientVars, Inv, LineInv, SearchInv, ReplyInv, StepInv,
     FailInv, Question
<1> QED BY <1>1, <1>2, <1>3 DEF ClientNext

LEMMA AlwaysInv == ClientSpec => [](Inv /\ FailInv)
<1>1. (Inv /\ FailInv) /\ [ClientNext]_allVars => (Inv /\ FailInv)'
  BY EveryStep
<1> QED BY <1>1, StartsRight, PTL DEF ClientSpec

(* A worker that has read quit is gone.                                    *)
LEMMA QuitEnds == ClientSpec => [](line = Quit => over)
<1> DEFINE J == line = Quit => over
<1>1. ClientInit => J
  BY KindsDiffer DEF ClientInit, Init
<1>2. ASSUME J, [ClientNext]_allVars PROVE J'
  <2>1. CASE line' = line /\ over' = over
    BY <1>2, <2>1
  <2>2. CASE \E kind \in {"job", "digest", "unknown"} : Reads(kind)
    BY <2>2, KindsDiffer DEF Reads, Quit
  <2>3. CASE QuitLine
    BY <2>3 DEF QuitLine
  <2>4. CASE Client
    BY <2>1, <2>4 DEF Client, AskDigest, CheckDigest, AskEasy, CheckEasy, AskAgain,
       CheckImpossible, CheckThroughput, AgentAsks, AgentReads, Close, Ask, Got, vars
  <2>5. CASE Worker
    BY <2>1, <2>2, <2>3, <2>5 DEF Worker, Next, ParseJob, DigestCommand, Refuse,
       NoHit, FindsHit, Exhausted, Hit, Answer
  <2>6. CASE UNCHANGED allVars
    BY <2>1, <2>6 DEF allVars, vars
  <2> QED BY <1>2, <2>4, <2>5, <2>6 DEF ClientNext
<1>3. J /\ [ClientNext]_allVars => J'
  BY <1>2
<1> QED BY <1>1, <1>3, PTL DEF ClientSpec

-----------------------------------------------------------------------------
LEMMA AnsweredJob ==
  ASSUME Inv, JobAnswered
  PROVE  line \in JobLines /\ JobFits(line) /\ RightReply(line, reply)
<1>1. line.kind = "job" /\ batch = NoBatch /\ reply.kind = "result"
  BY DEF JobAnswered
<1>2. line \in JobLines
  BY <1>1, KindsDiffer DEF Inv, LineInv, Lines
<1>3. RightReply(line, reply)
  BY <1>1 DEF Inv, ReplyInv
<1>4. JobFits(line)
  BY <1>1, <1>2, <1>3, KindsDiffer DEF RightReply
<1> QED BY <1>2, <1>3, <1>4

(* The worker's answers are true of the message pow.py hashes, for every   *)
(* permutation, base and lane (cpu_worker.cpp, keccak.h, against pow.py):  *)
(* a hit is in its batch, meets the target and comes with its digest,      *)
(* after a miss no nonce of the batch meets the target, and a digest line  *)
(* is answered by its digest.                                              *)
THEOREM AnswersAreTrue ==
  ASSUME HashFits
  PROVE  ClientSpec => []AnswerVerifies
<1>1. ASSUME Inv PROVE AnswerVerifies
  <2>1. ASSUME JobAnswered, reply.found
        PROVE  Verifies /\ Within(line, BeWord(reply.nonce))
    <3>1. line \in JobLines /\ JobFits(line) /\ RightReply(line, reply)
      BY <1>1, <2>1, AnsweredJob
    <3>2. PICK n \in 0 .. line.count - 1 :
            n \in BatchOf(line).below /\ reply = HitReply(line, n)
      BY <2>1, <3>1, AnswersResult
    <3>3. /\ BeWord(reply.nonce) = BeWord(line.start) + n
          /\ reply.digest = Reference(line, BeWord(reply.nonce))
          /\ Meets(line, BeWord(reply.nonce))
      BY <3>1, <3>2, HitFacts
    <3>4. BeWord(line.start) \in Nat
      BY <3>1, BatchFacts
    <3>5. BeWord(reply.nonce) - BeWord(line.start) = n
      BY <3>3, <3>4
    <3> QED BY <3>3, <3>5 DEF Verifies, Within
  <2>2. ASSUME JobAnswered, ~reply.found, NEW n \in 0 .. line.count - 1
        PROVE  ~Meets(line, BeWord(line.start) + n)
    <3>1. line \in JobLines /\ JobFits(line) /\ RightReply(line, reply)
      BY <1>1, <2>2, AnsweredJob
    <3>2. n \notin BatchOf(line).below
      BY <2>2, <3>1, AnswersResult
    <3>3. line.count \in 1 .. HalfLane /\ HalfLane \in Nat
      BY <3>1, BatchFacts, Alphabet
    <3>4. n \in Offsets
      BY <3>3 DEF Offsets
    <3> QED BY <3>1, <3>2, <3>4, BatchMeets
  <2>3. ASSUME line.kind = "digest", reply.kind = "digest" PROVE DigestRight
    <3>1. line \in DigestLines
      BY <1>1, <2>3, KindsDiffer DEF Inv, LineInv, Lines
    <3>2. batch = NoBatch
      BY <1>1, <2>3, KindsDiffer DEF Inv, SearchInv
    <3>3. RightReply(line, reply)
      BY <1>1, <3>2 DEF Inv, ReplyInv
    <3>4. reply = DigestReply(line)
      BY <2>3, <3>1, <3>3, KindsDiffer DEF RightReply
    <3> QED BY <3>4 DEF DigestRight, DigestReply
  <2> QED BY <2>1, <2>2, <2>3 DEF AnswerVerifies
<1> QED BY <1>1, AlwaysInv, PTL

(* A worker that is right passes the self-test (gpu_selftest.py), unless   *)
(* the easy search finds nothing or the impossible one finds something.    *)
THEOREM RightWorkersPass ==
  ASSUME HashFits
  PROVE  ClientSpec => []PassesSelfTest
<1>1. ASSUME Inv, FailInv, line = Quit => over PROVE PassesSelfTest
  <2> SUFFICES ASSUME step = "failed", inbox = NoLine, ~over
               PROVE  JobAnswered /\ (reply.found <=> BeWord(line.target) = 1)
    BY DEF PassesSelfTest
  <2>1. CASE asking
    <3>1. line = Quit
      BY <1>1, <2>1 DEF FailInv, Question
    <3> QED BY <1>1, <3>1
  <2>2. CASE ~asking
    <3>1. /\ FullJob(line) /\ batch = NoBatch /\ reply.kind = "result"
          /\ IF BeWord(line.target) = 1 THEN reply.found ELSE ~reply.found
      BY <1>1, <2>2 DEF FailInv
    <3>2. JobAnswered
      BY <3>1, KindsDiffer DEF JobAnswered, FullJob
    <3> QED BY <3>1, <3>2
  <2> QED BY <2>1, <2>2
<1> QED BY <1>1, AlwaysInv, QuitEnds, PTL

(* "Unique nonce space per worker, per process start, per batch"           *)
(* (remote_agent.py): the nonce of a hit lies in the space of at most one  *)
(* worker, salt and sequence number.                                       *)
THEOREM NoncesNameTheirBatch == ClientSpec => []NonceNamesBatch
<1>1. ASSUME Inv PROVE NonceNamesBatch
  <2> SUFFICES ASSUME JobAnswered, reply.found
               PROVE  Cardinality({b \in Workers \X (0 .. Power[Lane] - 1) \X (0 .. MaxSeq) :
                        BeWord(reply.nonce) - NonceStart(b[1], b[2], b[3])
                          \in 0 .. HalfLane - 1}) <= 1
    BY DEF NonceNamesBatch
  <2> DEFINE T == Workers \X (0 .. Power[Lane] - 1) \X (0 .. MaxSeq)
             B == {b \in T : BeWord(reply.nonce) - NonceStart(b[1], b[2], b[3])
                               \in 0 .. HalfLane - 1}
  <2>1. BeWord(reply.nonce) \in Int
    <3>1. line \in JobLines /\ JobFits(line) /\ RightReply(line, reply)
      BY <1>1, AnsweredJob
    <3>2. PICK n \in 0 .. line.count - 1 :
            n \in BatchOf(line).below /\ reply = HitReply(line, n)
      BY <3>1, AnswersResult
    <3>3. reply.nonce \in Str(WordLen)
      BY <3>1, <3>2, HitFacts
    <3> QED BY <3>3, Alphabet, WordBound, PowerType
  <2> DEFINE r == BeWord(reply.nonce)
  <2>2. ASSUME NEW b \in B, NEW c \in B PROVE b = c
    <3>1. b \in T /\ r - NonceStart(b[1], b[2], b[3]) \in 0 .. HalfLane - 1
      OBVIOUS
    <3>2. c \in T /\ r - NonceStart(c[1], c[2], c[3]) \in 0 .. HalfLane - 1
      OBVIOUS
    <3> HIDE DEF B, r
    <3>3. PICK b1 \in Workers, b2 \in 0 .. Power[Lane] - 1, b3 \in 0 .. MaxSeq :
            b = <<b1, b2, b3>>
      BY <3>1
    <3>4. PICK c1 \in Workers, c2 \in 0 .. Power[Lane] - 1, c3 \in 0 .. MaxSeq :
            c = <<c1, c2, c3>>
      BY <3>2
    <3>5. /\ r - NonceStart(b1, b2, b3) \in 0 .. HalfLane - 1
          /\ r - NonceStart(c1, c2, c3) \in 0 .. HalfLane - 1
      BY <3>1, <3>2, <3>3, <3>4
    <3>6. InSpace(r, b1, b2, b3) /\ InSpace(r, c1, c2, c3)
      <4> DEFINE d == r - NonceStart(b1, b2, b3)
                 e == r - NonceStart(c1, c2, c3)
      <4>1. d \in 0 .. Power[Lane] - 1 /\ e \in 0 .. Power[Lane] - 1
        <5>1. d \in 0 .. HalfLane - 1 /\ e \in 0 .. HalfLane - 1
          BY <3>5
        <5> HIDE DEF d, e
        <5>2. HalfLane \in Nat /\ Power[Lane] \in Nat /\ HalfLane <= Power[Lane] - 1
          BY Alphabet
        <5> QED BY <5>1, <5>2
      <4>2. /\ b1 \in Nat /\ c1 \in Nat
            /\ b3 \in 0 .. Power[Lane] - 1 /\ c3 \in 0 .. Power[Lane] - 1
        <5>1. b1 \in Nat /\ c1 \in Nat /\ MaxSeq \in 0 .. Power[Lane] - 1
          BY SelfTestAssumption
        <5>2. Power[Lane] \in Nat
          BY Alphabet
        <5> HIDE DEF d, e
        <5> QED BY <5>1, <5>2
      <4> HIDE DEF d, e
      <4>3. b1 \in Nat /\ b2 \in 0 .. Power[Lane] - 1 /\ b3 \in 0 .. Power[Lane] - 1
            /\ c1 \in Nat /\ c2 \in 0 .. Power[Lane] - 1 /\ c3 \in 0 .. Power[Lane] - 1
        BY <4>2
      <4> QED BY Zenon, <4>1, <4>3 DEF InSpace, d, e
    <3>7. r \in Int
      BY <2>1 DEF r
    <3>8. b1 = c1 /\ b2 = c2 /\ b3 = c3
      BY <3>6, <3>7, BatchesAreApart
    <3> QED BY <3>3, <3>4, <3>8
  <2> HIDE DEF B
  <2>3. CASE B = {}
    BY <2>3, FS_EmptySet DEF B
  <2>4. CASE B # {}
    <3>1. PICK b \in B : B = {b}
      BY <2>2, <2>4
    <3>2. Cardinality(B) = 1
      BY <3>1, FS_Singleton
    <3> QED BY <3>2 DEF B
  <2> QED BY <2>3, <2>4
<1> QED BY <1>1, AlwaysInv, PTL

-----------------------------------------------------------------------------
(* What can happen during a search: the clients wait.                      *)
LEMMA SearchStep ==
  ASSUME Inv, [ClientNext]_allVars, Searching
  PROVE  \/ UNCHANGED vars
         \/ (NoHit \/ FindsHit \/ Exhausted) /\ UNCHANGED clientVars
<1>1. batch # NoBatch /\ asking
  BY DEF Inv, LineInv, Searching
<1>2. CASE Client
  <2>1. ASSUME NEW l, Ask(l) PROVE FALSE
    BY <1>1, <2>1 DEF Ask
  <2>2. ASSUME Answered PROVE FALSE
    BY <1>1, <2>2 DEF Answered
  <2> QED BY <1>2, <2>1, <2>2 DEF Client, AskDigest, CheckDigest, AskEasy, CheckEasy,
          AskAgain, CheckImpossible, CheckThroughput, AgentAsks, AgentReads, Close
<1>3. CASE Worker
  <2>1. ASSUME NEW kind, Reads(kind) PROVE FALSE
    BY <1>1, <2>1 DEF Reads, Idle
  <2> QED BY <1>3, <2>1 DEF Worker, Next, ParseJob, DigestCommand, Refuse, QuitLine
<1>4. CASE UNCHANGED allVars
  BY <1>4 DEF allVars
<1> QED BY <1>2, <1>3, <1>4 DEF ClientNext

LEMMA SearchEnds ==
  ASSUME Inv, FailInv, FindsHit \/ Exhausted, UNCHANGED clientVars
  PROVE  /\ line \in JobLines /\ JobFits(line) /\ batch = BatchOf(line)
         /\ batch.count = line.count /\ line.count \in Nat \ {0}
         /\ batch' = NoBatch
         /\ FindsHit => /\ reply'.kind = "result" /\ reply'.found
                        /\ reply'.hashes = o + 1 /\ OffsetOf(reply'.nonce) = o
                        /\ o \in 0 .. batch.count - 1 /\ o \in batch.below
                        /\ \A n \in 0 .. o - 1 : n \notin batch.below
         /\ ~FindsHit => /\ reply'.kind = "result" /\ ~reply'.found
                         /\ reply'.hashes = batch.count
                         /\ \A n \in 0 .. batch.count - 1 : n \notin batch.below
<1>1. /\ Searching /\ batch' = NoBatch
      /\ FindsHit => o \in 0 .. line.count - 1 /\ o \in BatchOf(line).below
                     /\ reply' = HitReply(line, o)
      /\ ~FindsHit => reply' = MissReply(line)
                      /\ \A n \in 0 .. line.count - 1 : n \notin BatchOf(line).below
  BY AnswerStep
<1>2. /\ line \in JobLines /\ JobFits(line) /\ batch = BatchOf(line)
      /\ batch.count = line.count /\ line.count \in 1 .. HalfLane
      /\ \A n \in 0 .. o - 1 : n \notin batch.below
  BY <1>1, InSearch
<1>3. line.count \in Nat \ {0}
  BY <1>2, Alphabet
<1>4. ASSUME FindsHit
      PROVE  /\ reply'.kind = "result" /\ reply'.found
             /\ reply'.hashes = o + 1 /\ OffsetOf(reply'.nonce) = o
  <2>1. /\ reply'.kind = "result" /\ reply'.found /\ reply'.hashes = o + 1
        /\ BeWord(Low(reply'.nonce)) = o
    BY <1>1, <1>2, <1>4, HitFacts
  <2> QED BY <2>1 DEF OffsetOf, Low
<1>5. ASSUME ~FindsHit
      PROVE  reply'.kind = "result" /\ ~reply'.found /\ reply'.hashes = batch.count
  BY <1>1, <1>2, <1>5, MissFacts
<1> QED BY <1>1, <1>2, <1>3, <1>4, <1>5

(* test_cpu_worker.py: the search "finds smallest valid offset".  The      *)
(* offset of a hit is the least one of the batch below the target.         *)
THEOREM FirstHitWins == ClientSpec => FindsSmallest
<1>1. ASSUME Inv, FailInv, [ClientNext]_allVars, Searching, IsHit(reply')
      PROVE  \/ UNCHANGED vars
             \/ \A n \in PlainBatch.good : OffsetOf(reply'.nonce) <= n
  <2>1. CASE NoHit
    <3>1. reply' = NoLine
      BY <1>1, <2>1, InSearch DEF NoHit
    <3> QED BY <1>1, <3>1, KindsDiffer DEF IsHit
  <2>2. CASE (FindsHit \/ Exhausted) /\ UNCHANGED clientVars
    <3>1. /\ OffsetOf(reply'.nonce) = o /\ o \in 0 .. batch.count - 1
          /\ \A n \in 0 .. o - 1 : n \notin batch.below
          /\ batch = BatchOf(line) /\ line \in JobLines /\ JobFits(line)
          /\ batch.count \in Nat
      BY <1>1, <2>2, SearchEnds DEF IsHit
    <3>2. batch.below \subseteq Offsets /\ HalfLane \in Nat
      BY <3>1, BatchFacts, Alphabet
    <3>3. ASSUME NEW n \in batch.below PROVE o <= n
      <4>1. n \in Nat
        BY <3>2 DEF Offsets
      <4> QED BY <3>1, <4>1
    <3> QED BY <3>1, <3>3 DEF PlainBatch
  <2> QED BY <1>1, <2>1, <2>2, SearchStep
<1>2. (Inv /\ FailInv) /\ [ClientNext]_allVars
        => [Searching /\ IsHit(reply') =>
              \A n \in PlainBatch.good : OffsetOf(reply'.nonce) <= n]_vars
  BY <1>1
<1> QED BY <1>2, AlwaysInv, PTL DEF ClientSpec, FindsSmallest

-----------------------------------------------------------------------------
(* What the lines and batches of the worker are to Search.                 *)
LEMMA PlainSame ==
  ASSUME batch' = batch, reply' = reply
  PROVE  UNCHANGED <<PlainBatch, PlainReply>>
  BY DEF PlainBatch, PlainReply, IsHit

LEMMA PlainEmpty ==
  /\ batch = NoBatch => PlainBatch = Promise!NoBatch
  /\ batch' = NoBatch => PlainBatch' = Promise!NoBatch
  BY DEF PlainBatch, NoBatch, Promise!NoBatch

LEMMA PlainFull ==
  ASSUME batch.count \in Nat \ {0}
  PROVE  PlainBatch # Promise!NoBatch
  BY DEF PlainBatch, Promise!NoBatch

LEMMA PlainTaken ==
  ASSUME NEW l \in JobLines, JobFits(l), batch' = BatchOf(l)
  PROVE  PlainBatch' \in Promise!Batches
<1>1. /\ batch'.count \in 1 .. HalfLane /\ batch'.below \in SUBSET Offsets
  BY BatchFacts
<1> QED BY <1>1 DEF PlainBatch, Promise!Batches, Promise!Offsets, Offsets

LEMMA PlainLine ==
  /\ reply.kind # "result" => PlainReply = [kind |-> reply.kind]
  /\ reply'.kind # "result" => PlainReply' = [kind |-> reply'.kind]
  BY DEF PlainReply, IsHit

LEMMA PlainHit ==
  ASSUME NEW n, reply'.kind = "result", reply'.found,
         reply'.hashes = n + 1, OffsetOf(reply'.nonce) = n
  PROVE  PlainReply' = Promise!Hit(n, n)
  BY DEF PlainReply, IsHit, Promise!Hit

LEMMA PlainMiss ==
  ASSUME reply'.kind = "result", ~reply'.found
  PROVE  PlainReply' = Promise!Miss(reply'.hashes)
  BY DEF PlainReply, IsHit, Promise!Miss

(* The CPU worker implements Search (cpu_worker.cpp): it takes a batch of  *)
(* legal size, answers it by a hit of the batch or by a miss after the     *)
(* whole of it, and answers a digest line or one it refuses between two    *)
(* batches only.                                                           *)
THEOREM CpuWorkerSearches == ClientSpec => Searches
<1>1. ClientInit => Promise!Init
  <2> SUFFICES ASSUME ClientInit PROVE Promise!Init
    OBVIOUS
  <2>1. batch = NoBatch /\ reply = NoLine
    BY DEF ClientInit, Init
  <2>2. PlainReply = Promise!NoReply
    BY <2>1, PlainLine, KindsDiffer DEF Promise!NoReply
  <2> QED BY <2>1, <2>2, PlainEmpty DEF Promise!Init
<1>2. ASSUME Inv, FailInv, [ClientNext]_allVars
      PROVE  Promise!Next \/ UNCHANGED <<PlainBatch, PlainReply>>
  <2>1. CASE batch' = batch /\ reply' = reply
    BY <2>1, PlainSame
  <2>2. CASE ParseJob /\ UNCHANGED clientVars
    <3>1. /\ Reads("job") /\ JobFits(inbox) /\ batch' = BatchOf(inbox) /\ reply' = NoLine
      BY <2>2 DEF ParseJob
    <3>2. inbox \in JobLines /\ batch = NoBatch
      BY <1>2, <2>2, <3>1, Reading
    <3>3. PlainBatch' \in Promise!Batches /\ PlainBatch = Promise!NoBatch
      BY <3>1, <3>2, PlainTaken, PlainEmpty
    <3>4. PlainReply' = Promise!NoReply
      BY <3>1, PlainLine, KindsDiffer DEF Promise!NoReply
    <3> QED BY <3>3, <3>4 DEF Promise!Next, Promise!Take
  <2>3. CASE DigestCommand \/ Refuse
    <3>1. /\ batch = NoBatch /\ batch' = NoBatch /\ reply'.kind \in {"digest", "error"}
      BY <2>3 DEF DigestCommand, Refuse, Reads, Idle, Error
    <3>2. PlainReply' \in {Promise!Digest, Promise!Error}
      BY <3>1, PlainLine DEF Promise!Digest, Promise!Error
    <3>3. PlainBatch = Promise!NoBatch /\ PlainBatch' = PlainBatch
      BY <3>1, PlainEmpty
    <3> QED BY <3>2, <3>3 DEF Promise!Next, Promise!AnswerOther
  <2>4. CASE (FindsHit \/ Exhausted) /\ UNCHANGED clientVars
    <3>1. /\ batch.count \in Nat \ {0} /\ batch' = NoBatch
      BY <1>2, <2>4, SearchEnds
    <3>2. Promise!Done
      BY <3>1, PlainEmpty, PlainFull DEF Promise!Done
    <3>3. Promise!Within(PlainBatch) = 0 .. batch.count - 1 /\ PlainBatch.good = batch.below
          /\ PlainBatch.count = batch.count
      BY DEF PlainBatch, Promise!Within
    <3>4. CASE FindsHit
      <4>1. /\ o \in 0 .. batch.count - 1 /\ o \in batch.below
            /\ reply'.kind = "result" /\ reply'.found
            /\ reply'.hashes = o + 1 /\ OffsetOf(reply'.nonce) = o
        BY <1>2, <2>4, <3>4, SearchEnds
      <4>2. PlainReply' = Promise!Hit(o, o)
        BY <4>1, PlainHit
      <4>3. Promise!AnswerHit
        BY <3>2, <3>3, <4>1, <4>2 DEF Promise!AnswerHit
      <4> QED BY <4>3 DEF Promise!Next
    <3>5. CASE ~FindsHit
      <4>1. /\ reply'.kind = "result" /\ ~reply'.found /\ reply'.hashes = batch.count
            /\ \A n \in 0 .. batch.count - 1 : n \notin batch.below
        BY <1>2, <2>4, <3>5, SearchEnds
      <4>2. PlainReply' = Promise!Miss(batch.count)
        BY <4>1, PlainMiss
      <4>3. Promise!AnswerMiss
        BY <3>2, <3>3, <4>1, <4>2 DEF Promise!AnswerMiss
      <4> QED BY <4>3 DEF Promise!Next
    <3> QED BY <3>4, <3>5
  <2>5. CASE Client
    BY <2>1, <2>5 DEF Client, AskDigest, CheckDigest, AskEasy, CheckEasy, AskAgain,
       CheckImpossible, CheckThroughput, AgentAsks, AgentReads, Close, Ask, Got, vars
  <2>6. CASE Worker
    BY <2>1, <2>2, <2>3, <2>4, <2>6 DEF Worker, Next, QuitLine, NoHit
  <2>7. CASE UNCHANGED allVars
    BY <2>1, <2>7 DEF allVars, vars
  <2> QED BY <1>2, <2>5, <2>6, <2>7 DEF ClientNext
<1>3. (Inv /\ FailInv) /\ [ClientNext]_allVars
        => [Promise!Next]_<<PlainBatch, PlainReply>>
  BY <1>2
<1> QED BY <1>1, <1>3, AlwaysInv, PTL DEF ClientSpec, Searches, Promise!Spec
=============================================================================
