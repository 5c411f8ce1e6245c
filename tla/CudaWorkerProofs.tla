-------------------------- MODULE CudaWorkerProofs --------------------------
(***************************************************************************)
(* Proofs about the CUDA worker, for launches and batches of any size: its *)
(* invariant, and that it implements Search.                               *)
(***************************************************************************)
EXTENDS CudaWorker, TLAPS

-----------------------------------------------------------------------------
(* Lanes.  Every number has a quotient and a remainder.                    *)
LEMMA Division ==
  ASSUME NEW S \in Nat \ {0}, NEW a \in Nat
  PROVE  /\ a \div S \in Nat /\ a % S \in 0 .. S - 1
         /\ a = (S * (a \div S)) + (a % S)
OBVIOUS

(* Multiples of S are at least S apart.                                    *)
LEMMA Multiples ==
  ASSUME NEW S \in Nat \ {0}, NEW x \in Nat, NEW y \in Nat, x < y
  PROVE  S * x + S <= S * y
<1>1. PICK d \in Nat : y = x + 1 + d
  <2>1. y - x - 1 \in Nat  OBVIOUS
  <2>2. y = x + 1 + (y - x - 1)  OBVIOUS
  <2> QED BY <2>1, <2>2
<1>2. S * y = S * x + S + S * d  BY <1>1
<1>3. S * d >= 0 /\ S * d \in Int  OBVIOUS
<1>4. S * x \in Int  OBVIOUS
<1> QED BY <1>2, <1>3, <1>4

(* The quotient and the remainder of a number are the only ones it has.    *)
LEMMA Remainder ==
  ASSUME NEW S \in Nat \ {0}, NEW p \in Nat, NEW q \in Nat,
         NEW r \in 0 .. S - 1, NEW s \in 0 .. S - 1,
         S * p + r = S * q + s
  PROVE  r = s
<1>1. S * p \in Int /\ S * q \in Int  OBVIOUS
<1>2. ~(p < q)
  <2>1. p < q => S * p + S <= S * q  BY Multiples
  <2> QED BY <1>1, <2>1
<1>3. ~(q < p)
  <2>1. q < p => S * q + S <= S * p  BY Multiples
  <2> QED BY <1>1, <2>1
<1>4. p = q  BY <1>2, <1>3
<1> QED BY <1>1, <1>4

(* Two offsets less than a stride apart in one lane are the same.          *)
LEMMA SameLane ==
  ASSUME NEW S \in Nat \ {0}, NEW a \in Nat, NEW b \in Nat,
         a % S = b % S, a <= b, b < a + S
  PROVE  a = b
<1> DEFINE p == a \div S
           q == b \div S
           r == a % S
<1>1. p \in Nat /\ q \in Nat /\ r \in 0 .. S - 1 /\ a = S * p + r /\ b = S * q + r
  BY Division
<1>2. S * p \in Int /\ S * q \in Int  BY <1>1
<1>3. p < q => S * p + S <= S * q  BY Multiples, <1>1
<1>4. q < p => S * q + S <= S * p  BY Multiples, <1>1
<1> HIDE DEF p, q, r
<1>5. ~(p < q)  BY <1>1, <1>2, <1>3
<1>6. ~(q < p)  BY <1>1, <1>2, <1>4
<1>7. p = q  BY <1>1, <1>5, <1>6
<1> QED BY <1>1, <1>7

(* A stride further is the same lane.                                      *)
LEMMA NextInLane ==
  ASSUME NEW S \in Nat \ {0}, NEW a \in Nat
  PROVE  (a + S) % S = a % S
<1> DEFINE p == a \div S
           r == a % S
           q == (a + S) \div S
           s == (a + S) % S
<1>1. p \in Nat /\ r \in 0 .. S - 1 /\ a = S * p + r  BY Division
<1>2. a + S \in Nat  OBVIOUS
<1>3. q \in Nat /\ s \in 0 .. S - 1 /\ a + S = S * q + s  BY <1>2, Division
<1> HIDE DEF p, q, r, s
<1>4. S * (p + 1) = S * p + S  BY <1>1
<1>5. S * p \in Int /\ S * q \in Int  BY <1>1, <1>3
<1>6. S * (p + 1) + r = S * q + s  BY <1>1, <1>3, <1>4, <1>5
<1>7. p + 1 \in Nat  BY <1>1
<1>8. r = s  BY <1>1, <1>3, <1>6, <1>7, Remainder
<1> QED BY <1>8 DEF r, s

(* A thread starts in the lane of its own number.                          *)
LEMMA OwnLane ==
  ASSUME NEW S \in Nat \ {0}, NEW t \in 0 .. S - 1
  PROVE  t % S = t
<1> DEFINE p == t \div S
           r == t % S
<1>1. p \in Nat /\ r \in 0 .. S - 1 /\ t = S * p + r
  <2>1. t \in Nat  OBVIOUS
  <2> QED BY <2>1, Division
<1> HIDE DEF p, r
<1>2. S * 0 + t = S * p + r  BY <1>1
<1>3. t = r  BY <1>1, <1>2, Remainder
<1> QED BY <1>3 DEF r

-----------------------------------------------------------------------------
(* Lanes and threads are the same numbers.                                 *)
LEMMA Threading ==
  /\ Stride \in Nat \ {0}
  /\ \A t \in Threads : t \in Nat /\ t % Stride = t
  /\ \A o \in Nat : o % Stride \in Threads
<1>1. Stride \in Nat \ {0}  BY CudaAssumption
<1>2. \A t \in Threads : t \in Nat /\ t % Stride = t
  BY <1>1, OwnLane DEF Threads
<1>3. \A o \in Nat : o % Stride \in Threads
  BY <1>1, Division DEF Threads
<1> QED BY <1>1, <1>2, <1>3

(* What parse_job lets through, and no batch.                              *)
LEMMA BatchTypes ==
  ASSUME NEW b \in Batches \union {NoBatch}
  PROVE  /\ b.count \in Nat /\ b.good \subseteq Offsets
         /\ Within(b) \subseteq Offsets /\ Offsets \subseteq Nat
         /\ b # NoBatch <=> b \in Batches
<1>1. MaxCount \in Nat \ {0}  BY ProtocolAssumption
<1>2. CASE b \in Batches
  <2>1. b.count \in 1 .. MaxCount /\ b.good \subseteq Offsets  BY <1>2 DEF Batches
  <2>2. b # NoBatch  BY <2>1, <1>1 DEF NoBatch
  <2> QED BY <1>1, <1>2, <2>1, <2>2 DEF Within, Offsets
<1>3. CASE b = NoBatch
  <2>1. b.count = 0 /\ b.good = {}  BY <1>3 DEF NoBatch
  <2>2. b \notin Batches  BY <2>1, <1>1 DEF Batches
  <2> QED BY <1>1, <1>3, <2>1, <2>2 DEF Within, Offsets
<1> QED BY <1>2, <1>3

(* A cleared result has the type of a result.                              *)
LEMMA ZeroType ==
  Zero \in [found : BOOLEAN, offset : Offsets, digest : Offsets \union {Unset}]
<1>1. 0 \in Offsets  BY ProtocolAssumption DEF Offsets
<1> QED BY <1>1 DEF Zero

(* The invariant holds before the first line.                              *)
LEMMA InitInv == Init => Inv
<1> SUFFICES ASSUME Init PROVE Inv  OBVIOUS
<1>1. TypeOK  BY ZeroType, Threading DEF Init, TypeOK
<1>2. OneWriter /\ HostInv  BY DEF Init, OneWriter, HostInv
<1>3. host # "sync"  BY DEF Init
<1> QED BY <1>1, <1>2, <1>3 DEF Inv

-----------------------------------------------------------------------------
(* Steps of the host.                                                      *)
HostAction ==
  OtherLine \/ ParseJob \/ QuitLine \/ CopyJob \/ Launch \/ ReadResult \/ CudaFails

(* No step of the host disturbs the types.                                 *)
LEMMA HostTypes == Inv /\ HostAction => TypeOK'
<1> SUFFICES ASSUME Inv, HostAction PROVE TypeOK'  OBVIOUS
<1> USE DEF TypeOK, Inv
<1>1. CASE OtherLine  BY <1>1 DEF OtherLine, kernelVars
<1>2. CASE ParseJob  BY <1>2 DEF ParseJob, kernelVars
<1>3. CASE QuitLine  BY <1>3 DEF QuitLine, kernelVars
<1>4. CASE CopyJob  BY <1>4, ZeroType DEF CopyJob
<1>5. CASE Launch  BY <1>5, Threading DEF Launch
<1>6. CASE ReadResult  BY <1>6 DEF ReadResult, Synchronized, kernelVars
<1>7. CASE CudaFails  BY <1>7 DEF CudaFails
<1> QED BY <1>1, <1>2, <1>3, <1>4, <1>5, <1>6, <1>7 DEF HostAction

(* The kernel's invariant at the start of a launch.                        *)
LEMMA LaunchInv == Inv /\ Launch => OneWriter' /\ KernelInv'
<1> SUFFICES ASSUME Inv, Launch PROVE OneWriter' /\ KernelInv'  OBVIOUS
<1>1. /\ phase' = [t \in Threads |-> "loop"]
      /\ at' = [t \in Threads |-> t]
      /\ tried' = {} /\ batch' = batch /\ res' = res /\ ~res.found
  BY DEF Inv, HostInv, Launch, Zero
<1>2. \A t \in Threads : phase'[t] = "loop" /\ ~Writing(t)'  BY <1>1 DEF Writing
<1>3. OneWriter'  BY <1>2 DEF OneWriter
<1>4. LaneInv'  BY <1>1, Threading DEF LaneInv
<1>5. SweepInv'
  <2> SUFFICES ASSUME NEW o \in Within(batch), o < at'[o % Stride] PROVE FALSE
    BY <1>1 DEF SweepInv
  <2>1. o \in Nat  BY BatchTypes DEF Inv, TypeOK
  <2>2. at'[o % Stride] = o % Stride  BY <1>1, <2>1, Threading
  <2>3. o = (Stride * (o \div Stride)) + (o % Stride) /\ o \div Stride \in Nat
        /\ o % Stride \in 0 .. Stride - 1
    BY <2>1, Threading, Division
  <2>4. Stride * (o \div Stride) \in Nat  BY <2>3, Threading
  <2> QED BY <2>1, <2>2, <2>3, <2>4
<1>6. BoundInv' /\ HitInv' /\ MissInv' /\ ResultInv'
  BY <1>1, <1>2 DEF BoundInv, HitInv, MissInv, ResultInv
<1> QED BY <1>3, <1>4, <1>5, <1>6 DEF KernelInv

(* No step of the host disturbs the invariant.                             *)
LEMMA HostStepInv == Inv /\ HostAction => Inv'
<1> SUFFICES ASSUME Inv, HostAction PROVE Inv'  OBVIOUS
<1>1. TypeOK'  BY HostTypes
<1>2. HostInv'
  <2> USE DEF Inv, HostInv
  <2>1. CASE OtherLine  BY <2>1 DEF OtherLine, kernelVars
  <2>2. CASE ParseJob  BY <2>2, BatchTypes DEF ParseJob, kernelVars
  <2>3. CASE QuitLine  BY <2>3 DEF QuitLine, kernelVars
  <2>4. CASE CopyJob  BY <2>4 DEF CopyJob
  <2>5. CASE Launch  BY <2>5 DEF Launch
  <2>6. CASE ReadResult  BY <2>6 DEF ReadResult, Synchronized, kernelVars
  <2>7. CASE CudaFails  BY <2>7 DEF CudaFails
  <2> QED BY <2>1, <2>2, <2>3, <2>4, <2>5, <2>6, <2>7 DEF HostAction
<1>3. OneWriter' /\ (host' = "sync" => KernelInv')
  <2>1. CASE Launch  BY <2>1, LaunchInv
  <2>2. CASE ~Launch
    <3>1. host' # "sync"
      BY <2>2 DEF HostAction, OtherLine, ParseJob, QuitLine, CopyJob, ReadResult,
                  Synchronized, CudaFails
    <3> QED BY <3>1 DEF OneWriter
  <2> QED BY <2>1, <2>2
<1> QED BY <1>1, <1>2, <1>3 DEF Inv

-----------------------------------------------------------------------------
(* Steps of the kernel.  The facts every thread step starts from.          *)
LEMMA KernelFacts ==
  ASSUME Inv, NEW t \in Threads, ThreadStep(t)
  PROVE  /\ host = "sync" /\ host' = "sync" /\ batch' = batch /\ reply' = reply
         /\ KernelInv /\ OneWriter /\ TypeOK /\ HostInv
         /\ batch \in Batches /\ Within(batch) \subseteq Offsets /\ Offsets \subseteq Nat
         /\ batch.count \in Nat /\ \A o \in Within(batch) : o \in Nat
         /\ at[t] \in Nat
<1>1. host = "sync" /\ host' = host /\ batch' = batch /\ reply' = reply
  BY DEF ThreadStep, Exhausted, SeesFound, GoesOn, NoHit, Claim, StoreOffset, StoreDigest,
         At, hostVars
<1>2. KernelInv /\ OneWriter /\ TypeOK /\ HostInv  BY <1>1 DEF Inv
<1>3. batch # NoBatch  BY <1>1, <1>2 DEF HostInv
<1>4. at[t] \in Nat  BY <1>2 DEF TypeOK
<1> QED BY <1>1, <1>2, <1>3, <1>4, BatchTypes DEF TypeOK

(* What a step of t leaves alone.                                          *)
LEMMA KernelFrame ==
  ASSUME Inv, NEW t \in Threads, ThreadStep(t)
  PROVE  /\ \A u \in Threads : u # t => phase'[u] = phase[u] /\ at'[u] = at[u]
         /\ phase'[t] \in {"loop", "hash", "offset", "digest", "done"}
         /\ at'[t] \in {at[t], at[t] + Stride}
         /\ at' \in [Threads -> Nat] /\ iter' \in [Threads -> Nat]
         /\ phase' \in [Threads -> {"loop", "hash", "offset", "digest", "done"}]
<1>0. /\ at \in [Threads -> Nat] /\ iter \in [Threads -> Nat]
      /\ phase \in [Threads -> {"loop", "hash", "offset", "digest", "done"}]
      /\ at[t] + Stride \in Nat /\ iter[t] + 1 \in Nat
  <2>1. TypeOK  BY KernelFacts
  <2>2. at[t] \in Nat /\ iter[t] \in Nat  BY <2>1 DEF TypeOK
  <2>3. Stride \in Nat  BY Threading
  <2> QED BY <2>1, <2>2, <2>3 DEF TypeOK
<1> USE <1>0 DEF Goto
<1>1. CASE Exhausted(t)  BY <1>1 DEF Exhausted
<1>2. CASE SeesFound(t)  BY <1>2 DEF SeesFound
<1>3. CASE GoesOn(t)  BY <1>3 DEF GoesOn
<1>4. CASE NoHit(t)  BY <1>4 DEF NoHit
<1>5. CASE Claim(t)  BY <1>5 DEF Claim
<1>6. CASE StoreOffset(t)  BY <1>6 DEF StoreOffset
<1>7. CASE StoreDigest(t)  BY <1>7 DEF StoreDigest
<1> QED BY <1>1, <1>2, <1>3, <1>4, <1>5, <1>6, <1>7 DEF ThreadStep

(* What a thread stores is an offset of the batch.                         *)
LEMMA KernelTypes ==
  ASSUME Inv, NEW t \in Threads, ThreadStep(t)
  PROVE  TypeOK'
<1>1. at[t] \in Offsets \/ phase[t] \in {"loop", "done"}
  BY KernelFacts DEF TypeOK, KernelInv, BoundInv, Writing
<1>2. res' \in [found : BOOLEAN, offset : Offsets, digest : Offsets \union {Unset}]
  <2> USE KernelFacts, <1>1 DEF TypeOK, At
  <2>1. CASE Exhausted(t)  BY <2>1 DEF Exhausted
  <2>2. CASE SeesFound(t)  BY <2>2 DEF SeesFound
  <2>3. CASE GoesOn(t)  BY <2>3 DEF GoesOn
  <2>4. CASE NoHit(t)  BY <2>4 DEF NoHit
  <2>5. CASE Claim(t)  BY <2>5 DEF Claim
  <2>6. CASE StoreOffset(t)  BY <2>6 DEF StoreOffset
  <2>7. CASE StoreDigest(t)  BY <2>7 DEF StoreDigest
  <2> QED BY <2>1, <2>2, <2>3, <2>4, <2>5, <2>6, <2>7 DEF ThreadStep
<1>3. tried' \subseteq Offsets
  <2>1. tried' = tried \/ (phase[t] = "hash" /\ tried' = tried \union {at[t]})
    BY DEF ThreadStep, Exhausted, SeesFound, GoesOn, NoHit, Claim, StoreOffset, StoreDigest, At
  <2> QED BY <2>1, <1>1, KernelFacts DEF TypeOK
<1> QED BY <1>2, <1>3, KernelFacts, KernelFrame DEF TypeOK

(* A thread stays in its lane.                                             *)
LEMMA LaneStep ==
  ASSUME Inv, NEW t \in Threads, ThreadStep(t)
  PROVE  LaneInv'
<1>1. at'[t] % Stride = t
  <2>1. at[t] % Stride = t  BY KernelFacts DEF KernelInv, LaneInv
  <2>2. (at[t] + Stride) % Stride = at[t] % Stride
    BY KernelFacts, Threading, NextInLane
  <2> QED BY <2>1, <2>2, KernelFrame
<1>2. \A u \in Threads : u # t => at'[u] % Stride = u
  BY KernelFacts, KernelFrame DEF KernelInv, LaneInv
<1> QED BY <1>1, <1>2 DEF LaneInv

(* The one offset a thread leaves behind it has been hashed.               *)
LEMMA SweepStep ==
  ASSUME Inv, NEW t \in Threads, ThreadStep(t)
  PROVE  SweepInv'
<1> SUFFICES ASSUME NEW o \in Within(batch), o < at'[o % Stride] PROVE o \in tried'
  BY KernelFacts DEF SweepInv, Within
<1>1. o \in Nat /\ o % Stride \in Threads  BY KernelFacts, Threading
<1>2. tried \subseteq tried'
  BY DEF ThreadStep, Exhausted, SeesFound, GoesOn, NoHit, Claim, StoreOffset, StoreDigest
<1>3. CASE o < at[o % Stride]
  BY <1>2, <1>3, KernelFacts DEF KernelInv, SweepInv
<1>4. CASE ~(o < at[o % Stride])
  <2>1. o % Stride = t /\ at'[t] = at[t] + Stride
    BY <1>1, <1>4, KernelFrame
  <2>2. at[t] <= o /\ o < at[t] + Stride  BY <1>1, <1>4, <2>1, KernelFacts
  <2>3. at[t] % Stride = o % Stride  BY <2>1, KernelFacts DEF KernelInv, LaneInv
  <2>4. at[t] = o  BY <1>1, <2>2, <2>3, KernelFacts, Threading, SameLane
  <2>5. at' # at
    <3>1. at[t] + Stride # at[t]  BY KernelFacts, Threading
    <3> QED BY <2>1, <3>1
  <2>6. NoHit(t)
    BY <2>5 DEF ThreadStep, Exhausted, SeesFound, GoesOn, Claim, StoreOffset, StoreDigest
  <2> QED BY <2>4, <2>6 DEF NoHit
<1> QED BY <1>3, <1>4

(* Nothing gets past the bound check that is not in the batch.             *)
LEMMA BoundStep ==
  ASSUME Inv, NEW t \in Threads, ThreadStep(t)
  PROVE  BoundInv'
<1>0. BoundInv /\ phase \in [Threads -> {"loop", "hash", "offset", "digest", "done"}]
  BY KernelFacts DEF KernelInv, TypeOK
<1>1. tried' \subseteq Within(batch)
  <2>1. tried' = tried \/ (phase[t] = "hash" /\ tried' = tried \union {at[t]})
    BY DEF ThreadStep, Exhausted, SeesFound, GoesOn, NoHit, Claim, StoreOffset, StoreDigest, At
  <2> QED BY <1>0, <2>1 DEF BoundInv
<1>2. phase'[t] \in {"hash", "offset", "digest"} => at'[t] \in Within(batch)
  <2> USE <1>0 DEF At, Goto, Writing, BoundInv
  <2>1. CASE Exhausted(t)  BY <2>1 DEF Exhausted
  <2>2. CASE SeesFound(t)  BY <2>2 DEF SeesFound
  <2>3. CASE GoesOn(t)
    BY <2>3, KernelFacts DEF GoesOn, InBatch, Within
  <2>4. CASE NoHit(t)  BY <2>4 DEF NoHit
  <2>5. CASE Claim(t)  BY <2>5 DEF Claim
  <2>6. CASE StoreOffset(t)  BY <2>6 DEF StoreOffset
  <2>7. CASE StoreDigest(t)  BY <2>7 DEF StoreDigest
  <2> QED BY <2>1, <2>2, <2>3, <2>4, <2>5, <2>6, <2>7 DEF ThreadStep
<1>3. \A u \in Threads \ {t} : phase'[u] \in {"hash", "offset", "digest"} => at'[u] \in Within(batch)
  BY <1>0, KernelFrame DEF BoundInv, Writing
<1> QED BY <1>1, <1>2, <1>3, KernelFacts DEF BoundInv, Within, Writing

(* How a step changes the result: a claim takes it when nobody has it, and *)
(* only the one writer stores to it.                                       *)
LEMMA ResultFrame ==
  ASSUME Inv, NEW t \in Threads, ThreadStep(t)
  PROVE  /\ res.found => res'.found
         /\ res'.found /\ ~res.found => /\ phase[t] = "hash" /\ phase'[t] = "offset"
                                        /\ at[t] \in batch.good
         /\ Writing(t)' => Writing(t) \/ (~res.found /\ res'.found)
         /\ phase'[t] = "digest" => /\ phase[t] = "offset" /\ at'[t] = at[t]
                                    /\ res'.offset = at[t]
         /\ Writing(t) /\ ~Writing(t)' => /\ phase[t] = "digest" /\ res'.digest = at[t]
                                          /\ res'.offset = res.offset
         /\ ~Writing(t) => res'.offset = res.offset /\ res'.digest = res.digest
         /\ Writing(t)' => at'[t] = at[t]
<1>0. /\ phase \in [Threads -> {"loop", "hash", "offset", "digest", "done"}]
      /\ res \in [found : BOOLEAN, offset : Offsets, digest : Offsets \union {Unset}]
  BY KernelFacts DEF TypeOK
<1> USE <1>0 DEF At, Goto, Writing
<1>1. CASE Exhausted(t)  BY <1>1 DEF Exhausted
<1>2. CASE SeesFound(t)  BY <1>2 DEF SeesFound
<1>3. CASE GoesOn(t)  BY <1>3 DEF GoesOn
<1>4. CASE NoHit(t)  BY <1>4 DEF NoHit
<1>5. CASE Claim(t)  BY <1>5 DEF Claim
<1>6. CASE StoreOffset(t)  BY <1>6 DEF StoreOffset
<1>7. CASE StoreDigest(t)  BY <1>7 DEF StoreDigest
<1> QED BY <1>1, <1>2, <1>3, <1>4, <1>5, <1>6, <1>7 DEF ThreadStep

(* A claim is won by one thread only.                                      *)
LEMMA WriterStep ==
  ASSUME Inv, NEW t \in Threads, ThreadStep(t)
  PROVE  OneWriter'
<1>1. \A u, v \in Threads : Writing(u) => res.found /\ (Writing(v) => v = u)
  BY KernelFacts DEF OneWriter, Writing
<1>2. \A u \in Threads \ {t} : Writing(u)' <=> Writing(u)
  BY KernelFrame DEF Writing
<1>3. \A u, v \in Threads : Writing(u)' => res'.found /\ (Writing(v)' => v = u)
  BY <1>1, <1>2, ResultFrame
<1> QED BY <1>3 DEF OneWriter, Writing

(* Only a hit is written, its offset before its digest.                    *)
LEMMA HitStep ==
  ASSUME Inv, NEW t \in Threads, ThreadStep(t)
  PROVE  HitInv'
<1>1. \A u \in Threads : Writing(u) => at[u] \in batch.good
  BY KernelFacts DEF KernelInv, HitInv
<1>2. \A u \in Threads \ {t} : (Writing(u)' <=> Writing(u)) /\ at'[u] = at[u] /\ phase'[u] = phase[u]
  BY KernelFrame DEF Writing
<1>3. \A u \in Threads : Writing(u)' => at'[u] \in batch.good
  BY <1>1, <1>2, ResultFrame
<1>4. \A u \in Threads : phase'[u] = "digest" => res'.offset = at'[u]
  <2>1. CASE phase'[t] = "digest"
    <3>1. Writing(t) /\ res'.offset = at'[t]  BY <2>1, ResultFrame DEF Writing
    <3>2. \A u \in Threads \ {t} : phase'[u] # "digest"
      BY <1>2, <3>1, KernelFacts DEF OneWriter, Writing
    <3> QED BY <3>1, <3>2
  <2>2. CASE phase'[t] # "digest"
    <3> SUFFICES ASSUME NEW u \in Threads \ {t}, phase[u] = "digest" PROVE res'.offset = at[u]
      BY <1>2, <2>2
    <3>1. res.offset = at[u]  BY KernelFacts DEF KernelInv, HitInv
    <3>2. ~Writing(t)  BY KernelFacts DEF OneWriter, Writing
    <3> QED BY <3>1, <3>2, ResultFrame
  <2> QED BY <2>1, <2>2
<1> QED BY <1>3, <1>4, KernelFacts DEF HitInv

(* A step without a claim neither hides a hit nor ends a thread early.     *)
LEMMA MissStep ==
  ASSUME Inv, NEW t \in Threads, ThreadStep(t)
  PROVE  MissInv'
<1> SUFFICES ASSUME ~res'.found
             PROVE  /\ tried' \intersect batch.good = {}
                    /\ \A u \in Threads : phase'[u] = "done" => batch.count <= at'[u]
  BY KernelFacts DEF MissInv
<1>1. ~res.found  BY ResultFrame
<1>2. /\ tried \intersect batch.good = {}
      /\ \A u \in Threads : phase[u] = "done" => batch.count <= at[u]
  BY <1>1, KernelFacts DEF KernelInv, MissInv
<1>3. phase \in [Threads -> {"loop", "hash", "offset", "digest", "done"}]
      /\ at \in [Threads -> Nat] /\ batch.count \in Nat
      /\ res \in [found : BOOLEAN, offset : Offsets, digest : Offsets \union {Unset}]
  BY KernelFacts DEF TypeOK
<1>4. ~Writing(t)  BY <1>1, KernelFacts DEF OneWriter, Writing
<1>5. tried' \intersect batch.good = {} /\ (phase'[t] = "done" => batch.count <= at'[t])
  <2> USE <1>1, <1>2, <1>3, <1>4 DEF At, Goto, Writing
  <2>1. CASE Exhausted(t)  BY <2>1 DEF Exhausted, InBatch
  <2>2. CASE SeesFound(t)  BY <2>2 DEF SeesFound
  <2>3. CASE GoesOn(t)  BY <2>3 DEF GoesOn
  <2>4. CASE NoHit(t)  BY <2>4 DEF NoHit
  <2>5. CASE Claim(t)  BY <2>5 DEF Claim
  <2>6. CASE StoreOffset(t)  BY <2>6 DEF StoreOffset
  <2>7. CASE StoreDigest(t)  BY <2>7 DEF StoreDigest
  <2> QED BY <2>1, <2>2, <2>3, <2>4, <2>5, <2>6, <2>7 DEF ThreadStep
<1>6. \A u \in Threads \ {t} : phase'[u] = "done" => batch.count <= at'[u]
  BY <1>2, KernelFrame
<1> QED BY <1>5, <1>6

(* The writer leaves the result of one hit, and nobody touches it later.   *)
LEMMA ResultStep ==
  ASSUME Inv, NEW t \in Threads, ThreadStep(t)
  PROVE  ResultInv'
<1> SUFFICES ASSUME res'.found, \A u \in Threads : ~Writing(u)'
             PROVE  /\ res'.offset = res'.digest
                    /\ res'.offset \in Within(batch) \intersect batch.good
  BY KernelFacts DEF ResultInv, Within
<1>1. res.found  BY ResultFrame DEF Writing
<1>2. \A u \in Threads \ {t} : ~Writing(u)  BY KernelFrame DEF Writing
<1>3. CASE Writing(t)
  <2>1. phase[t] = "digest" /\ res'.digest = at[t] /\ res'.offset = res.offset
    BY <1>3, ResultFrame
  <2>2. res.offset = at[t] /\ at[t] \in Within(batch) \intersect batch.good
    BY <1>3, <2>1, KernelFacts DEF KernelInv, HitInv, BoundInv
  <2> QED BY <2>1, <2>2
<1>4. CASE ~Writing(t)
  BY <1>1, <1>2, <1>4, ResultFrame, KernelFacts DEF KernelInv, ResultInv
<1> QED BY <1>3, <1>4

(* No step of the kernel disturbs the invariant.                           *)
LEMMA KernelStepInv ==
  ASSUME Inv, NEW t \in Threads, ThreadStep(t)
  PROVE  Inv'
<1>1. KernelInv'
  BY LaneStep, SweepStep, BoundStep, HitStep, MissStep, ResultStep DEF KernelInv
<1>2. HostInv'  BY KernelFacts DEF HostInv
<1> QED BY <1>1, <1>2, KernelTypes, WriterStep DEF Inv

-----------------------------------------------------------------------------
(* Nor does a step that changes nothing.                                   *)
LEMMA StutterInv == Inv /\ UNCHANGED vars => Inv'
<1> SUFFICES ASSUME Inv, UNCHANGED vars PROVE Inv'  OBVIOUS
<1> USE DEF vars
<1>1. TypeOK'  BY DEF Inv, TypeOK
<1>2. OneWriter'  BY DEF Inv, OneWriter
<1>3. HostInv'  BY DEF Inv, HostInv
<1>4. host' = "sync" => KernelInv'
  BY DEF Inv, KernelInv, LaneInv, SweepInv, BoundInv, HitInv, MissInv, ResultInv, Writing, Within
<1> QED BY <1>1, <1>2, <1>3, <1>4 DEF Inv

(* The invariant is inductive.                                             *)
LEMMA StepInv == Inv /\ [Next]_vars => Inv'
<1> SUFFICES ASSUME Inv, [Next]_vars PROVE Inv'  OBVIOUS
<1>1. CASE HostAction  BY <1>1, HostStepInv
<1>2. ASSUME NEW t \in Threads, ThreadStep(t) PROVE Inv'  BY <1>2, KernelStepInv
<1>3. CASE UNCHANGED vars  BY <1>3, StutterInv
<1> QED BY <1>1, <1>2, <1>3 DEF Next, HostStep, HostAction

(* The invariant of the worker (worker.cu, main and search_kernel), for    *)
(* every batch, every number of threads and every order of their steps.    *)
THEOREM Invariance == Spec => []Inv
<1>1. Init => Inv  BY InitInv
<1>2. Inv /\ [Next]_vars => Inv'  BY StepInv
<1> QED BY <1>1, <1>2, PTL DEF Spec

(* All variables keep their types: what is copied back into the reply      *)
(* always is an offset of the batch's range.                               *)
THEOREM TypeCorrect == Spec => []TypeOK
<1>1. Inv => TypeOK  BY DEF Inv
<1> QED BY <1>1, Invariance, PTL

(* The atomicCAS on found gives the result to one thread at a time.        *)
THEOREM SingleWriter == Spec => []OneWriter
<1>1. Inv => OneWriter  BY DEF Inv
<1> QED BY <1>1, Invariance, PTL

(* Each thread has left its whole lane behind it.                          *)
LEMMA MissLemma == Inv => MissTriedAll
<1> SUFFICES ASSUME Inv, host = "sync"
             PROVE  /\ tried \subseteq Within(batch)
                    /\ KernelOver /\ ~res.found => Within(batch) \subseteq tried
  BY DEF MissTriedAll
<1>1. KernelInv /\ TypeOK  BY DEF Inv
<1>2. tried \subseteq Within(batch)  BY <1>1 DEF KernelInv, BoundInv
<1>3. ASSUME KernelOver, ~res.found, NEW o \in Within(batch) PROVE o \in tried
  <2>1. o \in Nat /\ o < batch.count /\ batch.count \in Nat
    BY <1>1, BatchTypes DEF TypeOK, Within
  <2>2. o % Stride \in Threads  BY <2>1, Threading
  <2>3. batch.count <= at[o % Stride] /\ at[o % Stride] \in Nat
    BY <1>1, <1>3, <2>2 DEF KernelInv, MissInv, KernelOver, TypeOK
  <2>4. o < at[o % Stride]  BY <2>1, <2>3
  <2> QED BY <1>1, <1>3, <2>4 DEF KernelInv, SweepInv
<1> QED BY <1>2, <1>3

(* A launch that ends without a hit has hashed the whole batch, and no     *)
(* launch hashes anything else (search_kernel).                            *)
THEOREM NothingSkipped == Spec => []MissTriedAll
<1> QED BY MissLemma, Invariance, PTL

-----------------------------------------------------------------------------
(* Both modules mean the same lines and batches.                           *)
LEMMA SameProtocol ==
  /\ Promise!NoBatch = NoBatch /\ Promise!Batches = Batches
  /\ Promise!NoReply = NoReply /\ Promise!Error = Error /\ Promise!Digest = Digest
  /\ \A o, d : Promise!Hit(o, d) = Hit(o, d)
  /\ \A n : Promise!Miss(n) = Miss(n)
  /\ \A b : Promise!Within(b) = Within(b)
BY DEF NoBatch, Promise!NoBatch, Batches, Promise!Batches, Offsets, Promise!Offsets,
       NoReply, Promise!NoReply, Error, Promise!Error, Digest, Promise!Digest,
       Hit, Promise!Hit, Miss, Promise!Miss, Within, Promise!Within

(* The line written after a launch is one that Search allows.              *)
LEMMA AnswerAllowed == Inv /\ ReadResult => Promise!AnswerHit \/ Promise!AnswerMiss
<1> SUFFICES ASSUME Inv, ReadResult PROVE Promise!AnswerHit \/ Promise!AnswerMiss
  OBVIOUS
<1>1. host = "sync" /\ KernelOver /\ batch' = NoBatch
      /\ reply' = IF res.found THEN Hit(res.offset, res.digest) ELSE Miss(batch.count)
  BY DEF ReadResult, Synchronized
<1>2. KernelInv /\ Promise!Done  BY <1>1, SameProtocol DEF Inv, HostInv, Promise!Done
<1>3. CASE res.found
  <2>1. \A t \in Threads : ~Writing(t)  BY <1>1 DEF KernelOver, Writing
  <2>2. res.offset = res.digest /\ res.offset \in Within(batch) \intersect batch.good
    BY <1>2, <1>3, <2>1 DEF KernelInv, ResultInv
  <2>3. reply' = Hit(res.offset, res.offset)  BY <1>1, <1>3, <2>2
  <2> QED BY <1>2, <2>2, <2>3, SameProtocol DEF Promise!AnswerHit
<1>4. CASE ~res.found
  <2>1. Within(batch) = tried  BY <1>1, <1>4, MissLemma DEF MissTriedAll
  <2>2. Within(batch) \intersect batch.good = {}
    BY <1>2, <1>4, <2>1 DEF KernelInv, MissInv
  <2> QED BY <1>1, <1>2, <1>4, <2>2, SameProtocol DEF Promise!AnswerMiss
<1> QED BY <1>3, <1>4

(* Every step is a step of Search or none.                                 *)
LEMMA StepRefines == Inv /\ [Next]_vars => [Promise!Next]_<<batch, reply>>
<1> SUFFICES ASSUME Inv, [Next]_vars PROVE [Promise!Next]_<<batch, reply>>  OBVIOUS
<1>0. HostInv  BY DEF Inv
<1>1. CASE OtherLine
  BY <1>0, <1>1, SameProtocol DEF OtherLine, HostInv, Promise!Next, Promise!AnswerOther
<1>2. CASE ParseJob
  BY <1>0, <1>2, SameProtocol DEF ParseJob, HostInv, Promise!Next, Promise!Take
<1>3. CASE QuitLine  BY <1>3 DEF QuitLine
<1>4. CASE CopyJob  BY <1>4 DEF CopyJob
<1>5. CASE Launch  BY <1>5 DEF Launch
<1>6. CASE ReadResult  BY <1>6, AnswerAllowed DEF Promise!Next
<1>7. CASE CudaFails
  BY <1>0, <1>7, SameProtocol DEF CudaFails, HostInv, Promise!Next, Promise!AnswerError, Promise!Done
<1>8. ASSUME NEW t \in Threads, ThreadStep(t) PROVE UNCHANGED <<batch, reply>>
  BY <1>8, KernelFacts
<1>9. CASE UNCHANGED vars  BY <1>9 DEF vars
<1> QED BY <1>1, <1>2, <1>3, <1>4, <1>5, <1>6, <1>7, <1>8, <1>9 DEF Next, HostStep

(* The worker implements Search (worker.cu): a hit carries the nonce and   *)
(* the digest of one offset of this batch that meets the target, a miss    *)
(* means that none does, and only lines that are no job are answered       *)
(* without one.                                                            *)
THEOREM KeepsPromise == Spec => Searches
<1>1. Init => Promise!Init  BY SameProtocol DEF Init, Promise!Init
<1>2. Inv /\ [Next]_vars => [Promise!Next]_<<batch, reply>>  BY StepRefines
<1> QED BY <1>1, <1>2, Invariance, PTL DEF Spec, Searches, Promise!Spec

=============================================================================
