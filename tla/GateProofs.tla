----------------------------- MODULE GateProofs ----------------------------
(***************************************************************************)
(* Proofs about Gate: the wallet that passed preflight lasts, a gate       *)
(* passes what pays and refuses for cause, and the verdict of worth_it.py  *)
(* never divides by nothing, whatever the chain, the market and the box    *)
(* are like.                                                               *)
(***************************************************************************)
EXTENDS Gate, TLAPS

-----------------------------------------------------------------------------
(* What the variables range over.                                          *)
Offers == [rate : Nat, ghs : Nat]

ChainInv == snap \in Snaps /\ sale \in [sale : Sales, fee : Fees]

OfferInv == offer \in Offers

MoneyInv ==
  /\ balance \in Nat
  /\ spent \in [cats : Nat, gas : Nat]
  /\ spent.cats <= TargetMints

(* What is left covers the cats still wanted and the part of the reserve   *)
(* that gas has not taken yet.                                             *)
CoverInv ==
  phase # "preflight" /\ phase # "over" =>
    balance + spent.gas >= MaxPrice * (TargetMints - spent.cats) + Reserve

FreshInv == phase = "preflight" => spent.cats = 0 /\ spent.gas = 0

PurseInv == ChainInv /\ MoneyInv /\ CoverInv /\ FreshInv

LEMMA SnapFacts ==
  ASSUME snap \in Snaps
  PROVE  /\ snap.target \in Nat /\ snap.price \in Nat /\ snap.gas \in Nat
         /\ snap.minted \in Int
         /\ GasCost(snap) \in Nat
PROOF
<1>1. snap.target \in Nat /\ snap.price \in Nat /\ snap.gas \in Nat
  BY GateAssumption DEF Snaps
<1>3. snap.minted \in Int
  BY EconomicsAssumption DEF Snaps
<1>2. GasCost(snap) \in Nat
  BY <1>1, EconomicsAssumption DEF GasCost
<1> QED BY <1>1, <1>2, <1>3

LEMMA OneCatLess ==
  ASSUME NEW n \in Nat, NEW m \in Nat
  PROVE  m * (n - 0) = m * n /\ m * (n + 1) = m * n + m /\ m * n \in Nat
  OBVIOUS

LEMMA PurseInit == Init => PurseInv
  BY GateAssumption DEF Init, PurseInv, ChainInv, MoneyInv, CoverInv, FreshInv, Snaps

LEMMA PayStep ==
  ASSUME PurseInv, NEW price \in Nat, NEW cats \in 0 .. 1, Pay(price, cats),
         price <= snap.price, price <= cats * MaxPrice
  PROVE  PurseInv'
PROOF
<1>0. /\ MaxPrice \in Nat /\ TargetMints \in Nat /\ Reserve \in Nat
      /\ snap.price \in Nat /\ GasCost(snap) \in Nat
  BY SnapFacts, GateAssumption DEF PurseInv, ChainInv
<1>1. PICK gas \in 0 .. GasCost(snap) :
        /\ phase = "mine" /\ spent.cats < TargetMints /\ balance >= Cost
        /\ balance' = balance - (price + gas)
        /\ spent' = [cats |-> spent.cats + cats, gas |-> spent.gas + gas]
        /\ UNCHANGED <<snap, sale, phase>>
  BY DEF Pay, Wanted
<1>2. /\ balance \in Nat /\ spent.cats \in Nat /\ spent.gas \in Nat
      /\ balance + spent.gas >= MaxPrice * (TargetMints - spent.cats) + Reserve
  BY <1>1 DEF PurseInv, MoneyInv, CoverInv
<1>3. spent'.cats = spent.cats + cats /\ spent'.gas = spent.gas + gas
  BY <1>1
<1>4. Cost \in Nat /\ price + gas <= Cost /\ gas \in Nat
  BY <1>0 DEF Cost
<1>5. MoneyInv'
  <2>1. balance' \in Nat
    BY <1>1, <1>2, <1>4
  <2>2. spent' \in [cats : Nat, gas : Nat]
    BY <1>0, <1>1, <1>2
  <2>3. spent'.cats <= TargetMints
    BY <1>0, <1>1, <1>2, <1>3
  <2> QED BY <2>1, <2>2, <2>3 DEF MoneyInv
<1>6. CoverInv'
  <2> DEFINE left == TargetMints - spent.cats - cats
  <2>1. left \in Nat /\ TargetMints - spent.cats = left + cats
    BY <1>0, <1>1, <1>2
  <2>2. MaxPrice * (left + cats) = MaxPrice * left + cats * MaxPrice /\ MaxPrice * left \in Nat
    <3>1. CASE cats = 0
      BY <1>0, <2>1, <3>1, OneCatLess
    <3>2. CASE cats = 1
      BY <1>0, <2>1, <3>2, OneCatLess
    <3> QED BY <3>1, <3>2
  <2>3. TargetMints - spent'.cats = left
    BY <1>0, <1>2, <1>3
  <2>4. balance' + spent'.gas = balance + spent.gas - price
    BY <1>0, <1>1, <1>2, <1>3, <1>4
  <2>5. cats * MaxPrice \in Nat
    BY <1>0
  <2>6. balance + spent.gas >= MaxPrice * left + cats * MaxPrice + Reserve
    BY <1>2, <2>1, <2>2
  <2> HIDE DEF left
  <2>7. balance' + spent'.gas >= MaxPrice * left + Reserve
    BY <1>0, <1>2, <2>2, <2>4, <2>5, <2>6
  <2> QED BY <2>3, <2>7 DEF CoverInv
<1>7. ChainInv' /\ FreshInv'
  BY <1>1 DEF PurseInv, ChainInv, FreshInv
<1> QED BY <1>5, <1>6, <1>7 DEF PurseInv

LEMMA PurseStep ==
  ASSUME PurseInv, [Next]_vars
  PROVE  PurseInv'
PROOF
<1>0. MaxPrice \in Nat /\ TargetMints \in Nat /\ Reserve \in Nat
  BY GateAssumption
<1>1. CASE ChainMoves
  <2>1. snap' \in Snaps /\ UNCHANGED <<sale, phase, balance, spent>>
    BY <1>1 DEF ChainMoves
  <2> QED BY <2>1 DEF PurseInv, ChainInv, MoneyInv, CoverInv, FreshInv
<1>2. CASE Preflight
  <2>1. /\ phase = "preflight"
        /\ phase' = IF balance < Need THEN "over" ELSE "gate"
        /\ UNCHANGED <<snap, sale, balance, spent>>
    BY <1>2 DEF Preflight, GoTo
  <2>2. balance \in Nat /\ spent.cats = 0 /\ spent.gas = 0
    BY <2>1 DEF PurseInv, MoneyInv, FreshInv
  <2>3. phase' = "gate" => balance >= MaxPrice * TargetMints + Reserve
    <3>1. MaxPrice * TargetMints \in Nat
      BY <1>0, OneCatLess
    <3> QED BY <1>0, <2>1, <2>2, <3>1 DEF Need
  <2>4. CoverInv'
    <3>1. MaxPrice * (TargetMints - 0) = MaxPrice * TargetMints
      BY <1>0, OneCatLess
    <3> QED BY <2>1, <2>2, <2>3, <3>1 DEF CoverInv
  <2>5. ChainInv' /\ MoneyInv' /\ FreshInv'
    BY <2>1 DEF PurseInv, ChainInv, MoneyInv, FreshInv
  <2> QED BY <2>4, <2>5 DEF PurseInv
<1>3. CASE FirstGate \/ Rent \/ Setup \/ SecondGate \/ Stops
  <2>1. phase # "preflight" /\ phase # "over" /\ phase' # "preflight"
    BY <1>3 DEF FirstGate, SecondGate, Closed, Decide, Rent, Setup, Stops, GoTo
  <2>2. UNCHANGED <<snap, sale, balance, spent>>
    BY <1>3 DEF FirstGate, SecondGate, Closed, Decide, Rent, Setup, Stops, GoTo
  <2> QED BY <2>1, <2>2 DEF PurseInv, ChainInv, MoneyInv, CoverInv, FreshInv
<1>4. CASE Mint
  <2>1. snap.price \in Nat /\ snap.price <= 1 * MaxPrice /\ Pay(snap.price, 1)
    BY <1>0, <1>4, SnapFacts DEF Mint, Pay, Wanted, PurseInv, ChainInv
  <2> QED BY <2>1, PayStep
<1>5. CASE Revert
  <2>1. Pay(0, 0) /\ 0 <= snap.price /\ 0 <= 0 * MaxPrice
    BY <1>0, <1>5, SnapFacts DEF Revert, PurseInv, ChainInv
  <2> QED BY <2>1, PayStep
<1>6. CASE UNCHANGED vars
  BY <1>6 DEF vars, PurseInv, ChainInv, MoneyInv, CoverInv, FreshInv
<1> QED BY <1>1, <1>2, <1>3, <1>4, <1>5, <1>6 DEF Next

(* A wallet that preflight let through (autopilot.py) pays for every cat   *)
(* up to the target: it is found insolvent (coordinator.py) only once gas  *)
(* has taken more than the reserve, however prices and gas move.           *)
THEOREM WalletOutlastsTarget == Spec => []WalletLasts
<1>1. PurseInv => WalletLasts
  <2> SUFFICES ASSUME PurseInv, Insolvent
               PROVE  spent.gas + GasCost(snap) > Reserve
    BY DEF WalletLasts
  <2>1. /\ MaxPrice \in Nat /\ TargetMints \in Nat /\ Reserve \in Nat
        /\ snap.price \in Nat /\ GasCost(snap) \in Nat
    BY SnapFacts, GateAssumption DEF PurseInv, ChainInv
  <2>2. /\ phase = "mine" /\ spent.cats < TargetMints /\ snap.price <= MaxPrice
        /\ balance < snap.price + GasCost(snap)
    BY DEF Insolvent, Wanted, Cost
  <2>3. /\ balance \in Nat /\ spent.cats \in Nat /\ spent.gas \in Nat
        /\ balance + spent.gas >= MaxPrice * (TargetMints - spent.cats) + Reserve
    BY <2>2 DEF PurseInv, MoneyInv, CoverInv
  <2>4. MaxPrice * (TargetMints - spent.cats) >= MaxPrice
    <3> DEFINE left == TargetMints - spent.cats - 1
    <3>1. left \in Nat /\ TargetMints - spent.cats = left + 1
      BY <2>1, <2>2, <2>3
    <3> HIDE DEF left
    <3>2. MaxPrice * (left + 1) = MaxPrice * left + MaxPrice /\ MaxPrice * left \in Nat
      BY <2>1, <3>1, OneCatLess
    <3>3. MaxPrice * (left + 1) >= MaxPrice
      BY <2>1, <3>2
    <3> QED BY <3>1, <3>3
  <2>5. MaxPrice * (TargetMints - spent.cats) \in Int
    BY <2>1, <2>3
  <2> QED BY <2>1, <2>2, <2>3, <2>4, <2>5
<1> QED BY PurseInit, PurseStep, <1>1, PTL DEF Spec

-----------------------------------------------------------------------------
Verdicts == {"STOP", "NOT WORTH IT", "MARGINAL", "WORTH IT"}

Rules == {"remaining", "margin", "profit", "price"}

Readings == [snap : Snaps, ghs : Nat, rate : Nat, sale : Sales, fee : Fees]

Answers == [reading : Readings, problems : SUBSET Rules, verdict : Verdicts]

(* Nothing brings a profit that nothing is left of: with no net sale the   *)
(* surplus is never above zero, so the division by it is never reached.    *)
LEMMA SignOfProduct ==
  ASSUME NEW a \in Nat, NEW b \in Nat
  PROVE  a * b \in Nat /\ a * (0 - b) <= 0
  OBVIOUS

LEMMA NoSaleNoSurplus ==
  ASSUME NEW r, r.snap \in Snaps, r.snap.target > 0, r.ghs \in Nat, r.rate \in Nat,
         GasCost(r.snap) \in Nat, r.snap.price \in Nat, r.snap.target \in Nat,
         NetSale(r) = 0
  PROVE  Surplus(r) <= 0
PROOF
<1>1. ExpectedHashes(r.snap) \in Nat
  BY EconomicsAssumption DEF ExpectedHashes
<1>2. WorkPerCat(r) \in Nat
  <2>1. PlanSeconds \in Nat /\ r.ghs * PlanSeconds \in Nat
    BY EconomicsAssumption, SignOfProduct
  <2> QED BY <1>1, <2>1 DEF WorkPerCat
<1>3. Yield(r) \in Nat
  BY EconomicsAssumption, SignOfProduct DEF Yield
<1> DEFINE cost == 100 * (r.snap.price + GasCost(r.snap))
<1>4. cost \in Nat /\ MarginBeforeCompute(r) = 0 - cost
  BY DEF MarginBeforeCompute
<1> HIDE DEF cost
<1>5. Yield(r) * MarginBeforeCompute(r) <= 0 /\ Yield(r) * MarginBeforeCompute(r) \in Int
  BY <1>3, <1>4, SignOfProduct
<1>6. 100 * r.rate \in Nat /\ 100 * r.rate * WorkPerCat(r) \in Nat
  BY <1>2, SignOfProduct
<1> QED BY <1>5, <1>6 DEF Surplus

(* The gates so far have all said something.                               *)
AnswersInv == ChainInv /\ OfferInv /\ seen \in Seq(Answers)

LEMMA GateAnswers ==
  ASSUME ChainInv, OfferInv, snap.target > 0
  PROVE  [reading |-> Reading, problems |-> Problems(Reading),
          verdict |-> Verdict(Reading)] \in Answers
PROOF
<1>1. Reading \in Readings
  BY DEF Reading, Readings, ChainInv, OfferInv, Offers
<1>2. Problems(Reading) \in SUBSET Rules
  BY DEF Problems, Rules
<1>3. Remaining(Reading) \in Int /\ Surplus(Reading) \in Int /\ NetSale(Reading) \in Int
  <2>1. /\ snap.target \in Nat /\ snap.price \in Nat /\ snap.minted \in Int
        /\ GasCost(snap) \in Nat /\ Reading.snap = snap
    BY SnapFacts DEF ChainInv, Reading
  <2>2. Reading.sale \in Int /\ Reading.fee \in Int
    <3>1. Reading.sale \in Sales
      BY <1>1 DEF Readings
    <3>2. Reading.fee \in Fees
      BY <1>1 DEF Readings
    <3>3. Reading.sale \in Nat
      BY <3>1, GateAssumption
    <3>4. Reading.fee \in Nat
      BY <3>2, GateAssumption
    <3> QED BY <3>3, <3>4
  <2>3. NetSale(Reading) \in Int
    BY <2>2 DEF NetSale
  <2>4. MarginBeforeCompute(Reading) \in Int
    BY <2>1, <2>3 DEF MarginBeforeCompute
  <2>5. Reading.ghs \in Int /\ Reading.rate \in Int
    BY <1>1 DEF Readings
  <2>6. ExpectedHashes(Reading.snap) \in Int
    BY <2>1, EconomicsAssumption DEF ExpectedHashes
  <2>7. WorkPerCat(Reading) \in Int
    BY <2>5, <2>6, EconomicsAssumption DEF WorkPerCat
  <2>8. Yield(Reading) \in Int
    BY <2>5, EconomicsAssumption DEF Yield
  <2>9. Surplus(Reading) \in Int
    BY <2>4, <2>5, <2>7, <2>8 DEF Surplus
  <2>10. Remaining(Reading) \in Int
    BY <2>1, EconomicsAssumption DEF Remaining
  <2> QED BY <2>3, <2>9, <2>10
<1>4. NetSale(Reading) = 0 => Surplus(Reading) <= 0
  <2>1. /\ Reading.snap = snap /\ Reading.ghs \in Nat /\ Reading.rate \in Nat
    BY <1>1 DEF Reading, Readings
  <2>2. /\ snap \in Snaps /\ GasCost(snap) \in Nat
        /\ snap.price \in Nat /\ snap.target \in Nat
    BY SnapFacts DEF ChainInv
  <2> QED BY <2>1, <2>2, NoSaleNoSurplus
<1>5. Verdict(Reading) \in Verdicts
  <2>1. CASE Remaining(Reading) <= 0
    BY <2>1 DEF Verdict, Verdicts
  <2>2. CASE Remaining(Reading) > 0 /\ Surplus(Reading) <= 0
    <3>1. ~(Remaining(Reading) <= 0)
      BY <1>3, <2>2
    <3> QED BY <2>2, <3>1 DEF Verdict, Verdicts
  <2>3. CASE Remaining(Reading) > 0 /\ Surplus(Reading) > 0
    <3>1. ~(Remaining(Reading) <= 0) /\ ~(Surplus(Reading) <= 0) /\ NetSale(Reading) # 0
      BY <1>3, <1>4, <2>3
    <3>2. Verdict(Reading) = Share(Reading)
      BY <3>1 DEF Verdict
    <3>3. Share(Reading) \in {"MARGINAL", "WORTH IT"}
      BY <3>1 DEF Share
    <3> QED BY <3>2, <3>3 DEF Verdicts
  <2> QED BY <1>3, <2>1, <2>2, <2>3
<1> QED BY <1>1, <1>2, <1>5 DEF Answers

LEMMA AnswersStep ==
  ASSUME AnswersInv, [Next]_vars
  PROVE  AnswersInv'
PROOF
<1> USE DEF AnswersInv, ChainInv, OfferInv
<1>1. CASE ChainMoves
  BY <1>1 DEF ChainMoves
<1>2. CASE Preflight \/ Stops \/ Closed("gate") \/ Closed("regate")
  BY <1>2 DEF Preflight, Stops, Closed, GoTo
<1>3. ASSUME NEW p, NEW next, Decide(p, next)
      PROVE  AnswersInv'
  <2>1. [reading |-> Reading, problems |-> Problems(Reading),
         verdict |-> Verdict(Reading)] \in Answers
    BY <1>3, GateAnswers DEF Decide
  <2>2. seen' \in Seq(Answers)
    BY <1>3, <2>1 DEF Decide
  <2> QED BY <1>3, <2>2 DEF Decide, GoTo
<1>4. CASE Rent
  BY <1>4, GateAssumption DEF Rent, GoTo, Offers
<1>5. CASE Setup
  BY <1>5, GateAssumption DEF Setup, GoTo, Offers
<1>6. CASE Mint \/ Revert
  <2>1. seen' = <<>> /\ UNCHANGED <<snap, sale, offer>>
    BY <1>6 DEF Mint, Revert, Pay
  <2> QED BY <2>1
<1>7. CASE UNCHANGED vars
  BY <1>7 DEF vars
<1> QED BY <1>1, <1>2, <1>3, <1>4, <1>5, <1>6, <1>7 DEF Next, FirstGate, SecondGate

(* worth_it.py divides by what a sale leaves after fees; it only gets      *)
(* there with a profit, and there is none without a sale, so no reading of *)
(* an open mint makes it raise.                                            *)
THEOREM NeverDividesByNothing == Spec => []VerdictDefined
<1>1. Init => AnswersInv
  <2> SUFFICES ASSUME Init PROVE AnswersInv
    OBVIOUS
  <2>1. ChainInv
    BY PurseInit DEF PurseInv
  <2>2. OfferInv
    BY GateAssumption DEF Init, OfferInv, Offers
  <2>3. seen \in Seq(Answers)
    BY DEF Init
  <2> QED BY <2>1, <2>2, <2>3 DEF AnswersInv
<1>2. AnswersInv => VerdictDefined
  <2> SUFFICES ASSUME AnswersInv, NEW i \in 1 .. Len(seen)
               PROVE  seen[i].verdict # "raises"
    BY DEF VerdictDefined
  <2>1. seen[i] \in Answers
    BY DEF AnswersInv
  <2> QED BY <2>1 DEF Answers, Verdicts
<1> QED BY <1>1, <1>2, AnswersStep, PTL DEF Spec

-----------------------------------------------------------------------------
(* Both gates are one function, and a reading that is no worse than one it *)
(* let through is let through.                                             *)
LEMMA Products ==
  ASSUME NEW a \in Nat, NEW b \in Nat, NEW c \in Nat, NEW d \in Nat,
         a <= c, b <= d
  PROVE  a * b <= c * d /\ a * b \in Nat /\ c * d \in Nat
PROOF
<1>1. PICK i \in Nat : c = a + i
  <2>1. c - a \in Nat /\ c = a + (c - a)
    OBVIOUS
  <2> QED BY <2>1
<1>2. PICK j \in Nat : d = b + j
  <2>1. d - b \in Nat /\ d = b + (d - b)
    OBVIOUS
  <2> QED BY <2>1
<1>3. c * d = a * b + a * j + i * b + i * j
  BY <1>1, <1>2
<1>4. a * b \in Nat /\ a * j \in Nat /\ i * b \in Nat /\ i * j \in Nat /\ c * d \in Nat
  BY <1>1, <1>2, SignOfProduct
<1> QED BY <1>3, <1>4

LEMMA SmallerQuotient ==
  ASSUME NEW n \in Nat, NEW t \in Nat \ {0}, NEW u \in Nat, t <= u
  PROVE  n \div u <= n \div t /\ n \div u \in Nat /\ n \div t \in Nat
PROOF
<1> DEFINE p == n \div t
           q == n \div u
<1>1. /\ p \in Nat /\ n < t * p + t
      /\ q \in Nat /\ u * q <= n
  OBVIOUS
<1> HIDE DEF p, q
<1>2. t * q <= u * q /\ t * q \in Nat /\ u * q \in Nat
  BY <1>1, Products
<1>3. t * q < t * p + t
  <2>1. t * p \in Nat
    BY <1>1, SignOfProduct
  <2> QED BY <1>1, <1>2, <2>1
<1>4. ASSUME p < q PROVE FALSE
  <2>1. t * (p + 1) <= t * q
    BY <1>1, <1>4, Products
  <2>2. t * (p + 1) = t * p + t
    BY <1>1
  <2> QED BY <1>1, <1>2, <1>3, <2>1, <2>2, SignOfProduct
<1>5. q <= p
  BY <1>1, <1>4
<1> QED BY <1>1, <1>5 DEF p, q

(* g hashes per second at a margin of m per cat, c per second of compute   *)
(* and e hashes of the others: more speed and margin, less cost and work   *)
(* keep a profit a profit.                                                 *)
LEMMA ProfitKept ==
  ASSUME NEW h \in Nat, NEW p \in Nat,
         NEW g \in Nat \ {0}, NEW g2 \in Nat, g <= g2,
         NEW m \in Int, NEW m2 \in Int, m <= m2,
         NEW c \in Nat, NEW c2 \in Nat, c2 <= c,
         NEW e \in Nat, NEW e2 \in Nat, e2 <= e,
         NEW least \in 0 .. 1,
         h * g * m - c * (e + g * p) >= least
  PROVE  h * g2 * m2 - c2 * (e2 + g2 * p) >= least
PROOF
<1> DEFINE k == h * m - c * p
           k2 == h * m2 - c2 * p
<1>1. k \in Int /\ k2 \in Int
  OBVIOUS
<1>2. k <= k2
  <2>1. PICK d \in Nat : m2 = m + d
    <3>1. m2 - m \in Nat /\ m2 = m + (m2 - m)
      OBVIOUS
    <3> QED BY <3>1
  <2>2. h * m2 = h * m + h * d /\ h * d \in Nat /\ h * m \in Int
    BY <2>1
  <2>3. c2 * p <= c * p /\ c2 * p \in Nat /\ c * p \in Nat
    BY Products
  <2> QED BY <2>2, <2>3
<1>3. h * g * m - c * (e + g * p) = g * k - c * e
  OBVIOUS
<1>4. h * g2 * m2 - c2 * (e2 + g2 * p) = g2 * k2 - c2 * e2
  OBVIOUS
<1> HIDE DEF k, k2
<1>5. c2 * e2 <= c * e /\ c2 * e2 \in Nat /\ c * e \in Nat
  BY Products
<1>6. g * k >= c * e + least /\ g * k \in Int
  BY <1>1, <1>3, <1>5
<1>7. k \in Nat
  <2>1. ASSUME k < 0 PROVE FALSE
    <3>1. PICK n \in Nat : k = 0 - n /\ n # 0
      <4>1. 0 - k \in Nat /\ k = 0 - (0 - k) /\ 0 - k # 0
        BY <1>1, <2>1
      <4> QED BY <4>1
    <3>2. 1 * 1 <= g * n /\ g * n \in Nat
      BY <3>1, Products
    <3>3. g * k = 0 - g * n
      BY <3>1
    <3> QED BY <1>5, <1>6, <3>2, <3>3
  <2> QED BY <1>1, <2>1
<1>8. g * k <= g2 * k2 /\ g2 * k2 \in Nat
  <2>1. k2 \in Nat
    BY <1>1, <1>2, <1>7
  <2> QED BY <1>2, <1>7, <2>1, Products
<1>9. g2 * k2 - c2 * e2 >= least
  BY <1>5, <1>6, <1>8
<1> QED BY <1>4, <1>9

LEMMA ReadingFacts ==
  ASSUME NEW r \in Readings, r.snap.target > 0
  PROVE  /\ r.snap.target \in Nat \ {0} /\ r.snap.price \in Nat /\ r.snap.gas \in Nat
         /\ r.snap.minted \in Int /\ r.ghs \in Nat /\ r.rate \in Nat
         /\ GasCost(r.snap) \in Nat /\ NetSale(r) \in Int
         /\ MarginBeforeCompute(r) \in Int
         /\ ExpectedHashes(r.snap) \in Nat /\ WorkPerCat(r) \in Nat
         /\ Yield(r) \in Nat /\ Surplus(r) \in Int
PROOF
<1>1. r.snap \in Snaps /\ r.ghs \in Nat /\ r.rate \in Nat
  BY DEF Readings
<1>2. r.snap.target \in Nat /\ r.snap.price \in Nat /\ r.snap.gas \in Nat
  BY <1>1, GateAssumption DEF Snaps
<1>3. r.snap.minted \in Int
  BY <1>1, EconomicsAssumption DEF Snaps
<1>4. GasCost(r.snap) \in Nat
  BY <1>2, EconomicsAssumption DEF GasCost
<1>5. NetSale(r) \in Int
  <2>1. r.sale \in Sales
    BY DEF Readings
  <2>2. r.fee \in Fees
    BY DEF Readings
  <2>3. r.sale \in Nat
    BY <2>1, GateAssumption
  <2>4. r.fee \in Nat
    BY <2>2, GateAssumption
  <2> QED BY <2>3, <2>4 DEF NetSale
<1>6. MarginBeforeCompute(r) \in Int
  BY <1>2, <1>4, <1>5 DEF MarginBeforeCompute
<1>7. ExpectedHashes(r.snap) \in Nat
  BY <1>2, EconomicsAssumption DEF ExpectedHashes
<1>8. WorkPerCat(r) \in Nat
  <2>1. PlanSeconds \in Nat /\ r.ghs * PlanSeconds \in Nat
    BY <1>1, EconomicsAssumption, SignOfProduct
  <2> QED BY <1>7, <2>1 DEF WorkPerCat
<1>9. Yield(r) \in Nat
  BY <1>1, EconomicsAssumption, SignOfProduct DEF Yield
<1>10. Surplus(r) \in Int
  BY <1>1, <1>6, <1>8, <1>9 DEF Surplus
<1> QED BY <1>1, <1>2, <1>3, <1>4, <1>5, <1>6, <1>7, <1>8, <1>9, <1>10

(* What a gate without problems has found.                                 *)
LEMMA NoProblem ==
  ASSUME NEW r
  PROVE  Problems(r) = {} <=> /\ ~(Remaining(r) < MinRemaining)
                              /\ ~(Surplus(r) <= 0)
                              /\ ~ProfitBelow(r, MinProfit)
                              /\ ~(r.snap.price > MaxPrice)
PROOF
<1>1. Problems(r) = {} <=> \A rule \in Rules : ~Violates(r, rule)
  BY DEF Problems, Rules
<1>2. Violates(r, "remaining") <=> Remaining(r) < MinRemaining
  BY DEF Violates
<1>3. Violates(r, "margin") <=> Surplus(r) <= 0
  BY DEF Violates
<1>4. Violates(r, "profit") <=> ProfitBelow(r, MinProfit)
  BY DEF Violates
<1>5. Violates(r, "price") <=> r.snap.price > MaxPrice
  BY DEF Violates
<1> QED BY <1>1, <1>2, <1>3, <1>4, <1>5 DEF Rules

LEMMA SurplusOver ==
  ASSUME NEW r \in Readings, r.snap.target > 0, NEW d \in Nat
  PROVE  Surplus(r) - 100 * d * WorkPerCat(r) =
           Hour * r.ghs * MarginBeforeCompute(r)
             - (100 * (r.rate + d)) * (ExpectedHashes(r.snap) + r.ghs * PlanSeconds)
PROOF
<1> DEFINE w == WorkPerCat(r)
<1>1. /\ Hour \in Nat /\ PlanSeconds \in Nat
      /\ r.ghs \in Nat /\ r.rate \in Nat /\ w \in Nat
      /\ MarginBeforeCompute(r) \in Int
  BY ReadingFacts, EconomicsAssumption
<1>2. w = ExpectedHashes(r.snap) + r.ghs * PlanSeconds
  BY DEF WorkPerCat
<1>3. Surplus(r) = Hour * r.ghs * MarginBeforeCompute(r) - 100 * r.rate * w
  BY DEF Surplus, Yield
<1> HIDE DEF w
<1>4. (100 * (r.rate + d)) * w = 100 * r.rate * w + 100 * d * w
  BY <1>1
<1> QED BY <1>1, <1>2, <1>3, <1>4 DEF w

LEMMA NoWorsePasses ==
  ASSUME NEW r \in Readings, NEW q \in Readings,
         r.snap.target > 0, q.snap.target > 0, q.sale = r.sale, q.fee = r.fee,
         Problems(r) = {}, ~Worse(r, q)
  PROVE  Problems(q) = {}
PROOF
<1>1. /\ r.snap.target <= q.snap.target /\ q.snap.price <= r.snap.price
      /\ q.snap.gas <= r.snap.gas /\ q.snap.minted <= r.snap.minted
      /\ r.ghs <= q.ghs /\ q.rate <= r.rate
  BY ReadingFacts DEF Worse
<1>2. /\ Hour \in Nat /\ PlanSeconds \in Nat /\ Space \in Nat /\ Supply \in Nat
      /\ MinGas \in Nat /\ MinProfit \in Int /\ MaxPrice \in Nat /\ MinRemaining \in Int
  BY EconomicsAssumption, GateAssumption
<1>3. ~(Remaining(q) < MinRemaining)
  BY <1>1, <1>2, ReadingFacts, NoProblem DEF Remaining
<1>4. ~(q.snap.price > MaxPrice)
  BY <1>1, <1>2, ReadingFacts, NoProblem
<1>5. ExpectedHashes(q.snap) <= ExpectedHashes(r.snap)
  BY <1>1, <1>2, ReadingFacts, SmallerQuotient DEF ExpectedHashes
<1>6. MarginBeforeCompute(r) <= MarginBeforeCompute(q)
  <2>1. NetSale(q) = NetSale(r)
    BY DEF NetSale
  <2>2. GasCost(q.snap) <= GasCost(r.snap)
    BY <1>1, <1>2, ReadingFacts DEF GasCost
  <2> QED BY <1>1, <2>1, <2>2, ReadingFacts DEF MarginBeforeCompute
<1>7. Surplus(r) >= 1 /\ Surplus(r) >= 100 * MinProfit * WorkPerCat(r)
  <2>1. ~(Surplus(r) <= 0) /\ ~ProfitBelow(r, MinProfit)
    BY NoProblem
  <2>2. 100 * MinProfit * WorkPerCat(r) \in Int
    BY <1>2, ReadingFacts
  <2>3. ~(Surplus(r) < 100 * MinProfit * WorkPerCat(r))
    BY <2>1 DEF ProfitBelow
  <2> QED BY <2>1, <2>2, <2>3, ReadingFacts
<1>8. r.ghs # 0
  <2>1. ASSUME r.ghs = 0 PROVE Surplus(r) <= 0
    <3>1. 100 * r.rate * WorkPerCat(r) \in Nat
      <4>1. 100 * r.rate \in Nat
        BY ReadingFacts
      <4> QED BY <4>1, ReadingFacts, SignOfProduct
    <3>2. Yield(r) = 0
      BY <1>2, <2>1 DEF Yield
    <3>3. Yield(r) * MarginBeforeCompute(r) = 0
      BY <3>2, ReadingFacts
    <3> QED BY <3>1, <3>3 DEF Surplus
  <2> QED BY <1>7, <2>1, ReadingFacts
<1>9. ASSUME NEW d \in Nat, NEW least \in 0 .. 1,
             Surplus(r) - 100 * d * WorkPerCat(r) >= least
      PROVE  Surplus(q) - 100 * d * WorkPerCat(q) >= least
  <2> DEFINE c == 100 * (r.rate + d)
             c2 == 100 * (q.rate + d)
  <2>1. c \in Nat /\ c2 \in Nat /\ c2 <= c
    BY <1>1, ReadingFacts
  <2>2. Hour * r.ghs * MarginBeforeCompute(r)
          - c * (ExpectedHashes(r.snap) + r.ghs * PlanSeconds) >= least
    BY <1>9, SurplusOver
  <2> HIDE DEF c, c2
  <2>3. Hour * q.ghs * MarginBeforeCompute(q)
          - c2 * (ExpectedHashes(q.snap) + q.ghs * PlanSeconds) >= least
    <3>1. /\ r.ghs \in Nat \ {0} /\ q.ghs \in Nat
          /\ MarginBeforeCompute(r) \in Int /\ MarginBeforeCompute(q) \in Int
          /\ ExpectedHashes(r.snap) \in Nat /\ ExpectedHashes(q.snap) \in Nat
      BY <1>8, ReadingFacts
    <3> QED BY ZenonT(60), <1>1, <1>2, <1>5, <1>6, <2>1, <2>2, <3>1, ProfitKept
  <2> QED BY <2>3, SurplusOver DEF c2
<1>10. ~(Surplus(q) <= 0)
  <2>1. Surplus(r) - 100 * 0 * WorkPerCat(r) = Surplus(r)
    BY ReadingFacts
  <2>2. Surplus(q) - 100 * 0 * WorkPerCat(q) = Surplus(q)
    BY ReadingFacts
  <2>3. Surplus(q) >= 1
    BY <1>7, <1>9, <2>1, <2>2
  <2> QED BY <2>3, ReadingFacts
<1>11. ~ProfitBelow(q, MinProfit)
  <2>1. 100 * MinProfit * WorkPerCat(r) \in Int /\ 100 * MinProfit * WorkPerCat(q) \in Int
    BY <1>2, ReadingFacts
  <2>2. Surplus(q) \in Int
    BY ReadingFacts
  <2>3. CASE MinProfit \in Nat
    <3>1. Surplus(r) - 100 * MinProfit * WorkPerCat(r) >= 0
      BY <1>7, <2>1, ReadingFacts
    <3>2. Surplus(q) - 100 * MinProfit * WorkPerCat(q) >= 0
      <4>1. 0 \in 0 .. 1
        OBVIOUS
      <4> QED BY <1>9, <2>3, <3>1, <4>1, Zenon
    <3>3. ~(Surplus(q) < 100 * MinProfit * WorkPerCat(q))
      BY <2>1, <2>2, <3>2
    <3> QED BY <3>3 DEF ProfitBelow
  <2>4. CASE MinProfit < 0
    <3>1. PICK n \in Nat : 100 * MinProfit = 0 - n
      <4>1. 0 - 100 * MinProfit \in Nat /\ 100 * MinProfit = 0 - (0 - 100 * MinProfit)
        BY <1>2, <2>4
      <4> QED BY <4>1
    <3>2. WorkPerCat(q) \in Nat
      BY ReadingFacts
    <3>3. 100 * MinProfit * WorkPerCat(q) = 0 - n * WorkPerCat(q) /\ n * WorkPerCat(q) \in Nat
      BY <3>1, <3>2, SignOfProduct
    <3>4. ~(Surplus(q) < 100 * MinProfit * WorkPerCat(q))
      BY <1>10, <2>2, <3>3
    <3> QED BY <3>4 DEF ProfitBelow
  <2> QED BY <1>2, <2>3, <2>4
<1> QED BY <1>3, <1>4, <1>10, <1>11, NoProblem

(***************************************************************************)
(* Every answer was computed from an open mint at the sale of the pass.    *)
(* Before a gate nothing was said; between the two the first has passed,   *)
(* and the second speaks only after it.                                    *)
(***************************************************************************)
Answer(r) == [reading |-> r, problems |-> Problems(r), verdict |-> Verdict(r)]

SaidBy(a) ==
  /\ a.reading \in Readings /\ a.reading.snap.target > 0
  /\ a.reading.sale = sale.sale /\ a.reading.fee = sale.fee
  /\ a = Answer(a.reading)

SaidInv == \A i \in 1 .. Len(seen) : SaidBy(seen[i])

OrderInv ==
  /\ seen \in Seq(Answers)
  /\ Len(seen) <= 2
  /\ phase \in {"preflight", "gate"} => Len(seen) = 0
  /\ phase \in {"rent", "setup", "regate"} =>
       Len(seen) = 1 /\ seen[1].problems = {}
  /\ Len(seen) = 2 => seen[1].problems = {}

GateInv == ChainInv /\ OfferInv /\ OrderInv /\ SaidInv

LEMMA GateInit == Init => GateInv
<1> SUFFICES ASSUME Init PROVE GateInv
  OBVIOUS
<1>1. ChainInv
  BY PurseInit DEF PurseInv
<1>2. OfferInv
  BY GateAssumption DEF Init, OfferInv, Offers
<1>3. seen = <<>> /\ phase = "preflight"
  BY DEF Init
<1> QED BY <1>1, <1>2, <1>3 DEF GateInv, OrderInv, SaidInv

LEMMA DecideStep ==
  ASSUME GateInv, NEW p, NEW next, Decide(p, next),
         \/ p = "gate" /\ next = "rent"
         \/ p = "regate" /\ next = "mine"
  PROVE  GateInv'
PROOF
<1>1. /\ phase = p /\ snap.target > 0 /\ UNCHANGED <<snap, sale, offer>>
      /\ seen' = Append(seen, Answer(Reading))
      /\ phase' = IF Problems(Reading) = {} THEN next ELSE "over"
  BY DEF Decide, GoTo, Answer
<1>2. ChainInv' /\ OfferInv'
  BY <1>1 DEF GateInv, ChainInv, OfferInv
<1>3. Answer(Reading) \in Answers
  BY <1>1, GateAnswers DEF GateInv, Answer
<1>4. seen \in Seq(Answers) /\ Len(seen) \in Nat /\ Len(seen) <= 1
  BY <1>1 DEF GateInv, OrderInv
<1>5. /\ seen' \in Seq(Answers) /\ Len(seen') = Len(seen) + 1
      /\ \A i \in 1 .. Len(seen) : seen'[i] = seen[i]
      /\ seen'[Len(seen) + 1] = Answer(Reading)
  BY <1>1, <1>3, <1>4
<1>6. SaidInv'
  <2> SUFFICES ASSUME NEW i \in 1 .. Len(seen') PROVE SaidBy(seen[i])'
    BY DEF SaidInv
  <2>1. CASE i = Len(seen) + 1
    <3>1. seen'[i] = Answer(Reading)
      BY <1>5, <2>1
    <3>2. Answer(Reading).reading = Reading
      BY DEF Answer
    <3>3. Reading \in Readings /\ Reading.snap = snap
      BY DEF Reading, Readings, GateInv, ChainInv, OfferInv, Offers
    <3>4. Reading.sale = sale.sale /\ Reading.fee = sale.fee
      BY DEF Reading
    <3>5. seen'[i].reading = Reading
      BY <3>1, <3>2
    <3>6. sale' = sale /\ Reading.snap.target > 0
      BY <1>1, <3>3
    <3> QED BY <3>1, <3>3, <3>4, <3>5, <3>6 DEF SaidBy, Answer
  <2>2. CASE i \in 1 .. Len(seen)
    <3>1. seen'[i] = seen[i] /\ sale' = sale
      BY <1>1, <1>5, <2>2
    <3>2. SaidBy(seen[i])
      BY <2>2 DEF GateInv, SaidInv
    <3> QED BY <3>1, <3>2 DEF SaidBy, Answer
  <2> QED BY <1>4, <1>5, <2>1, <2>2
<1>7. OrderInv'
  <2>1. CASE p = "gate" /\ next = "rent"
    <3>1. Len(seen) = 0 /\ Len(seen') = 1
      BY <1>1, <1>5, <2>1 DEF GateInv, OrderInv
    <3>2. seen'[1].problems = Problems(Reading)
      BY <1>5, <3>1 DEF Answer
    <3> QED BY <1>1, <1>5, <2>1, <3>1, <3>2 DEF OrderInv
  <2>2. CASE p = "regate" /\ next = "mine"
    <3>1. Len(seen) = 1 /\ seen[1].problems = {}
      <4>1. phase = "regate"
        BY <1>1, <2>2
      <4> QED BY <4>1 DEF GateInv, OrderInv
    <3>2. Len(seen') = 2 /\ seen'[1].problems = {}
      BY <1>5, <3>1
    <3> QED BY <1>1, <1>5, <2>2, <3>1, <3>2 DEF OrderInv
  <2> QED BY <2>1, <2>2
<1> QED BY <1>2, <1>6, <1>7 DEF GateInv

LEMMA GateStep ==
  ASSUME GateInv, [Next]_vars
  PROVE  GateInv'
PROOF
<1>1. CASE ChainMoves \/ Preflight \/ Closed("gate") \/ Closed("regate") \/ Rent
           \/ Setup \/ Stops
  <2>1. UNCHANGED <<sale, seen>>
    BY <1>1 DEF ChainMoves, Preflight, Closed, Rent, Setup, Stops, GoTo
  <2>2. SaidInv'
    BY <2>1 DEF GateInv, SaidInv, SaidBy, Answer
  <2>3. snap' \in Snaps
    BY <1>1 DEF ChainMoves, Preflight, Closed, Rent, Setup, Stops, GoTo, GateInv, ChainInv
  <2>4. OfferInv'
    <3>1. CASE Rent
      BY <3>1, GateAssumption DEF Rent, GoTo, Offers, GateInv, OfferInv
    <3>2. CASE Setup
      BY <3>2, GateAssumption DEF Setup, GoTo, Offers, GateInv, OfferInv
    <3>3. CASE ChainMoves \/ Preflight \/ Closed("gate") \/ Closed("regate") \/ Stops
      BY <3>3 DEF ChainMoves, Preflight, Closed, Stops, GoTo, GateInv, OfferInv
    <3> QED BY <1>1, <3>1, <3>2, <3>3
  <2>5. \/ phase' = phase \/ phase' = "over"
        \/ phase = "preflight" /\ phase' = "gate"
        \/ phase = "rent" /\ phase' = "setup"
        \/ phase = "setup" /\ phase' = "regate"
    BY <1>1 DEF ChainMoves, Preflight, Closed, Rent, Setup, Stops, GoTo
  <2>6. OrderInv'
    BY <2>1, <2>5 DEF GateInv, OrderInv
  <2> QED BY <2>1, <2>2, <2>3, <2>4, <2>6 DEF GateInv, ChainInv
<1>2. CASE Decide("gate", "rent") \/ Decide("regate", "mine")
  BY <1>2, DecideStep
<1>3. CASE Mint \/ Revert
  <2>1. phase = "mine" /\ seen' = <<>> /\ UNCHANGED <<snap, sale, phase, offer>>
    BY <1>3 DEF Mint, Revert, Pay, Wanted
  <2> QED BY <2>1 DEF GateInv, ChainInv, OfferInv, OrderInv, SaidInv
<1>4. CASE UNCHANGED vars
  BY <1>4 DEF vars, GateInv, ChainInv, OfferInv, OrderInv, SaidInv, SaidBy, Answer
<1> QED BY <1>1, <1>2, <1>3, <1>4 DEF Next, FirstGate, SecondGate

(* A box as fast and as cheap as assumed is not turned away after it was   *)
(* rented and built (autopilot.py): the second gate refuses only where     *)
(* target, price, gas, cats left, speed or rent got worse since the first, *)
(* whatever the market, the limits and the fees are.                       *)
THEOREM SecondGateRefusesForCause == Spec => []RefusedForCause
<1>1. GateInv => RefusedForCause
  <2> SUFFICES ASSUME GateInv, Len(seen) = 2, ~Worse(seen[1].reading, seen[2].reading)
               PROVE  seen[2].problems = {}
    BY DEF RefusedForCause
  <2> DEFINE r == seen[1].reading
             q == seen[2].reading
  <2>1. SaidBy(seen[1]) /\ SaidBy(seen[2]) /\ seen[1].problems = {}
    BY DEF GateInv, SaidInv, OrderInv
  <2>2. /\ r \in Readings /\ q \in Readings /\ r.snap.target > 0 /\ q.snap.target > 0
        /\ q.sale = r.sale /\ q.fee = r.fee
    BY <2>1 DEF SaidBy
  <2>3. seen[1].problems = Problems(r) /\ seen[2].problems = Problems(q)
    BY <2>1 DEF SaidBy, Answer
  <2> QED BY <2>1, <2>2, <2>3, NoWorsePasses
<1> QED BY GateInit, GateStep, <1>1, PTL DEF Spec

LEMMA PassingPays ==
  ASSUME NEW r \in Readings, r.snap.target > 0, Problems(r) = {}
  PROVE  /\ \/ Verdict(r) \in {"MARGINAL", "WORTH IT"}
            \/ Verdict(r) = "STOP" /\ MinRemaining <= 0
         /\ r.rate > 0 => AffordableHashes(r) >= ExpectedHashes(r.snap)
PROOF
<1>1. ~(Remaining(r) < MinRemaining) /\ ~(Surplus(r) <= 0)
  BY NoProblem
<1>2. Remaining(r) \in Int /\ MinRemaining \in Int
  BY ReadingFacts, EconomicsAssumption, GateAssumption DEF Remaining
<1>3. NetSale(r) # 0
  <2>1. r.snap \in Snaps
    BY DEF Readings
  <2> QED BY <1>1, <2>1, ReadingFacts, NoSaleNoSurplus
<1>4. \/ Verdict(r) \in {"MARGINAL", "WORTH IT"}
      \/ Verdict(r) = "STOP" /\ MinRemaining <= 0
  <2>1. CASE Remaining(r) <= 0
    <3>1. MinRemaining <= 0
      BY <1>1, <1>2, <2>1
    <3>2. ~(Remaining(r) > 0)
      BY <1>2, <2>1
    <3>3. Verdict(r) = "STOP"
      BY <2>1, <3>2 DEF Verdict
    <3> QED BY <3>1, <3>3
  <2>2. CASE ~(Remaining(r) <= 0)
    <3>1. Verdict(r) = Share(r)
      BY <1>1, <2>2 DEF Verdict
    <3> QED BY <1>3, <3>1 DEF Share
  <2> QED BY <2>1, <2>2
<1>5. ASSUME r.rate > 0 PROVE AffordableHashes(r) >= ExpectedHashes(r.snap)
  <2> DEFINE m == MarginBeforeCompute(r)
             e == ExpectedHashes(r.snap)
             c == 100 * r.rate
             y == Hour * r.ghs
             w == r.ghs * PlanSeconds
  <2>1. /\ m \in Int /\ e \in Nat /\ c \in Nat \ {0} /\ y \in Nat /\ w \in Nat
    <3>1. Hour \in Nat /\ PlanSeconds \in Nat
      BY EconomicsAssumption
    <3> QED BY <1>5, <3>1, ReadingFacts, SignOfProduct
  <2>2. y * m - c * (e + w) > 0
    <3>1. Surplus(r) = y * m - c * (e + w)
      BY DEF Surplus, Yield, WorkPerCat
    <3> QED BY <1>1, <3>1, ReadingFacts
  <2>3. AffordableHashes(r) = IF m < 0 THEN 0 ELSE (m * Hour * r.ghs) \div c
    BY <1>5, ReadingFacts DEF AffordableHashes
  <2>4. m * Hour * r.ghs = y * m
    BY <2>1, ReadingFacts, EconomicsAssumption
  <2> HIDE DEF m, e, c, y, w
  <2>5. c * (e + w) = c * e + c * w /\ c * e \in Nat /\ c * w \in Nat
    BY <2>1, SignOfProduct
  <2>6. y * m > c * e /\ y * m \in Int
    BY <2>1, <2>2, <2>5
  <2>7. ~(m < 0)
    <3>1. ASSUME m < 0 PROVE y * m <= 0
      <4>1. 0 - m \in Nat /\ m = 0 - (0 - m)
        BY <2>1, <3>1
      <4> QED BY <2>1, <4>1, SignOfProduct
    <3> QED BY <2>5, <2>6, <3>1
  <2>8. (y * m) \div c >= e
    <3> DEFINE n == y * m
    <3>1. n \in Nat /\ n > c * e
      BY <2>5, <2>6
    <3> HIDE DEF n
    <3> DEFINE z == n \div c
    <3>2. z \in Nat /\ n < c * z + c
      BY <2>1, <3>1
    <3> HIDE DEF z
    <3>3. ASSUME z < e PROVE FALSE
      <4>1. c * (z + 1) <= c * e
        BY <2>1, <3>2, <3>3, Products
      <4>2. c * (z + 1) = c * z + c
        BY <2>1, <3>2
      <4> QED BY <2>1, <2>5, <3>1, <3>2, <4>1, <4>2, SignOfProduct
    <3>4. z >= e
      BY <2>1, <3>2, <3>3
    <3> QED BY <3>4 DEF z, n
  <2>9. AffordableHashes(r) >= e
    BY <2>3, <2>4, <2>7, <2>8
  <2> QED BY <2>9 DEF e
<1> QED BY <1>4, <1>5

(* What passes the gate does not run at a loss by worth_it.py's account:   *)
(* the verdict is never NOT WORTH IT, and a cat leaves enough to pay for   *)
(* the hashes one is expected to take.  It may be MARGINAL, and it may be  *)
(* STOP where MIN_REMAINING asks for no cat (autopilot.py, gate).          *)
THEOREM GatePassesWhatPays == Spec => []PassedPays
<1>1. GateInv => PassedPays
  <2> SUFFICES ASSUME GateInv, NEW i \in 1 .. Len(seen), seen[i].problems = {}
               PROVE  /\ \/ seen[i].verdict \in {"MARGINAL", "WORTH IT"}
                         \/ seen[i].verdict = "STOP" /\ MinRemaining <= 0
                      /\ seen[i].reading.rate > 0 =>
                           AffordableHashes(seen[i].reading)
                             >= ExpectedHashes(seen[i].reading.snap)
    BY DEF PassedPays
  <2> DEFINE r == seen[i].reading
  <2>1. SaidBy(seen[i])
    BY DEF GateInv, SaidInv
  <2>2. r \in Readings /\ r.snap.target > 0
    BY <2>1 DEF SaidBy
  <2>3. seen[i].problems = Problems(r) /\ seen[i].verdict = Verdict(r)
    BY <2>1 DEF SaidBy, Answer
  <2> QED BY <2>2, <2>3, PassingPays
<1> QED BY GateInit, GateStep, <1>1, PTL DEF Spec
=============================================================================
