-------------------------------- MODULE Gate -------------------------------
(***************************************************************************)
(* The money of one pass of autopilot.py: the wallet is checked, the gate  *)
(* decides on assumed numbers before a box is rented and on measured ones  *)
(* after it, and the coordinator pays for cats, while the chain moves.     *)
(***************************************************************************)
EXTENDS Economics, Sequences

CONSTANTS
  Targets, Prices, Gases,   \* what the chain may say; a closed mint has target 0
  Sales, Fees,              \* SALE_ETH or the live offer, FEE_PCT
  Balances, Rates, Speeds,  \* wallet, offers in dollars per hour, hashes per second
  AssumedGhs, MaxDph, MaxPrice, MinProfit, MinRemaining, TargetMints,
  Reserve                   \* 0.001 ETH on top of the price of the cats

ASSUME GateAssumption ==
  /\ AssumedGhs \in Nat \ {0} /\ MaxDph \in Nat /\ MaxPrice \in Nat \ {0}
  /\ MinProfit \in Int /\ MinRemaining \in Int /\ TargetMints \in Nat
  /\ Reserve \in Nat
  /\ Targets \subseteq Nat /\ Prices \subseteq Nat /\ Gases \subseteq Nat
  /\ Sales \subseteq Nat /\ Fees \subseteq Nat
  /\ Balances \subseteq Nat /\ Rates \subseteq Nat /\ Speeds \subseteq Nat

VARIABLES
  snap,     \* what the chain says now
  sale,     \* [sale, fee] of the pass
  phase,    \* how far run() is
  balance,  \* of the wallet
  offer,    \* [rate, ghs] of the box
  seen,     \* the readings of the gates with what they said, until a cat is paid for
  spent     \* [cats, gas] paid by the coordinator

vars == <<snap, sale, phase, balance, offer, seen, spent>>

Snaps == [target : Targets, price : Prices, gas : Gases, minted : 0 .. Supply]

Init ==
  /\ snap \in Snaps
  /\ sale \in [sale : Sales, fee : Fees]
  /\ phase = "preflight"
  /\ balance \in Balances
  /\ offer = [rate |-> MaxDph, ghs |-> AssumedGhs]
  /\ seen = <<>>
  /\ spent = [cats |-> 0, gas |-> 0]

(* While the box is built and while it mines; a move at another time shows *)
(* up in Init or in one of these.                                          *)
ChainMoves ==
  /\ phase \in {"setup", "mine"}
  /\ snap' \in Snaps
  /\ snap'.minted - snap.minted \in 0 .. 1
  /\ UNCHANGED <<sale, phase, balance, offer, seen, spent>>

-----------------------------------------------------------------------------
GoTo(p) == phase' = p /\ UNCHANGED <<snap, sale, balance, spent>>

NeedForOne == MaxPrice + Reserve  \* mutation: the price of one cat

Need == MaxPrice * TargetMints + Reserve

Preflight ==
  /\ phase = "preflight"
  /\ GoTo(IF balance < Need THEN "over" ELSE "gate")
  /\ UNCHANGED <<offer, seen>>

Reading ==
  [snap |-> snap, ghs |-> offer.ghs, rate |-> offer.rate,
   sale |-> sale.sale, fee |-> sale.fee]

Violates(r, rule) ==
  CASE rule = "remaining" -> Remaining(r) < MinRemaining
    [] rule = "margin" -> Surplus(r) <= 0
    [] rule = "profit" -> ProfitBelow(r, MinProfit)
    [] rule = "price" -> r.snap.price > MaxPrice

ProblemsLossy(r) ==  \* mutation: a loss passes
  {rule \in {"remaining", "price"} : Violates(r, rule)}

Problems(r) ==
  {rule \in {"remaining", "margin", "profit", "price"} : Violates(r, rule)}

(* A target of zero raises before anything is decided.                     *)
Closed(p) ==
  /\ phase = p /\ snap.target = 0
  /\ GoTo("over")
  /\ UNCHANGED <<offer, seen>>

Decide(p, next) ==
  /\ phase = p /\ snap.target > 0
  /\ seen' = Append(seen, [reading |-> Reading, problems |-> Problems(Reading),
                           verdict |-> Verdict(Reading)])
  /\ GoTo(IF Problems(Reading) = {} THEN next ELSE "over")
  /\ UNCHANGED offer

FirstGate == Closed("gate") \/ Decide("gate", "rent")

(* The cheapest offer, and what the instance then costs with its storage.  *)
Rent ==
  /\ phase = "rent"
  /\ \E rate \in Rates : offer' = [offer EXCEPT !.rate = rate]
  /\ GoTo("setup")
  /\ UNCHANGED seen

(* The total of the self-test, and zero is no hashrate.                    *)
Setup ==
  /\ phase = "setup"
  /\ \E ghs \in Speeds :
       /\ offer' = [offer EXCEPT !.ghs = ghs]
       /\ GoTo(IF ghs = 0 THEN "over" ELSE "regate")
  /\ UNCHANGED seen

SecondGate == Closed("regate") \/ Decide("regate", "mine")

-----------------------------------------------------------------------------
(* The coordinator pays for a cat, or for a revert: the gas that was used, *)
(* at most what it reserved for it.                                        *)
Cost == snap.price + GasCost(snap)

Wanted == phase = "mine" /\ spent.cats < TargetMints /\ snap.price <= MaxPrice

Pay(price, cats) ==
  /\ Wanted /\ balance >= Cost
  /\ \E gas \in 0 .. GasCost(snap) :
       /\ balance' = balance - (price + gas)
       /\ spent' = [cats |-> spent.cats + cats, gas |-> spent.gas + gas]
  /\ seen' = <<>>
  /\ UNCHANGED <<snap, sale, phase, offer>>

Mint == Pay(snap.price, 1)

Revert == spent.gas < Reserve /\ Pay(0, 0)

Insolvent == Wanted /\ balance < Cost

Stops ==
  /\ phase = "mine"
  /\ GoTo("over")
  /\ UNCHANGED <<offer, seen>>

Next ==
  \/ ChainMoves \/ Preflight \/ FirstGate \/ Rent \/ Setup \/ SecondGate
  \/ Mint \/ Revert \/ Stops

Spec == Init /\ [][Next]_vars

-----------------------------------------------------------------------------
Worse(r, q) ==
  \/ q.snap.target < r.snap.target \/ q.snap.price > r.snap.price
  \/ q.snap.gas > r.snap.gas \/ q.snap.minted > r.snap.minted
  \/ q.ghs < r.ghs \/ q.rate > r.rate

(* A box that is as fast and as cheap as assumed is not turned away after  *)
(* it was rented and built (autopilot.py: both gates are one function),    *)
(* unless the chain moved against the miner meanwhile.                     *)
RefusedForCause ==
  Len(seen) = 2 /\ seen[2].problems # {} => Worse(seen[1].reading, seen[2].reading)

(* What passes the gate does not run at a loss by worth_it.py's own        *)
(* account (docs/zero-to-mining.md: "Nothing is rented unless the live     *)
(* numbers say it pays"): the verdict printed above "gate passed" is never *)
(* NOT WORTH IT, and a cat leaves enough to pay for the hashes one is      *)
(* expected to take.  The gate does not look at the verdict itself: it may *)
(* be MARGINAL, which docs/cloud-runbook.md says to rent nothing on, and   *)
(* for a collection that is sold out it is STOP if MIN_REMAINING does not  *)
(* ask for any cat.                                                        *)
PassedPays ==
  \A i \in 1 .. Len(seen) :
    seen[i].problems = {} =>
      /\ \/ seen[i].verdict \in {"MARGINAL", "WORTH IT"}
         \/ seen[i].verdict = "STOP" /\ MinRemaining <= 0
      /\ seen[i].reading.rate > 0 =>
           AffordableHashes(seen[i].reading) >= ExpectedHashes(seen[i].reading.snap)

(* The verdict divides by the net sale only where there is one             *)
(* (worth_it.py): no reading, whatever fees and prices, makes it raise.    *)
VerdictDefined == \A i \in 1 .. Len(seen) : seen[i].verdict # "raises"

(* A wallet that passed preflight pays for every cat up to the target:     *)
(* the coordinator finds it insolvent (coordinator.py) only after gas took *)
(* more than the reserve preflight adds.                                   *)
WalletLasts == Insolvent => spent.gas + GasCost(snap) > Reserve
=============================================================================
