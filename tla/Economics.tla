----------------------------- MODULE Economics -----------------------------
(***************************************************************************)
(* What one cat costs and brings (worth_it.py), in whole numbers: a        *)
(* fraction is its numerator over a denominator that is named, and two of  *)
(* them are compared by multiplying out.  Money is in one unit, and fees   *)
(* are in percent, so amounts after fees are hundredfold.                  *)
(***************************************************************************)
EXTENDS Integers

CONSTANTS
  Space,        \* 1 << 256
  Hour,         \* 3600 seconds
  PlanSeconds,  \* PLAN_SECONDS_PER_CAT
  Supply,       \* chain.SUPPLY
  MinGas        \* a transaction's gas at MIN_GAS_PRICE

ASSUME EconomicsAssumption ==
  /\ Space \in Nat \ {0} /\ Hour \in Nat \ {0} /\ PlanSeconds \in Nat \ {0}
  /\ Supply \in Nat /\ MinGas \in Nat \ {0}

(***************************************************************************)
(* A reading is what economics is called with: the snapshot s, hashes per  *)
(* second, dollars per hour, the price and the fees of a sale.             *)
(***************************************************************************)
ExpectedHashes(s) == Space \div s.target

GasCost(s) == IF 2 * s.gas < MinGas THEN MinGas ELSE 2 * s.gas

NetSale(r) == r.sale * (100 - r.fee)

MarginBeforeCompute(r) == NetSale(r) - 100 * (r.snap.price + GasCost(r.snap))

(* Hashes the network and this rig do while one cat is found.              *)
WorkPerCat(r) == ExpectedHashes(r.snap) + r.ghs * PlanSeconds

(* Yield / WorkPerCat is cats_per_hour.                                    *)
YieldOfOthers(r) ==  \* mutation: the share of the network it joins
  Hour * (ExpectedHashes(r.snap) \div PlanSeconds)

Yield(r) == Hour * r.ghs

(* profit_per_hour * 100 * WorkPerCat, and margin_usd * 100 * Yield.       *)
Surplus(r) == Yield(r) * MarginBeforeCompute(r) - 100 * r.rate * WorkPerCat(r)

ProfitBelow(r, dollars) == Surplus(r) < 100 * dollars * WorkPerCat(r)

(* affordable_hashes, at what a cat leaves before compute is paid.         *)
AffordableHashes(r) ==
  IF r.rate = 0 \/ MarginBeforeCompute(r) < 0 THEN 0
  ELSE (MarginBeforeCompute(r) * Hour * r.ghs) \div (100 * r.rate)

Remaining(r) == Supply - r.snap.minted

(* Division by the net sale raises if there is none.                       *)
Share(r) ==
  CASE NetSale(r) = 0 -> "raises"
    [] 10 * Surplus(r) < 4 * Yield(r) * NetSale(r) -> "MARGINAL"
    [] OTHER -> "WORTH IT"

VerdictThinFirst(r) ==  \* mutation: a thin profit looked for before a loss
  CASE Remaining(r) <= 0 -> "STOP"
    [] Surplus(r) <= 0 /\ NetSale(r) > 0 -> "NOT WORTH IT"
    [] OTHER -> Share(r)

Verdict(r) ==
  CASE Remaining(r) <= 0 -> "STOP"
    [] Remaining(r) > 0 /\ Surplus(r) <= 0 -> "NOT WORTH IT"
    [] OTHER -> Share(r)
=============================================================================
