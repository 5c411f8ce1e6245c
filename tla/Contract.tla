------------------------------ MODULE Contract ------------------------------
(***************************************************************************)
(* The Hashcats contract and the network in front of it, as far as one     *)
(* mining wallet can tell.  The contract itself is not in the repository;  *)
(* its rules are those of the stand-in the test suite runs against         *)
(* (tests/fake_chain.py).                                                  *)
(*                                                                         *)
(* Abstractions.  prevWork is a fresh digest after every mint, so the      *)
(* number of cats minted so far identifies it: "prev" is a value of total. *)
(* A nonce is represented by the digest it has for the prev and anchor it  *)
(* was mined for; under any other prev or anchor it proves nothing.        *)
(* Amounts are small naturals, gas is an amount of ether.                  *)
(***************************************************************************)
EXTENDS Integers

CONSTANTS Supply,     \* cats in the collection
          MaxAnchor,  \* bound: how far the anchor block advances
          MaxTarget,  \* easiest target; a digest of MaxTarget meets none
          Prices,     \* entry prices the contract may ask
          Reserves,   \* what GAS_LIMIT times the gas price can amount to
          Funds       \* the wallet's balance at the start

ASSUME ContractAssumption ==
  /\ Supply \in Nat /\ MaxAnchor \in Nat /\ MaxTarget \in Nat /\ Funds \in Nat
  /\ Prices \subseteq Nat /\ Reserves \subseteq Nat

VARIABLES total,      \* cats minted so far; identifies prevWork
          anchor,     \* current anchor block
          target,     \* targetFor(wallet); 0 while the mint is closed
          price,      \* mintPrice()
          funds,      \* the wallet's balance
          mempool,    \* the wallet's transactions on their way into a block
          receipts,   \* the receipts of those that made it
          ours,       \* history: cats minted to the wallet
          paid        \* history: ether the wallet paid during this session

chainVars == <<total, anchor, target, price, funds, mempool, receipts, ours, paid>>
rulesVars == <<total, anchor, target, price>>
walletVars == <<funds, mempool, receipts, ours, paid>>

Targets == 0 .. MaxTarget
Digests == 0 .. MaxTarget

Tx == [id : Nat, value : Nat, reserve : Nat,
       prev : Nat, anchor : Nat, digest : Digests]

Receipt == [id : Nat, ok : BOOLEAN, gas : Nat]

Meets(digest, t) == digest < t

-----------------------------------------------------------------------------
ChainInit ==
  /\ total = 0 /\ anchor = 0 /\ target = MaxTarget
  /\ price \in Prices
  /\ funds = Funds
  /\ mempool = {} /\ receipts = {}
  /\ ours = 0 /\ paid = 0

(* Another miner's cat: prevWork moves under everybody's feet.             *)
OtherMints ==
  /\ total < Supply
  /\ total' = total + 1
  /\ UNCHANGED <<anchor, target, price, walletVars>>

AnchorAdvances ==
  /\ anchor < MaxAnchor
  /\ anchor' = anchor + 1
  /\ UNCHANGED <<total, target, price, walletVars>>

(* Retargeting, the cooling of the wallet's streak, and closing the mint.  *)
TargetMoves ==
  /\ target' \in Targets
  /\ UNCHANGED <<total, anchor, price, walletVars>>

PriceMoves ==
  /\ price' \in Prices
  /\ UNCHANGED <<total, anchor, target, walletVars>>

(* What mine(nonce, anchorBlock) accepts.                                  *)
Accepts(t) ==
  /\ total < Supply
  /\ t.value = price
  /\ t.anchor = anchor
  /\ t.prev = total
  /\ Meets(t.digest, target)

(* A transaction is included.  An accepted one mints a cat and doubles the *)
(* wallet's work; any other reverts and costs its gas only.                *)
Include(t) ==
  \E gas \in 0 .. t.reserve :
    LET cost == gas + (IF Accepts(t) THEN t.value ELSE 0)
    IN /\ mempool' = mempool \ {t}
       /\ receipts' = receipts \union {[id |-> t.id, ok |-> Accepts(t), gas |-> gas]}
       /\ funds' = funds - cost
       /\ paid' = paid + cost
       /\ IF Accepts(t)
            THEN /\ total' = total + 1
                 /\ target' = target \div 2
                 /\ ours' = ours + 1
            ELSE UNCHANGED <<total, target, ours>>
       /\ UNCHANGED <<anchor, price>>

(* The network forgets a transaction: it will never be included.           *)
Evict(t) ==
  /\ mempool' = mempool \ {t}
  /\ UNCHANGED <<rulesVars, funds, receipts, ours, paid>>

ChainNext ==
  \/ OtherMints
  \/ AnchorAdvances
  \/ TargetMoves
  \/ PriceMoves
  \/ \E t \in mempool : Include(t) \/ Evict(t)
=============================================================================
