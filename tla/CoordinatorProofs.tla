------------------------- MODULE CoordinatorProofs -------------------------
(***************************************************************************)
(* Proofs about the coordinator: the inductive invariant Inv is preserved  *)
(* by every step, for every collection, wallet, limit and bound.           *)
(***************************************************************************)
EXTENDS Coordinator, TLAPS

(* The other miners, the network's rules and the actions of the session    *)
(* that neither build nor settle a transaction.                            *)
Rules == (OtherMints \/ AnchorAdvances \/ TargetMoves \/ PriceMoves)
           /\ UNCHANGED coordinatorVars
PollStop == HoursUp \/ SoldOut \/ TooDear \/ AgentGone \/ RpcError
              \/ (\E d \in Digests : BadCandidate(d)) \/ OverBudget \/ Insolvent
              \/ GiveUpOnReceipt
Quiet == AlreadyDone \/ HoursPass \/ KeepJob \/ NewJob \/ EndOfPoll
           \/ RecheckPrev \/ RecheckTarget

(* Next, regrouped for the proofs below.                                   *)
LEMMA NextCases ==
  ASSUME Next
  PROVE  \/ Rules \/ PollStop \/ Quiet
         \/ \E t \in mempool : Include(t) /\ UNCHANGED coordinatorVars
         \/ \E t \in mempool : Evict(t) /\ UNCHANGED coordinatorVars
         \/ Start
         \/ \E d \in Digests : Candidate(d)
         \/ ReadPrice \/ CountDry \/ WritePending
         \/ Broadcast \/ SettleMint \/ Save \/ OwnerMismatch
         \/ SettleRevert \/ Unlink \/ Exit \/ Crash \/ Reconcile
  BY DEF Next, ChainNext, Rules, PollStop, Quiet, Handling, Submitting, Polling

-----------------------------------------------------------------------------
(* Type correctness.                                                       *)
LEMMA TypeInit == Init => TypeOK
<1> SUFFICES ASSUME Init PROVE TypeOK
  OBVIOUS
<1> USE ContractAssumption, CoordinatorAssumption DEF Init
<1>1. job \in Job /\ tx \in Tx
  BY DEF NoJob, NoTx, Job, Tx, Targets, Digests
<1>2. target \in Targets /\ receipts \subseteq Receipt /\ mempool \subseteq Tx
  BY DEF ChainInit, Targets
<1>3. live \in BOOLEAN /\ late \in BOOLEAN /\ torn \in BOOLEAN
  OBVIOUS
<1> QED
  BY <1>1, <1>2, <1>3 DEF ChainInit, TypeOK, Phases, Reasons

(* What a settled receipt took is charged or counted as uncharged.         *)
LEMMA SettlesAll ==
  ASSUME TypeOK, NEW r \in receipts, NEW charge \in 0 .. tx.reserve, Settles(r, charge)
  PROVE  /\ r.gas \in Nat /\ charge \in Nat /\ tx.value \in Nat /\ uncharged' \in Nat
         /\ uncharged + r.gas <= uncharged' + charge
PROOF
<1>1. r.gas \in Nat /\ tx.value \in Nat /\ tx.reserve \in Nat /\ uncharged \in Nat
  BY DEF TypeOK, Receipt, Tx
<1>2. CASE charge \in r.gas .. tx.reserve /\ UNCHANGED uncharged
  BY <1>1, <1>2
<1>3. CASE charge = 0 /\ uncharged' = uncharged + r.gas
  BY <1>1, <1>3
<1> QED BY <1>2, <1>3 DEF Settles

(* Every step keeps the types.                                             *)
LEMMA TypeStep ==
  ASSUME TypeOK, [Next]_vars
  PROVE  TypeOK'
PROOF
<1>1. CASE Rules
  BY <1>1 DEF TypeOK, Rules, OtherMints, AnchorAdvances, TargetMoves, PriceMoves,
     walletVars, coordinatorVars, memoryVars, diskVars, historyVars
<1>2. CASE PollStop
  BY <1>2 DEF TypeOK, PollStop, HoursUp, SoldOut, TooDear, AgentGone, RpcError,
     BadCandidate, OverBudget, Insolvent, GiveUpOnReceipt, StopWith, Phases, Reasons,
     chainVars, memoryVars, diskVars, historyVars
<1>3. CASE Quiet
  <2>1. CASE NewJob
    <3>1. job' \in Job
      BY <2>1 DEF TypeOK, NewJob, Job
    <3> QED
      BY <2>1, <3>1 DEF TypeOK, NewJob, StopWith, Phases, Reasons,
         chainVars, diskVars, historyVars
  <2>2. CASE AlreadyDone \/ KeepJob \/ EndOfPoll \/ RecheckPrev \/ RecheckTarget
    BY <2>2 DEF TypeOK, AlreadyDone, KeepJob, EndOfPoll, RecheckPrev,
       RecheckTarget, StopWith, Phases, Reasons, chainVars, memoryVars, diskVars, historyVars
  <2>3. CASE HoursPass
    <3>1. live' \in BOOLEAN /\ late' \in BOOLEAN /\ torn' \in BOOLEAN
      BY <2>3 DEF TypeOK, HoursPass, diskVars
    <3> QED
      BY <2>3, <3>1 DEF TypeOK, HoursPass, chainVars, diskVars, historyVars
  <2> QED BY <1>3, <2>1, <2>2, <2>3 DEF Quiet
<1>4. ASSUME NEW t \in mempool, Include(t), UNCHANGED coordinatorVars
      PROVE  TypeOK'
  <2>1. t \in Tx BY DEF TypeOK
  <2>2. PICK gas \in 0 .. t.reserve :
          /\ mempool' = mempool \ {t}
          /\ receipts' = receipts \union {[id |-> t.id, ok |-> Accepts(t), gas |-> gas]}
          /\ funds' = funds - (gas + (IF Accepts(t) THEN t.value ELSE 0))
          /\ paid' = paid + (gas + (IF Accepts(t) THEN t.value ELSE 0))
    BY <1>4 DEF Include
  <2>3. [id |-> t.id, ok |-> Accepts(t), gas |-> gas] \in Receipt
    BY <2>1, <2>2 DEF Accepts, Receipt, Tx, Meets
  <2>4. target \div 2 \in Targets BY ContractAssumption DEF TypeOK, Targets
  <2>5. /\ mempool' \subseteq Tx /\ receipts' \subseteq Receipt
        /\ funds' \in Int /\ paid' \in Nat
    BY <2>1, <2>2, <2>3 DEF TypeOK, Tx
  <2>6. /\ total' \in Nat /\ anchor' \in Nat /\ target' \in Targets /\ price' \in Prices
        /\ ours' \in Nat
    BY <1>4, <2>4 DEF Include, TypeOK
  <2> QED BY <1>4, <2>5, <2>6 DEF TypeOK, coordinatorVars, memoryVars, diskVars, historyVars
<1>5. ASSUME NEW t \in mempool, Evict(t), UNCHANGED coordinatorVars
      PROVE  TypeOK'
  BY <1>5 DEF TypeOK, Evict, rulesVars, coordinatorVars, memoryVars, diskVars, historyVars
<1>6. CASE Start
  <2>1. live' \in BOOLEAN /\ torn' \in BOOLEAN
    BY <1>6, CoordinatorAssumption DEF TypeOK, Start, diskVars
  <2>2. pc' \in Phases /\ stop' \in Reasons
    BY <1>6 DEF Start, Phases, Reasons
  <2>3. /\ minted' \subseteq Nat /\ sessions' \in Nat /\ first' \in Nat
        /\ paid' \in Nat /\ uncharged' \in Nat
    BY <1>6 DEF TypeOK, Start
  <2> QED
    BY <1>6, <2>1, <2>2, <2>3 DEF TypeOK, Start, rulesVars, diskVars
<1>7. ASSUME NEW d \in Digests, Candidate(d) PROVE TypeOK'
  <2>1. tx' \in Tx
    BY <1>7 DEF TypeOK, Candidate, Tx, NoTx, Job
  <2> QED
    BY <1>7, <2>1 DEF TypeOK, Candidate, Phases, chainVars, diskVars, historyVars
<1>8. CASE ReadPrice
  <2>1. tx' \in Tx
    BY <1>8, ContractAssumption DEF TypeOK, ReadPrice, Tx
  <2>2. pc' \in Phases /\ stop' \in Reasons
    BY <1>8 DEF TypeOK, ReadPrice, StopWith, Phases, Reasons
  <2> QED
    BY <1>8, <2>1, <2>2 DEF TypeOK, ReadPrice, chainVars, diskVars, historyVars
<1>9. CASE CountDry \/ WritePending
  <2>1. PICK reserve \in Reserves : Prepared(reserve)
    BY <1>9 DEF CountDry, WritePending
  <2>2. tx' \in Tx
    <3>1. tx' = [tx EXCEPT !.id = serial + 1, !.reserve = reserve]
      BY <2>1 DEF Prepared
    <3>2. tx \in Tx /\ serial + 1 \in Nat /\ reserve \in Nat
      BY ContractAssumption DEF TypeOK
    <3> QED BY <3>1, <3>2 DEF Tx
  <2>3. submitted' \subseteq Nat
    BY <2>1 DEF TypeOK, Prepared, Job
  <2>4. serial' \in Nat /\ serial + 1 \in Nat
    BY <2>1 DEF TypeOK, Prepared
  <2>5. pending' \in Nat /\ minted' \subseteq Nat
    BY <1>9, <2>4 DEF TypeOK, CountDry, WritePending
  <2>6. pc' \in Phases
    BY <1>9 DEF CountDry, WritePending, Phases
  <2> QED
    BY <2>1, <2>2, <2>3, <2>4, <2>5, <2>6 DEF TypeOK, Prepared, chainVars
<1>10. CASE Broadcast
  BY <1>10 DEF TypeOK, Broadcast, Phases, rulesVars, memoryVars, diskVars, historyVars
<1>19. CASE Unlink
  BY <1>19 DEF TypeOK, Unlink, Phases, chainVars, memoryVars, historyVars
<1>12. CASE SettleMint
  <2>1. tx.id \in Nat /\ tx.value \in Nat /\ tx.reserve \in Nat
    BY DEF TypeOK, Tx
  <2>2. minted' \subseteq Nat
    BY <1>12, <2>1 DEF TypeOK, SettleMint
  <2>4. spend' \in Nat /\ uncharged' \in Nat
    <3>1. PICK r \in receipts, charge \in 0 .. tx.reserve :
            Settles(r, charge) /\ spend' = spend + tx.value + charge
      BY <1>12 DEF SettleMint
    <3> QED BY <2>1, <3>1, SettlesAll DEF TypeOK
  <2>3. live' \in BOOLEAN /\ late' \in BOOLEAN /\ torn' \in BOOLEAN
    BY <1>12 DEF TypeOK, SettleMint
  <2> QED
    BY <1>12, <2>2, <2>3, <2>4 DEF TypeOK, SettleMint, Phases, chainVars
<1>13. CASE Save
  <2>1. live' \in BOOLEAN /\ late' \in BOOLEAN /\ torn' \in BOOLEAN
    BY <1>13 DEF TypeOK, Save, memoryVars
  <2> QED
    BY <1>13, <2>1 DEF TypeOK, Save, Phases, chainVars, memoryVars, historyVars
<1>16. CASE OwnerMismatch
  <2>1. tx.id \in Nat
    BY DEF TypeOK, Tx
  <2> QED
    BY <1>16, <2>1 DEF TypeOK, OwnerMismatch, StopWith, Phases, Reasons, chainVars, memoryVars
<1>17. CASE SettleRevert
  <2>1. tx.reserve \in Nat
    BY DEF TypeOK, Tx
  <2>2. spend' \in Nat /\ uncharged' \in Nat
    <3>1. PICK r \in receipts, charge \in 0 .. tx.reserve :
            Settles(r, charge) /\ spend' = spend + charge
      BY <1>17 DEF SettleRevert
    <3> QED BY <2>1, <3>1, SettlesAll DEF TypeOK
  <2>3. reverts' \in Nat /\ submitted' \subseteq Nat
    <3>1. reverts' = reverts + 1 /\ submitted' \subseteq submitted
      BY <1>17 DEF SettleRevert
    <3> QED BY <3>1 DEF TypeOK
  <2>4. pc' \in Phases /\ stop' \in Reasons
    BY <1>17 DEF TypeOK, SettleRevert, Phases, Reasons
  <2> QED
    BY <1>17, <2>2, <2>3, <2>4 DEF TypeOK, SettleRevert, chainVars, diskVars
<1>18. CASE Exit \/ Crash
  <2>1. NoJob \in Job /\ NoTx \in Tx
    BY ContractAssumption DEF NoJob, NoTx, Job, Tx, Targets, Digests
  <2>2. live' \in BOOLEAN /\ late' \in BOOLEAN /\ torn' \in BOOLEAN
    BY <1>18 DEF TypeOK, Exit, Crash, Forget, diskVars
  <2>3. /\ job' \in Job /\ tx' \in Tx /\ submitted' \subseteq Nat /\ minted' \subseteq Nat
        /\ spend' \in Nat /\ reverts' \in Nat
    BY <1>18, <2>1 DEF Exit, Crash, Forget
  <2>5. pc' \in Phases /\ stop' \in Reasons
    BY <1>18 DEF TypeOK, Exit, Crash, Forget, Phases, Reasons
  <2>4. UNCHANGED <<chainVars, diskVars, historyVars>>
    BY <1>18 DEF Exit, Crash
  <2> QED
    BY <2>2, <2>3, <2>4, <2>5 DEF TypeOK, chainVars, diskVars, historyVars
<1>14. CASE Reconcile
  BY <1>14 DEF TypeOK, Reconcile, Receipt, chainVars, memoryVars
<1>15. CASE UNCHANGED vars
  BY <1>15 DEF TypeOK, vars, chainVars, coordinatorVars, memoryVars, diskVars, historyVars
<1> QED
  BY <1>1, <1>2, <1>3, <1>4, <1>5, <1>6, <1>7, <1>8, <1>9, <1>10, <1>12, <1>13,
     <1>14, <1>15, <1>16, <1>17, <1>18, <1>19, NextCases

-----------------------------------------------------------------------------
(* What the steps do to the part of the state the invariant is about.      *)

core == <<mempool, receipts, pending, serial, paid, spend, funds, saved, torn, minted,
          live, disowned, writtenOff, uncharged>>

(* Most steps leave that part alone; they go on deciding, or they stop.    *)
LEMMA FrameStep ==
  ASSUME Rules \/ PollStop \/ Quiet \/ UNCHANGED vars
  PROVE  /\ UNCHANGED core /\ tx' = tx
         /\ \/ pc' = pc
            \/ pc \in Deciding /\ pc' \in Deciding \union {"stopping"}
            \/ pc = "receipt" /\ pc' = "stopping"
PROOF
<1> USE DEF core, chainVars, walletVars, memoryVars, diskVars, historyVars, Deciding
<1>1. CASE Rules
  BY <1>1 DEF Rules, OtherMints, AnchorAdvances, TargetMoves, PriceMoves, coordinatorVars
<1>2. CASE PollStop
  BY <1>2 DEF PollStop, HoursUp, SoldOut, TooDear, AgentGone, RpcError, BadCandidate,
     Fresh, OverBudget, Insolvent, GiveUpOnReceipt, StopWith
<1>3. CASE Quiet
  BY <1>3 DEF Quiet, AlreadyDone, HoursPass, KeepJob, NewJob, EndOfPoll, RecheckPrev,
     RecheckTarget, StopWith
<1>4. CASE UNCHANGED vars
  BY <1>4 DEF vars, coordinatorVars
<1> QED BY <1>1, <1>2, <1>3, <1>4

(* A candidate and the price it will pay go into the draft only.           *)
LEMMA DraftStep ==
  ASSUME TypeOK, ReadPrice \/ \E d \in Digests : Candidate(d)
  PROVE  /\ UNCHANGED core
         /\ tx'.id \in {0, tx.id}
         /\ pc \in Deciding /\ pc' \in Deciding \union {"stopping"}
PROOF
<1> USE DEF core, chainVars, diskVars, historyVars, Deciding
<1>1. CASE ReadPrice
  BY <1>1 DEF TypeOK, Tx, ReadPrice, StopWith
<1>2. ASSUME NEW d \in Digests, Candidate(d) PROVE UNCHANGED core /\ tx'.id = 0
                                                  /\ pc = "events" /\ pc' = "prev"
  BY <1>2 DEF Candidate, Fresh, NoTx
<1> QED BY <1>1, <1>2

(* Inclusion empties the mempool: nothing else was in it.  It happens only *)
(* while the session waits for the receipt, has given up or is gone.       *)
LEMMA IncludeStep ==
  ASSUME TypeOK, IdsInv, MarkerInv,
         NEW t \in mempool, Include(t), UNCHANGED coordinatorVars
  PROVE  /\ mempool = {t} /\ mempool' = {} /\ t \in Tx /\ t.id = pending
         /\ pc \in {"down", "receipt", "stopping"}
         /\ pc = "receipt" => t = tx
         /\ \E r \in Receipt :
               /\ r.id = t.id /\ r.gas <= t.reserve
               /\ receipts' = receipts \union {r}
               /\ funds' = funds - (r.gas + (IF r.ok THEN t.value ELSE 0))
               /\ paid' = paid + (r.gas + (IF r.ok THEN t.value ELSE 0))
PROOF
<1>1. t \in Tx BY DEF TypeOK
<1>2. mempool = {t} /\ t.id = pending /\ t.id # 0 /\ ~HasReceipt(t)
  BY DEF MarkerInv, InFlightIsMarked, IdsInv
<1>3. pc \in {"down", "receipt", "stopping"}
  BY <1>2 DEF MarkerInv, TypeOK, Phases, Deciding, Settling, HasReceipt
<1>4. pc = "receipt" => t = tx
  BY DEF MarkerInv
<1>5. PICK gas \in 0 .. t.reserve :
        /\ mempool' = mempool \ {t}
        /\ receipts' = receipts \union {[id |-> t.id, ok |-> Accepts(t), gas |-> gas]}
        /\ funds' = funds - (gas + (IF Accepts(t) THEN t.value ELSE 0))
        /\ paid' = paid + (gas + (IF Accepts(t) THEN t.value ELSE 0))
  BY DEF Include
<1> DEFINE r == [id |-> t.id, ok |-> Accepts(t), gas |-> gas]
<1>6. r \in Receipt
  BY <1>1, <1>5 DEF Accepts, Meets, Receipt, Tx
<1>7. r.gas <= t.reserve
  BY <1>1, <1>5 DEF Tx
<1> QED BY <1>1, <1>2, <1>3, <1>4, <1>5, <1>6, <1>7

(* Building a transaction: its id is new and its cost is covered.          *)
LEMMA PreparedStep ==
  ASSUME TypeOK, NEW reserve \in Reserves, Prepared(reserve)
  PROVE  /\ tx'.id = serial + 1 /\ serial' = serial + 1
         /\ Cost(tx') \in Nat
         /\ spend + Cost(tx') <= MaxSpend /\ funds >= Cost(tx')
         /\ UNCHANGED <<mempool, receipts, paid, spend, funds, saved, torn, live,
                        disowned, writtenOff, uncharged>>
         /\ pc = "funds"
PROOF
<1>1. tx \in Tx /\ reserve \in Nat /\ serial \in Nat
  BY ContractAssumption DEF TypeOK
<1>2. tx' = [tx EXCEPT !.id = serial + 1, !.reserve = reserve]
  BY DEF Prepared
<1>3. tx'.id = serial + 1 /\ Cost(tx') = tx.value + reserve /\ tx.value \in Nat
  BY <1>1, <1>2 DEF Tx, Cost
<1> QED BY <1>1, <1>3 DEF Prepared, Affordable, Covered, chainVars

-----------------------------------------------------------------------------
(* Ids.                                                                    *)
LEMMA IdsStep ==
  ASSUME TypeOK, IdsInv, MarkerInv, [Next]_vars
  PROVE  IdsInv'
PROOF
<1>0. tx.id \in Nat /\ serial \in Nat /\ pending \in Nat
  BY DEF TypeOK, Tx
<1>1. CASE Rules \/ PollStop \/ Quiet \/ UNCHANGED vars
  BY <1>1, FrameStep DEF core, IdsInv, HasReceipt
<1>2. CASE ReadPrice \/ \E d \in Digests : Candidate(d)
  BY <1>0, <1>2, DraftStep DEF core, IdsInv, HasReceipt
<1>3. ASSUME NEW t \in mempool, Include(t), UNCHANGED coordinatorVars
      PROVE  IdsInv'
  <2>1. mempool' = {}
    BY <1>3, IncludeStep
  <2>2. PICK r \in Receipt : r.id = t.id /\ receipts' = receipts \union {r}
    BY <1>3, IncludeStep
  <2>3. UNCHANGED <<pending, serial, tx>>
    BY <1>3 DEF coordinatorVars, memoryVars, diskVars, historyVars
  <2>4. t.id # 0 /\ t.id <= serial /\ \A s \in receipts : s.id # t.id
    BY DEF IdsInv, HasReceipt
  <2> QED BY <2>1, <2>2, <2>3, <2>4 DEF IdsInv
<1>4. ASSUME NEW t \in mempool, Evict(t), UNCHANGED coordinatorVars
      PROVE  IdsInv'
  BY <1>4 DEF IdsInv, HasReceipt, Evict, coordinatorVars, memoryVars, diskVars, historyVars
<1>5. CASE Start
  BY <1>5 DEF IdsInv, HasReceipt, Start, diskVars
<1>6. CASE CountDry \/ WritePending
  <2>1. PICK reserve \in Reserves : Prepared(reserve)
    BY <1>6 DEF CountDry, WritePending
  <2>2. tx'.id = serial + 1 /\ serial' = serial + 1 /\ UNCHANGED <<mempool, receipts>>
    BY <2>1, PreparedStep
  <2>3. pending' \in {pending, serial + 1}
    BY <1>6 DEF CountDry, WritePending
  <2>4. /\ \A t \in mempool : t.id \in Nat
        /\ \A r \in receipts : r.id \in Nat
    BY DEF TypeOK, Tx, Receipt
  <2> QED BY <1>0, <2>2, <2>3, <2>4 DEF IdsInv, HasReceipt
<1>7. CASE Broadcast
  BY <1>7 DEF IdsInv, MarkerInv, HasReceipt, Broadcast, memoryVars, diskVars, historyVars
<1>8. CASE SettleMint \/ Save \/ SettleRevert
  BY <1>8 DEF IdsInv, HasReceipt, SettleMint, Save, SettleRevert,
     chainVars, memoryVars, diskVars, historyVars
<1>9. CASE OwnerMismatch \/ Unlink \/ Reconcile
  BY <1>0, <1>9 DEF IdsInv, HasReceipt, OwnerMismatch, Unlink, Reconcile,
     chainVars, memoryVars, historyVars
<1>10. CASE Exit \/ Crash
  BY <1>0, <1>10 DEF IdsInv, HasReceipt, Exit, Crash, Forget, NoTx,
     chainVars, diskVars, historyVars
<1> QED
  BY <1>1, <1>2, <1>3, <1>4, <1>5, <1>6, <1>7, <1>8, <1>9, <1>10, NextCases

(* The marker.                                                             *)
LEMMA MarkerStep ==
  ASSUME TypeOK, IdsInv, MarkerInv, [Next]_vars
  PROVE  MarkerInv'
PROOF
<1> USE DEF MarkerInv, InFlightIsMarked, HasReceipt, Deciding, Settling
<1>1. CASE Rules \/ PollStop \/ Quiet \/ UNCHANGED vars
  BY <1>1, FrameStep DEF core
<1>2. CASE ReadPrice \/ \E d \in Digests : Candidate(d)
  BY <1>2, DraftStep DEF core
<1>3. ASSUME NEW t \in mempool, Include(t), UNCHANGED coordinatorVars
      PROVE  MarkerInv'
  BY <1>3, IncludeStep DEF coordinatorVars, memoryVars, diskVars
<1>4. ASSUME NEW t \in mempool, Evict(t), UNCHANGED coordinatorVars
      PROVE  MarkerInv'
  BY <1>4 DEF Evict, coordinatorVars, memoryVars, diskVars
<1>5. CASE Start
  BY <1>5 DEF Start, MayStart, diskVars
<1>6. CASE CountDry
  <2>1. UNCHANGED <<pending, mempool>> /\ pc = "funds" /\ pc' = "events"
    BY <1>6, PreparedStep DEF CountDry
  <2> QED BY <2>1
<1>7. CASE WritePending
  <2>1. /\ tx'.id = serial + 1 /\ UNCHANGED <<receipts, mempool>> /\ pc = "funds"
        /\ pending' = serial + 1 /\ pc' = "send"
    BY <1>7, PreparedStep DEF WritePending
  <2>2. mempool = {}
    BY <2>1 DEF IdsInv
  <2>3. serial \in Nat /\ \A r \in receipts : r.id \in Nat /\ r.id <= serial
    BY DEF IdsInv, TypeOK, Receipt
  <2> QED BY <2>1, <2>2, <2>3
<1>8. CASE Broadcast
  BY <1>8 DEF Broadcast, memoryVars, diskVars
<1>9. CASE SettleMint
  BY <1>9 DEF SettleMint, Settles, chainVars
<1>10. CASE SettleRevert
  BY <1>10 DEF SettleRevert, Settles, chainVars, diskVars
<1>11. CASE Save
  BY <1>11 DEF Save, chainVars, memoryVars
<1>12. CASE OwnerMismatch
  BY <1>12 DEF OwnerMismatch, IdsInv, StopWith, chainVars, memoryVars
<1>13. CASE Unlink
  BY <1>13 DEF Unlink, IdsInv, chainVars, memoryVars
<1>14. CASE Exit \/ Crash
  BY <1>14 DEF Exit, Crash, Forget, chainVars, diskVars
<1>15. CASE Reconcile
  BY <1>15 DEF Reconcile, chainVars
<1> QED
  BY <1>1, <1>2, <1>3, <1>4, <1>5, <1>6, <1>7, <1>8, <1>9, <1>10, <1>11, <1>12, <1>13,
     <1>14, <1>15, NextCases

(* The budget.                                                             *)
LEMMA BudgetStep ==
  ASSUME TypeOK, IdsInv, MarkerInv, BudgetInv, [Next]_vars
  PROVE  BudgetInv'
PROOF
<1> USE DEF Deciding, Settling
<1>0. paid \in Nat /\ spend \in Nat /\ uncharged \in Nat /\ MaxSpend \in Nat /\ tx \in Tx
  BY CoordinatorAssumption DEF TypeOK
<1>1. CASE Rules \/ PollStop \/ Quiet \/ UNCHANGED vars
  BY <1>1, FrameStep DEF core, BudgetInv, BudgetHolds, HasReceipt, Cost
<1>2. CASE ReadPrice \/ \E d \in Digests : Candidate(d)
  BY <1>2, DraftStep DEF core, BudgetInv, BudgetHolds, HasReceipt, Cost
<1>3. ASSUME NEW t \in mempool, Include(t), UNCHANGED coordinatorVars
      PROVE  BudgetInv'
  <2>1. /\ mempool' = {} /\ t \in Tx
        /\ pc \in {"down", "receipt", "stopping"} /\ (pc = "receipt" => t = tx)
    BY <1>3, IncludeStep
  <2>2. PICK r \in Receipt :
          /\ r.id = t.id /\ r.gas <= t.reserve
          /\ receipts' = receipts \union {r}
          /\ paid' = paid + (r.gas + (IF r.ok THEN t.value ELSE 0))
    BY <1>3, IncludeStep
  <2>3. UNCHANGED <<pc, tx, spend, uncharged>>
    BY <1>3 DEF coordinatorVars, memoryVars, historyVars
  <2>4. t.value \in Nat /\ t.reserve \in Nat /\ r.gas \in Nat /\ r.ok \in BOOLEAN
    BY <2>1 DEF Tx, Receipt
  <2>5. paid + (t.value + t.reserve) <= MaxSpend + uncharged
    BY DEF BudgetInv, BudgetHolds, Cost
  <2>6. paid' <= MaxSpend + uncharged
    BY <1>0, <2>2, <2>4, <2>5
  <2>7. \A s \in receipts : s.id # t.id
    BY DEF IdsInv, HasReceipt
  <2>8. pc = "receipt" => paid <= spend + uncharged /\ spend + Cost(tx) <= MaxSpend
    BY <2>1, <2>7 DEF BudgetInv, HasReceipt
  <2>9. pc = "receipt" => \A s \in receipts' : s.id = tx.id =>
                            paid' <= spend + uncharged + s.gas + (IF s.ok THEN tx.value ELSE 0)
    BY <1>0, <2>1, <2>2, <2>4, <2>7, <2>8
  <2>10. pc = "receipt" => HasReceipt(tx)'
    BY <2>1, <2>2, <2>3 DEF HasReceipt
  <2> QED BY <2>1, <2>3, <2>6, <2>8, <2>9, <2>10 DEF BudgetInv, BudgetHolds, Cost
<1>4. ASSUME NEW t \in mempool, Evict(t), UNCHANGED coordinatorVars
      PROVE  BudgetInv'
  BY <1>4 DEF BudgetInv, BudgetHolds, HasReceipt, Cost, Evict, coordinatorVars,
     memoryVars, historyVars
<1>5. CASE Start
  <2>1. mempool' = {} /\ paid' = 0 /\ uncharged' = 0 /\ spend' = spend /\ pc' = "poll"
    BY <1>5 DEF Start, MayStart, IdsInv, MarkerInv, InFlightIsMarked
  <2> QED BY <1>0, <2>1 DEF BudgetInv, BudgetHolds
<1>6. CASE CountDry
  <2>1. UNCHANGED <<mempool, paid, spend, uncharged>> /\ pc = "funds" /\ pc' = "events"
    BY <1>6, PreparedStep DEF CountDry
  <2> QED BY <2>1 DEF BudgetInv, BudgetHolds, Cost
<1>7. CASE WritePending
  <2>1. /\ UNCHANGED <<mempool, paid, spend, uncharged>> /\ pc = "funds" /\ pc' = "send"
        /\ spend + Cost(tx') <= MaxSpend
    BY <1>7, PreparedStep DEF WritePending
  <2> QED BY <2>1 DEF BudgetInv, BudgetHolds, HasReceipt, Cost
<1>8. CASE Broadcast
  <2>1. /\ mempool' \subseteq {tx} /\ pc' = "receipt"
        /\ UNCHANGED <<paid, spend, uncharged, tx, receipts>>
    BY <1>8 DEF Broadcast, MarkerInv, memoryVars, historyVars
  <2>2. ~HasReceipt(tx) /\ paid <= spend + uncharged /\ spend + Cost(tx) <= MaxSpend
    BY <1>8 DEF Broadcast, MarkerInv, BudgetInv
  <2>3. Cost(tx) \in Nat
    BY <1>0 DEF Tx, Cost
  <2>4. paid + Cost(tx) <= MaxSpend + uncharged
    BY <1>0, <2>2, <2>3
  <2> QED BY <2>1, <2>2, <2>4 DEF BudgetInv, BudgetHolds, HasReceipt, Cost
<1>9. CASE SettleMint
  <2>1. PICK r \in receipts, charge \in 0 .. tx.reserve :
          Settles(r, charge) /\ r.ok /\ spend' = spend + tx.value + charge
    BY <1>9 DEF SettleMint
  <2>2. paid <= spend + uncharged + r.gas + tx.value
    BY <2>1 DEF Settles, BudgetInv
  <2>3. paid <= spend' + uncharged' /\ MaxSpend + uncharged <= MaxSpend + uncharged'
    BY <1>0, <2>1, <2>2, SettlesAll DEF Settles
  <2>4. mempool = {}
    BY <2>1 DEF Settles, MarkerInv, IdsInv, HasReceipt
  <2>5. UNCHANGED <<paid, mempool>> /\ pc' \in Settling
    BY <1>9 DEF SettleMint, chainVars
  <2>6. paid <= MaxSpend + uncharged'
    BY <1>0, <2>1, <2>3, SettlesAll DEF BudgetInv, BudgetHolds
  <2> QED BY <2>3, <2>4, <2>5, <2>6 DEF BudgetInv, BudgetHolds
<1>10. CASE SettleRevert
  <2>1. PICK r \in receipts, charge \in 0 .. tx.reserve :
          Settles(r, charge) /\ ~r.ok /\ spend' = spend + charge
    BY <1>10 DEF SettleRevert
  <2>2. paid <= spend + uncharged + r.gas
    BY <1>0, <2>1, SettlesAll DEF Settles, BudgetInv
  <2>3. paid <= spend' + uncharged' /\ MaxSpend + uncharged <= MaxSpend + uncharged'
    BY <1>0, <2>1, <2>2, SettlesAll DEF Settles
  <2>4. mempool = {}
    BY <2>1 DEF Settles, MarkerInv, IdsInv, HasReceipt
  <2>5. UNCHANGED <<paid, mempool>> /\ pc' \in Settling
    BY <1>10 DEF SettleRevert, chainVars
  <2>6. paid <= MaxSpend + uncharged'
    BY <1>0, <2>1, <2>3, SettlesAll DEF BudgetInv, BudgetHolds
  <2> QED BY <2>3, <2>4, <2>5, <2>6 DEF BudgetInv, BudgetHolds
<1>11. CASE Save
  BY <1>11 DEF Save, BudgetInv, BudgetHolds, chainVars, memoryVars, historyVars
<1>12. CASE OwnerMismatch
  BY <1>12 DEF OwnerMismatch, BudgetInv, BudgetHolds, StopWith, chainVars, memoryVars
<1>13. CASE Unlink
  BY <1>13 DEF Unlink, BudgetInv, BudgetHolds, chainVars, memoryVars, historyVars
<1>14. CASE Exit \/ Crash
  BY <1>14 DEF Exit, Crash, Forget, BudgetInv, BudgetHolds, chainVars, historyVars
<1>15. CASE Reconcile
  BY <1>15 DEF Reconcile, BudgetInv, BudgetHolds, chainVars
<1> QED
  BY <1>1, <1>2, <1>3, <1>4, <1>5, <1>6, <1>7, <1>8, <1>9, <1>10, <1>11, <1>12, <1>13,
     <1>14, <1>15, NextCases

(* The balance.                                                            *)
LEMMA FundsStep ==
  ASSUME TypeOK, IdsInv, MarkerInv, FundsInv, [Next]_vars
  PROVE  FundsInv'
PROOF
<1> USE DEF Deciding
<1>0. funds \in Int /\ tx \in Tx
  BY DEF TypeOK
<1>1. CASE Rules \/ PollStop \/ Quiet \/ UNCHANGED vars
  BY <1>1, FrameStep DEF core, FundsInv, Solvent, Cost
<1>2. CASE ReadPrice \/ \E d \in Digests : Candidate(d)
  BY <1>2, DraftStep DEF core, FundsInv, Solvent, Cost
<1>3. ASSUME NEW t \in mempool, Include(t), UNCHANGED coordinatorVars
      PROVE  FundsInv'
  <2>1. mempool' = {} /\ t \in Tx /\ pc # "send"
    BY <1>3, IncludeStep
  <2>2. PICK r \in Receipt :
          /\ r.gas <= t.reserve
          /\ funds' = funds - (r.gas + (IF r.ok THEN t.value ELSE 0))
    BY <1>3, IncludeStep
  <2>3. t.value \in Nat /\ t.reserve \in Nat /\ r.gas \in Nat
    BY <2>1 DEF Tx, Receipt
  <2>4. funds >= t.value + t.reserve
    BY DEF FundsInv, Solvent, Cost
  <2>5. funds' >= 0
    BY <1>0, <2>2, <2>3, <2>4
  <2> QED BY <1>3, <2>1, <2>5 DEF FundsInv, Solvent, coordinatorVars
<1>4. ASSUME NEW t \in mempool, Evict(t), UNCHANGED coordinatorVars
      PROVE  FundsInv'
  BY <1>4 DEF Evict, FundsInv, Solvent, Cost, coordinatorVars, memoryVars
<1>5. CASE Start
  BY <1>5 DEF Start, FundsInv, Solvent
<1>6. CASE CountDry
  BY <1>6, PreparedStep DEF CountDry, FundsInv, Solvent, Cost
<1>7. CASE WritePending
  BY <1>7, PreparedStep DEF WritePending, FundsInv, Solvent, Cost
<1>8. CASE Broadcast
  BY <1>8 DEF Broadcast, FundsInv, Solvent, Cost
<1>9. CASE SettleMint \/ SettleRevert \/ Save \/ OwnerMismatch \/ Unlink \/ Exit \/ Crash
  BY <1>9 DEF SettleMint, SettleRevert, Save, OwnerMismatch, Unlink, Exit, Crash, Forget,
     StopWith, FundsInv, Solvent, Cost, chainVars
<1>10. CASE Reconcile
  BY <1>10 DEF Reconcile, FundsInv, Solvent, Cost, chainVars
<1> QED
  BY <1>1, <1>2, <1>3, <1>4, <1>5, <1>6, <1>7, <1>8, <1>9, <1>10, NextCases

(* The records.                                                            *)
LEMMA RecordsStep ==
  ASSUME TypeOK, IdsInv, MarkerInv, RecordsInv, [Next]_vars
  PROVE  RecordsInv'
PROOF
<1> USE DEF Deciding, Settling
<1>1. CASE Rules \/ PollStop \/ Quiet \/ UNCHANGED vars
  <2>1. UNCHANGED core /\ tx' = tx
    BY <1>1, FrameStep
  <2>2. \/ pc' = pc
        \/ pc \in Deciding /\ pc' \in Deciding \union {"stopping"}
        \/ pc = "receipt" /\ pc' = "stopping"
    BY <1>1, FrameStep
  <2> QED BY <2>1, <2>2 DEF core, RecordsInv
<1>2. CASE ReadPrice \/ \E d \in Digests : Candidate(d)
  BY <1>2, DraftStep DEF core, RecordsInv
<1>3. ASSUME NEW t \in mempool, Include(t), UNCHANGED coordinatorVars
      PROVE  RecordsInv'
  <2>1. t.id = pending /\ pc \in {"down", "receipt", "stopping"}
    BY <1>3, IncludeStep
  <2>2. PICK r \in Receipt : r.id = t.id /\ receipts' = receipts \union {r}
    BY <1>3, IncludeStep
  <2>3. UNCHANGED <<pc, live, tx, pending, minted, saved, torn, disowned, writtenOff>>
    BY <1>3 DEF coordinatorVars, memoryVars, diskVars, historyVars
  <2> QED BY <2>1, <2>2, <2>3 DEF RecordsInv
<1>4. ASSUME NEW t \in mempool, Evict(t), UNCHANGED coordinatorVars
      PROVE  RecordsInv'
  BY <1>4 DEF Evict, RecordsInv, coordinatorVars, memoryVars, diskVars, historyVars
<1>5. CASE Start
  BY <1>5 DEF Start, MayStart, RecordsInv, diskVars
<1>6. CASE CountDry
  <2>1. /\ UNCHANGED <<receipts, saved, torn, live, disowned, writtenOff, pending>>
        /\ ~live /\ pc = "funds" /\ pc' = "events"
    BY <1>6, PreparedStep DEF CountDry
  <2> QED BY <2>1 DEF RecordsInv
<1>7. CASE WritePending
  <2>1. /\ UNCHANGED <<receipts, saved, torn, live, disowned, writtenOff, minted>>
        /\ live /\ pc = "funds" /\ pc' = "send"
    BY <1>7, PreparedStep DEF WritePending
  <2>2. pending = 0 /\ \A r \in receipts : r.id # 0
    BY <2>1 DEF MarkerInv, IdsInv
  <2> QED BY <2>1, <2>2 DEF RecordsInv
<1>8. CASE Broadcast
  BY <1>8 DEF Broadcast, RecordsInv, memoryVars, diskVars, historyVars
<1>9. CASE SettleMint
  <2>1. \E r \in receipts : r.id = tx.id /\ r.ok
    BY <1>9 DEF SettleMint, Settles
  <2>2. /\ pc = "receipt" /\ pc' = "saving" /\ minted' = minted \union {tx.id}
        /\ UNCHANGED <<receipts, saved, live, tx, pending, disowned, writtenOff>>
    BY <1>9 DEF SettleMint, Settles, chainVars, historyVars
  <2> QED BY <2>1, <2>2 DEF RecordsInv
<1>10. CASE SettleRevert
  <2>1. \A r \in receipts : r.id = tx.id => ~r.ok
    BY <1>10 DEF SettleRevert, Settles, IdsInv
  <2>2. /\ pc = "receipt" /\ pc' = "unlink"
        /\ UNCHANGED <<receipts, saved, torn, live, tx, minted, pending, disowned,
                       writtenOff>>
    BY <1>10 DEF SettleRevert, Settles, chainVars, diskVars, historyVars
  <2> QED BY <2>1, <2>2 DEF RecordsInv
<1>11. CASE Save
  BY <1>11 DEF Save, RecordsInv, chainVars, memoryVars, historyVars
<1>12. CASE OwnerMismatch
  <2>1. /\ pc = "receipt" /\ pc' = "stopping" /\ pending = tx.id
        /\ disowned' = disowned \union {tx.id}
        /\ UNCHANGED <<receipts, saved, torn, live, minted, writtenOff>>
    BY <1>12 DEF OwnerMismatch, MarkerInv, StopWith, chainVars, memoryVars
  <2> QED BY <2>1 DEF RecordsInv
<1>13. CASE Unlink
  <2>1. /\ pc = "unlink" /\ pc' \in {"events", "stopping"} /\ pending = tx.id
        /\ UNCHANGED <<receipts, saved, torn, live, minted, disowned, writtenOff>>
    BY <1>13 DEF Unlink, MarkerInv, chainVars, memoryVars, historyVars
  <2> QED BY <2>1 DEF RecordsInv
<1>14. CASE Exit \/ Crash
  BY <1>14 DEF Exit, Crash, Forget, RecordsInv, chainVars, diskVars, historyVars
<1>15. CASE Reconcile
  <2>1. /\ pc = "down" /\ pending' = 0
        /\ UNCHANGED <<receipts, pc, saved, live, tx, minted, disowned>>
    BY <1>15 DEF Reconcile, chainVars, memoryVars
  <2>2. \A r \in receipts :
          r.ok /\ r.id = pending => r.id \in saved \union writtenOff'
    BY <1>15 DEF Reconcile
  <2>3. writtenOff \subseteq writtenOff'
    BY <1>15 DEF Reconcile
  <2> QED BY <2>1, <2>2, <2>3 DEF RecordsInv
<1> QED
  BY <1>1, <1>2, <1>3, <1>4, <1>5, <1>6, <1>7, <1>8, <1>9, <1>10, <1>11, <1>12, <1>13,
     <1>14, <1>15, NextCases

-----------------------------------------------------------------------------
(* Inv holds at the start and every step keeps it.                         *)
LEMMA InvInit == Init => Inv
PROOF
<1> SUFFICES ASSUME Init PROVE Inv
  OBVIOUS
<1>1. mempool = {} /\ receipts = {} /\ paid = 0 /\ funds >= 0 /\ MaxSpend >= 0
  BY ContractAssumption, CoordinatorAssumption DEF Init, ChainInit
<1>2. IdsInv /\ MarkerInv /\ RecordsInv
  BY <1>1 DEF Init, NoTx, IdsInv, MarkerInv, InFlightIsMarked, RecordsInv, HasReceipt,
     Deciding, Settling
<1>3. BudgetInv /\ FundsInv
  BY <1>1, CoordinatorAssumption
     DEF Init, BudgetInv, BudgetHolds, FundsInv, Solvent, Deciding, Settling
<1> QED BY <1>2, <1>3, TypeInit DEF Inv

(* The five parts together, and the types.                                 *)
LEMMA InvStep == Inv /\ [Next]_vars => Inv'
  BY TypeStep, IdsStep, MarkerStep, BudgetStep, FundsStep, RecordsStep DEF Inv

(* The inductive invariant holds in every state of every execution.        *)
THEOREM Invariance == Spec => []Inv
  BY InvInit, InvStep, PTL DEF Spec

(* The variables keep their types.                                         *)
THEOREM TypeCorrect == Spec => []TypeOK
<1>1. Inv => TypeOK
  BY DEF Inv
<1> QED BY <1>1, Invariance, PTL

(* However sessions crash, give up and restart, and whatever the network   *)
(* does, at most one of the wallet's transactions is on its way, and its   *)
(* marker is on disk (coordinator.py, run and submit).                     *)
THEOREM MarkedInFlight == Spec => []InFlightIsMarked
<1>1. Inv => InFlightIsMarked
  BY DEF Inv, MarkerInv
<1> QED BY <1>1, Invariance, PTL

(* A session never pays more than MAX_SPEND_ETH and the gas of receipts    *)
(* that did not state it, counting the transaction that is still on its    *)
(* way (coordinator.py, handle_candidate and submit).                      *)
THEOREM WithinBudget == Spec => []BudgetHolds
<1>1. Inv => BudgetHolds
  BY DEF Inv, BudgetInv
<1> QED BY <1>1, Invariance, PTL

(* The wallet can always pay for what was sent from it (coordinator.py,    *)
(* handle_candidate).                                                      *)
THEOREM AlwaysSolvent == Spec => []Solvent
<1>1. Inv => Solvent
  BY DEF Inv, FundsInv
<1> QED BY <1>1, Invariance, PTL

(* Every cat minted is recorded, about to be, marked for the operator, or  *)
(* was given up explicitly, and every record is of a cat that minted; or   *)
(* its record was in receipts.json when a crash inside the writing of that *)
(* file destroyed it, and then no session starts any more (coordinator.py, *)
(* submit).                                                                *)
THEOREM CatsAccountedFor == Spec => []NoCatForgotten
<1>1. Inv => NoCatForgotten
  BY DEF Inv, RecordsInv, NoCatForgotten, Listed, LostInWrite
<1> QED BY <1>1, Invariance, PTL
=============================================================================
