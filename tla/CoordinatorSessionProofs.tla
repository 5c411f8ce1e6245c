--------------------- MODULE CoordinatorSessionProofs ---------------------
(***************************************************************************)
(* Proofs about the coordinator's sessions.  With its files and the network*)
(* it implements the intent log, it sends nothing after a reason to stop,  *)
(* a dry run leaves everything alone, and what it counts stays in bounds:  *)
(* the cats in TARGET_MINTS and the reverts in MAX_REVERTS.                *)
(***************************************************************************)
EXTENDS CoordinatorProofs, FiniteSetTheorems

InFlight == {t.id : t \in mempool}
Outcomes == {<<r.id, r.ok>> : r \in receipts}
Lost == disowned \union writtenOff

(* The state of the intent log does not change.                            *)
SameLog ==
  /\ pending' = pending
  /\ (pc' = "send") = (pc = "send")
  /\ UNCHANGED <<mempool, receipts, saved, disowned, writtenOff>>

LEMMA SameLogStutters ==
  ASSUME SameLog
  PROVE  UNCHANGED Log!vars
  BY DEF SameLog, Log!vars

(* A transaction with the id of the marker and a receipt is not on its way.*)
LEMMA SettledIsOut ==
  ASSUME IdsInv, MarkerInv, HasReceipt(tx), tx.id = pending
  PROVE  mempool = {}
  BY DEF IdsInv, MarkerInv, InFlightIsMarked, HasReceipt

(* Every step of the coordinator is a step of the log or changes nothing   *)
(* in it.                                                                  *)
LEMMA LogStep ==
  ASSUME Inv, [Next]_vars
  PROVE  [Log!Next]_(Log!vars)
PROOF
<1> USE DEF Inv
<1>1. CASE Rules \/ PollStop \/ Quiet \/ UNCHANGED vars
  <2>1. UNCHANGED core
    BY <1>1, FrameStep
  <2>2. (pc' = "send") = (pc = "send")
    BY <1>1, FrameStep DEF Deciding
  <2>3. SameLog
    BY <2>1, <2>2 DEF SameLog, core
  <2> QED BY <2>3, SameLogStutters
<1>2. CASE ReadPrice \/ \E d \in Digests : Candidate(d)
  <2>1. UNCHANGED core /\ pc # "send" /\ pc' # "send"
    BY <1>2, DraftStep DEF Deciding
  <2>2. SameLog
    BY <2>1 DEF SameLog, core
  <2> QED BY <2>2, SameLogStutters
<1>3. ASSUME NEW t \in mempool, Include(t), UNCHANGED coordinatorVars
      PROVE  Log!Next
  <2>1. mempool = {t} /\ mempool' = {}
    BY <1>3, IncludeStep
  <2>2. PICK r \in Receipt : r.id = t.id /\ receipts' = receipts \union {r}
    BY <1>3, IncludeStep
  <2>3. ~Log!HasOutcome(t.id)
    BY DEF IdsInv, HasReceipt, Log!HasOutcome
  <2>4. InFlight = {t.id} /\ InFlight' = InFlight \ {t.id}
    BY <2>1 DEF InFlight
  <2>5. Outcomes' = Outcomes \union {<<t.id, r.ok>>} /\ r.ok \in BOOLEAN
    BY <2>2 DEF Outcomes, Receipt
  <2>6. UNCHANGED <<pending, pc, saved, disowned, writtenOff>>
    BY <1>3 DEF coordinatorVars, diskVars, historyVars
  <2>7. Log!Happen(t.id)
    BY <2>3, <2>4, <2>5, <2>6 DEF Log!Happen, InFlight, Outcomes
  <2> QED BY <2>4, <2>7 DEF Log!Next, InFlight
<1>4. ASSUME NEW t \in mempool, Evict(t), UNCHANGED coordinatorVars
      PROVE  Log!Next
  <2>1. mempool = {t} /\ mempool' = {} /\ receipts' = receipts
    BY <1>4 DEF Evict, MarkerInv, InFlightIsMarked
  <2>2. UNCHANGED <<pending, pc, saved, disowned, writtenOff>>
    BY <1>4 DEF coordinatorVars, diskVars, historyVars
  <2>3. Log!Vanish(t.id)
    BY <2>1, <2>2 DEF Log!Vanish
  <2> QED BY <2>1, <2>3 DEF Log!Next
<1>5. CASE Start
  <2>1. SameLog
    BY <1>5 DEF Start, MayStart, SameLog, diskVars
  <2> QED BY <2>1, SameLogStutters
<1>6. CASE CountDry
  <2>1. SameLog
    BY <1>6, PreparedStep DEF CountDry, SameLog
  <2> QED BY <2>1, SameLogStutters
<1>7. CASE WritePending
  <2>1. /\ UNCHANGED <<receipts, mempool, saved, disowned, writtenOff>>
        /\ pc = "funds" /\ pending' = serial + 1 /\ pc' = "send"
    BY <1>7, PreparedStep DEF WritePending
  <2>2. pending = 0 /\ mempool = {}
    BY <2>1 DEF MarkerInv, InFlightIsMarked, IdsInv, Deciding
  <2>3. serial \in Nat /\ \A r \in receipts : r.id \in Nat /\ r.id <= serial
    BY DEF IdsInv, TypeOK, Receipt
  <2>4. pending' # 0 /\ \A r \in receipts : r.id # pending'
    BY <2>1, <2>3
  <2>5. Log!Announce
    BY <2>1, <2>2, <2>4 DEF Log!Announce, Log!None, Log!HasOutcome
  <2> QED BY <2>5 DEF Log!Next
<1>8. CASE Broadcast
  <2>1. /\ mempool = {} /\ mempool' \in {{}, {tx}} /\ tx.id = pending
        /\ pc = "send" /\ pc' = "receipt"
        /\ UNCHANGED <<receipts, pending, saved, disowned, writtenOff>>
    BY <1>8 DEF Broadcast, MarkerInv, diskVars, historyVars
  <2>2. InFlight' \in {InFlight, InFlight \union {pending}}
    BY <2>1 DEF InFlight
  <2>3. Log!LetGo
    BY <2>1, <2>2 DEF Log!LetGo, InFlight
  <2> QED BY <2>3 DEF Log!Next
<1>9. CASE SettleMint \/ SettleRevert
  <2>1. SameLog
    BY <1>9 DEF SettleMint, SettleRevert, Settles, SameLog, chainVars, diskVars, historyVars
  <2> QED BY <2>1, SameLogStutters
<1>10. CASE Save
  <2>1. /\ pending = tx.id /\ saved' = saved \union {pending}
        /\ \E r \in receipts : r.id = pending /\ r.ok
    BY <1>10 DEF Save, MarkerInv, RecordsInv, Settling
  <2>2. Log!Accepted(pending)
    <3>1. PICK r \in receipts : r.id = pending /\ r.ok
      BY <2>1
    <3>2. <<r.id, r.ok>> = <<pending, TRUE>>
      BY <3>1 DEF TypeOK, Receipt
    <3> QED BY <3>2 DEF Log!Accepted
  <2>3. UNCHANGED <<pending, mempool, receipts, disowned, writtenOff>>
        /\ pc # "send" /\ pc' # "send"
    BY <1>10 DEF Save, chainVars, memoryVars, historyVars
  <2>4. Log!Record
    BY <2>1, <2>2, <2>3 DEF Log!Record
  <2> QED BY <2>4 DEF Log!Next
<1>11. CASE OwnerMismatch
  <2>1. /\ pc = "receipt" /\ pending = tx.id /\ pending # 0 /\ HasReceipt(tx)
        /\ \E r \in receipts : r.id = pending /\ r.ok
    BY <1>11 DEF OwnerMismatch, MarkerInv, HasReceipt
  <2>2. mempool = {}
    BY <2>1, SettledIsOut
  <2>3. Log!Accepted(pending)
    <3>1. PICK r \in receipts : r.id = pending /\ r.ok
      BY <2>1
    <3>2. <<r.id, r.ok>> = <<pending, TRUE>>
      BY <3>1 DEF TypeOK, Receipt
    <3> QED BY <3>2 DEF Log!Accepted
  <2>4. /\ UNCHANGED <<mempool, receipts, saved>> /\ pending' = 0 /\ pc' = "stopping"
        /\ Lost' = Lost \union {pending}
    BY <1>11, <2>1 DEF OwnerMismatch, StopWith, Lost, chainVars
  <2>5. Log!GiveUp
    BY <2>1, <2>2, <2>3, <2>4 DEF Log!GiveUp, Log!Over, Log!None, Lost
  <2> QED BY <2>5 DEF Log!Next
<1>12. CASE Unlink
  <2>1. pc = "unlink" /\ pending = tx.id /\ pending # 0 /\ HasReceipt(tx)
    BY <1>12 DEF Unlink, MarkerInv, Settling
  <2>2. mempool = {}
    BY <2>1, SettledIsOut
  <2>3. Log!Accepted(pending) => pending \in saved
    BY <2>1 DEF Log!Accepted, RecordsInv
  <2>4. /\ UNCHANGED <<mempool, receipts, saved, disowned, writtenOff>>
        /\ pending' = 0 /\ pc' # "send"
    BY <1>12 DEF Unlink, chainVars, historyVars
  <2>5. Log!Settle
    BY <2>1, <2>2, <2>3, <2>4 DEF Log!Settle, Log!Over, Log!None
  <2> QED BY <2>5 DEF Log!Next
<1>13. CASE Exit
  <2>1. SameLog
    BY <1>13 DEF Exit, Forget, SameLog, chainVars, diskVars, historyVars
  <2> QED BY <2>1, SameLogStutters
<1>14. CASE Crash
  <2>1. UNCHANGED <<pending, mempool, receipts, saved, disowned, writtenOff>> /\ pc' = "down"
    BY <1>14 DEF Crash, Forget, chainVars, diskVars, historyVars
  <2>2. CASE pc = "send"
    BY <2>1, <2>2 DEF Log!Next, Log!LetGo
  <2>3. CASE pc # "send"
    BY <2>1, <2>3, SameLogStutters DEF SameLog
  <2> QED BY <2>2, <2>3
<1>15. CASE Reconcile
  <2>1. /\ pc = "down" /\ pc' = pc /\ pending # 0 /\ pending' = 0 /\ mempool = {}
        /\ UNCHANGED <<mempool, receipts, saved, disowned>>
    BY <1>15 DEF Reconcile, MarkerInv, InFlightIsMarked, chainVars, memoryVars
  <2> DEFINE given == {s \in receipts : s.id = pending /\ s.ok /\ (torn \/ s.id \notin saved)}
  <2>2. writtenOff' = writtenOff \union {r.id : r \in given}
    BY <1>15 DEF Reconcile
  <2>3. CASE given = {}
    <3>1. writtenOff' = writtenOff
      BY <2>2, <2>3
    <3>2. Log!Accepted(pending) => pending \in saved
      BY <2>3 DEF Log!Accepted
    <3>3. Log!Settle
      BY <2>1, <3>1, <3>2 DEF Log!Settle, Log!Over, Log!None
    <3> QED BY <3>3 DEF Log!Next
  <2>4. CASE given # {}
    <3>1. writtenOff' = writtenOff \union {pending}
      BY <2>2, <2>4
    <3>2. Log!Accepted(pending)
      <4>1. PICK r \in receipts : r.id = pending /\ r.ok
        BY <2>4
      <4>2. <<r.id, r.ok>> = <<pending, TRUE>>
        BY <4>1 DEF TypeOK, Receipt
      <4> QED BY <4>2 DEF Log!Accepted
    <3>3. Lost' = Lost \union {pending}
      BY <2>1, <3>1 DEF Lost
    <3>4. Log!GiveUp
      BY <2>1, <3>2, <3>3 DEF Log!GiveUp, Log!Over, Log!None, Lost
    <3> QED BY <3>4 DEF Log!Next
  <2> QED BY <2>3, <2>4
<1> QED
  BY <1>1, <1>2, <1>3, <1>4, <1>5, <1>6, <1>7, <1>8, <1>9, <1>10, <1>11, <1>12, <1>13,
     <1>14, <1>15, NextCases

(* The sessions, their two files and the network implement the intent log  *)
(* (coordinator.py, submit and run): a transaction is announced in         *)
(* pending.json before it is sent, sent once at most, and the entry goes   *)
(* only when it is booked, failed, or given up by name.                    *)
THEOREM ImplementsIntentLog == Spec => KeepsIntentLog
<1>1. Init => Log!Init
  BY DEF Init, ChainInit, Log!Init, Log!None
<1>2. Inv /\ [Next]_vars => [Log!Next]_(Log!vars)
  BY LogStep
<1> QED BY <1>1, <1>2, Invariance, PTL DEF Spec, KeepsIntentLog, Log!Spec

-----------------------------------------------------------------------------
(* A dry run has no marker of its own and finds none when it starts.       *)
DryInv == pc # "down" /\ ~live => pending = 0

LEMMA DryInvStep ==
  ASSUME Inv, DryInv, [Next]_vars
  PROVE  DryInv'
PROOF
<1> USE DEF DryInv
<1>1. CASE Rules \/ PollStop \/ Quiet \/ UNCHANGED vars
  BY <1>1, FrameStep DEF core, Deciding
<1>2. CASE ReadPrice \/ \E d \in Digests : Candidate(d)
  BY <1>2, DraftStep DEF Inv, core, Deciding
<1>3. CASE \E t \in mempool : Include(t) /\ UNCHANGED coordinatorVars
  BY <1>3 DEF coordinatorVars, diskVars
<1>4. CASE \E t \in mempool : Evict(t) /\ UNCHANGED coordinatorVars
  BY <1>4 DEF coordinatorVars, diskVars
<1>5. CASE Start
  BY <1>5 DEF Start, MayStart, diskVars
<1>6. CASE CountDry \/ WritePending
  BY <1>6 DEF CountDry, WritePending, Prepared
<1>7. CASE Broadcast \/ SettleMint \/ Save \/ SettleRevert
  BY <1>7 DEF Broadcast, SettleMint, Settles, Save, SettleRevert, memoryVars, diskVars
<1>8. CASE OwnerMismatch \/ Unlink \/ Reconcile
  BY <1>8 DEF OwnerMismatch, Unlink, Reconcile, memoryVars
<1>9. CASE Exit \/ Crash
  BY <1>9 DEF Exit, Crash, Forget
<1> QED
  BY <1>1, <1>2, <1>3, <1>4, <1>5, <1>6, <1>7, <1>8, <1>9, NextCases

(* With nothing marked nothing is on its way, and the phases that send,    *)
(* settle and save are out of a dry run's reach.                           *)
LEMMA DryStep ==
  ASSUME Inv, DryInv, [Next]_vars, pc # "down", ~live
  PROVE  UNCHANGED <<pending, saved, torn, mempool, funds>>
PROOF
<1>1. pending = 0 /\ pc \notin {"send", "receipt", "saving", "unlink"}
  BY DEF DryInv, Inv, MarkerInv, Settling
<1>2. mempool = {}
  BY <1>1 DEF Inv, IdsInv, MarkerInv, InFlightIsMarked
<1>3. CASE Rules \/ PollStop \/ Quiet \/ UNCHANGED vars
  BY <1>3, FrameStep DEF core
<1>4. CASE ReadPrice \/ \E d \in Digests : Candidate(d)
  BY <1>4, DraftStep DEF Inv, core
<1>5. CASE CountDry
  BY <1>5, PreparedStep DEF CountDry, Inv
<1>6. CASE Exit \/ Crash
  BY <1>6 DEF Exit, Crash, chainVars, diskVars
<1>7. ~Start /\ ~WritePending /\ ~Reconcile
  BY DEF Start, MayStart, WritePending, Reconcile
<1>8. ~Broadcast /\ ~SettleMint /\ ~Save /\ ~OwnerMismatch /\ ~SettleRevert /\ ~Unlink
  BY <1>1 DEF Broadcast, SettleMint, Settles, Save, OwnerMismatch, SettleRevert, Unlink
<1> QED
  BY <1>2, <1>3, <1>4, <1>5, <1>6, <1>7, <1>8, NextCases

(* A dry run changes neither file and sends nothing, and nothing an        *)
(* earlier live session sent is still on its way while it runs             *)
(* (coordinator.py, run and handle_candidate).                             *)
THEOREM DryRunsAreDry == Spec => DryRunTouchesNothing
<1>1. Init => DryInv
  BY DEF Init, DryInv
<1>2. Inv /\ DryInv /\ [Next]_vars => DryInv'
  BY DryInvStep
<1>3. Inv /\ DryInv /\ [Next]_vars =>
        [pc # "down" /\ ~live => UNCHANGED <<pending, saved, torn, mempool, funds>>]_vars
  BY DryStep
<1> QED BY <1>1, <1>2, <1>3, Invariance, PTL DEF Spec, DryRunTouchesNothing

-----------------------------------------------------------------------------
(* While the session still decides, sends or settles, it has no reason to  *)
(* stop: the one it finds while it settles waits for the marker to go.     *)
StopInv == pc \notin {"down", "stopping", "unlink"} => stop = "none"

LEMMA StopInvStep ==
  ASSUME StopInv, [Next]_vars
  PROVE  StopInv'
PROOF
<1> USE DEF StopInv
<1>1. CASE Rules
  BY <1>1 DEF Rules, coordinatorVars
<1>2. CASE PollStop
  BY <1>2 DEF PollStop, HoursUp, SoldOut, TooDear, AgentGone, RpcError, BadCandidate,
     OverBudget, Insolvent, GiveUpOnReceipt, StopWith
<1>3. CASE Quiet
  BY <1>3 DEF Quiet, AlreadyDone, MayStart, HoursPass, KeepJob, NewJob, EndOfPoll,
     RecheckPrev, RecheckTarget, StopWith
<1>4. CASE ReadPrice \/ \E d \in Digests : Candidate(d)
  BY <1>4 DEF ReadPrice, Candidate, Fresh, StopWith
<1>5. CASE \E t \in mempool : (Include(t) \/ Evict(t)) /\ UNCHANGED coordinatorVars
  BY <1>5 DEF coordinatorVars
<1>6. CASE Start \/ Reconcile \/ Exit \/ Crash
  BY <1>6 DEF Start, Reconcile, Exit, Crash, Forget
<1>7. CASE CountDry \/ WritePending
  BY <1>7 DEF CountDry, WritePending, Prepared
<1>8. CASE Broadcast \/ SettleMint \/ Save \/ OwnerMismatch \/ SettleRevert \/ Unlink
  BY <1>8 DEF Broadcast, SettleMint, Settles, Save, OwnerMismatch, SettleRevert, Unlink, StopWith
<1>9. CASE UNCHANGED vars
  BY <1>9 DEF vars, coordinatorVars
<1> QED
  BY <1>1, <1>2, <1>3, <1>4, <1>5, <1>6, <1>7, <1>8, <1>9, NextCases

(* What is left to a session with a reason to stop.                        *)
StopFinal ==
  pc # "down" /\ stop # "none" =>
     mempool' \subseteq mempool /\ stop' \in {stop, "none"} /\ (stop' = "none" => pc' = "down")

LEMMA StopStep ==
  ASSUME StopInv, [Next]_vars
  PROVE  StopFinal
PROOF
<1> SUFFICES ASSUME pc # "down", stop # "none"
             PROVE  /\ mempool' \subseteq mempool
                    /\ stop' = stop \/ (stop' = "none" /\ pc' = "down")
  BY DEF StopFinal
<1>1. pc \in {"stopping", "unlink"}
  BY DEF StopInv
<1> USE <1>1
<1>2. CASE Rules
  BY <1>2 DEF Rules, OtherMints, AnchorAdvances, TargetMoves, PriceMoves, walletVars,
     coordinatorVars
<1>3. CASE HoursPass
  BY <1>3 DEF HoursPass, chainVars
<1>4. ASSUME NEW t \in mempool, Include(t) \/ Evict(t), UNCHANGED coordinatorVars
      PROVE  mempool' \subseteq mempool /\ stop' = stop
  BY <1>4 DEF Include, Evict, coordinatorVars
<1>5. CASE Unlink \/ Exit \/ Crash
  BY <1>5 DEF Unlink, Exit, Crash, Forget, chainVars
<1>6. CASE UNCHANGED vars
  BY <1>6 DEF vars, chainVars, coordinatorVars
<1>7. ~PollStop
  BY DEF PollStop, HoursUp, SoldOut, TooDear, AgentGone, RpcError, BadCandidate, Fresh,
     OverBudget, Insolvent, GiveUpOnReceipt
<1>8. Quiet => HoursPass
  BY DEF Quiet, AlreadyDone, MayStart, KeepJob, NewJob, EndOfPoll, RecheckPrev, RecheckTarget
<1>9. ~ReadPrice /\ ~(\E d \in Digests : Candidate(d)) /\ ~CountDry /\ ~WritePending
      /\ ~Start /\ ~Reconcile
  BY DEF ReadPrice, Candidate, Fresh, CountDry, WritePending, Prepared, Start, MayStart,
     Reconcile
<1>10. ~Broadcast /\ ~SettleMint /\ ~Save /\ ~OwnerMismatch /\ ~SettleRevert
  BY DEF Broadcast, SettleMint, Settles, Save, OwnerMismatch, SettleRevert
<1> QED
  BY <1>2, <1>3, <1>4, <1>5, <1>6, <1>7, <1>8, <1>9, <1>10, NextCases

(* A session that has found a reason to stop sends nothing any more, and   *)
(* keeps that reason until the process is gone (coordinator.py, run).      *)
THEOREM StopsForGood == Spec => StopIsFinal
<1>1. Init => StopInv
  BY DEF Init, StopInv
<1>2. StopInv /\ [Next]_vars => StopInv'
  BY StopInvStep
<1>3. StopInv /\ [Next]_vars =>
        [pc # "down" /\ stop # "none" =>
           mempool' \subseteq mempool /\ stop' \in {stop, "none"}
             /\ (stop' = "none" => pc' = "down")]_vars
  BY StopStep DEF StopFinal
<1> QED BY <1>1, <1>2, <1>3, PTL DEF Spec, StopIsFinal

-----------------------------------------------------------------------------
(* One element more is one more at most.                                   *)
LEMMA OneMore ==
  ASSUME NEW S, IsFiniteSet(S), NEW x, NEW n \in Nat
  PROVE  /\ IsFiniteSet(S \union {x})
         /\ Cardinality(S) < n => Cardinality(S \union {x}) <= n
PROOF
<1>1. Cardinality(S) \in Nat
  BY FS_CardinalityType
<1>2. /\ IsFiniteSet(S \union {x})
      /\ Cardinality(S \union {x}) \in {Cardinality(S), Cardinality(S) + 1}
  BY FS_AddElement
<1> QED BY <1>1, <1>2

-----------------------------------------------------------------------------
(* The cats.  A session works on a transaction only below the target, and  *)
(* the job that has reached it takes no candidate any more.                *)
Below == Cardinality(minted) < Target

Working == {"poll", "prev", "target", "price", "funds", "send", "receipt"}

TargetInv ==
  /\ IsFiniteSet(minted) /\ IsFiniteSet(saved)
  /\ Cardinality(minted) <= Target /\ Cardinality(saved) <= Target
  /\ pc \in Working => Below
  /\ pc \in {"events", "unlink"} /\ job.id \notin submitted => Below
  /\ pc \in {"send", "receipt", "saving"} => job.id \in submitted

LEMMA TargetInit == Init => TargetInv
<1> SUFFICES ASSUME Init PROVE TargetInv
  OBVIOUS
<1>1. IsFiniteSet({}) /\ Cardinality({}) = 0
  BY FS_EmptySet
<1> QED BY <1>1, CoordinatorAssumption DEF Init, TargetInv, Working

LEMMA TargetStep ==
  ASSUME TypeOK, TargetInv, [Next]_vars
  PROVE  TargetInv'
PROOF
<1> USE DEF TargetInv, Below, Working
<1>0. Cardinality(minted) \in Nat /\ Cardinality(saved) \in Nat /\ Target \in Nat
  BY FS_CardinalityType, CoordinatorAssumption
<1>1. CASE Rules \/ UNCHANGED vars
  BY <1>1 DEF Rules, vars, coordinatorVars, memoryVars, diskVars
<1>2. CASE PollStop
  BY <1>2 DEF PollStop, HoursUp, SoldOut, TooDear, AgentGone, RpcError, BadCandidate,
     OverBudget, Insolvent, GiveUpOnReceipt, StopWith, memoryVars, diskVars
<1>3. CASE Quiet
  <2>1. CASE EndOfPoll
    <3>1. minted' = minted /\ saved' = saved
      BY <2>1 DEF EndOfPoll, memoryVars, diskVars
    <3>2. \/ pc' = "stopping"
          \/ pc' = "poll" /\ ~(Cardinality(minted) >= Target)
      BY <2>1 DEF EndOfPoll, StopWith
    <3>3. pc' = "poll" => Cardinality(minted) < Target
      BY <1>0, <3>2
    <3> QED BY <3>1, <3>2, <3>3
  <2>2. CASE NewJob
    BY <2>2 DEF NewJob, StopWith, diskVars
  <2>3. CASE AlreadyDone \/ KeepJob \/ RecheckPrev \/ RecheckTarget
    BY <2>3 DEF AlreadyDone, KeepJob, RecheckPrev, RecheckTarget, memoryVars, diskVars
  <2>4. CASE HoursPass
    BY <2>4 DEF HoursPass, diskVars
  <2> QED BY <1>3, <2>1, <2>2, <2>3, <2>4 DEF Quiet
<1>4. CASE \E t \in mempool : (Include(t) \/ Evict(t)) /\ UNCHANGED coordinatorVars
  BY <1>4 DEF coordinatorVars, memoryVars, diskVars
<1>5. CASE Start
  BY <1>0, <1>5 DEF Start, diskVars
<1>6. CASE ReadPrice
  BY <1>6 DEF ReadPrice, StopWith, diskVars
<1>7. ASSUME NEW d \in Digests, Candidate(d) PROVE TargetInv'
  BY <1>7 DEF Candidate, Fresh, diskVars
<1>8. CASE CountDry
  <2>1. PICK reserve \in Reserves : Prepared(reserve)
    BY <1>8 DEF CountDry
  <2>2. /\ pc = "funds" /\ job' = job /\ saved' = saved
        /\ submitted' = submitted \union {job.id}
    BY <2>1 DEF Prepared
  <2>3. minted' = minted \union {serial + 1} /\ pc' = "events"
    BY <1>8 DEF CountDry
  <2>4. IsFiniteSet(minted') /\ Cardinality(minted') <= Target
    BY <1>0, <2>2, <2>3, OneMore
  <2> QED BY <2>2, <2>3, <2>4
<1>9. CASE WritePending
  BY <1>9 DEF WritePending, Prepared
<1>10. CASE Broadcast
  BY <1>10 DEF Broadcast, memoryVars, diskVars
<1>11. CASE SettleMint
  <2>1. /\ pc = "receipt" /\ pc' = "saving" /\ job' = job /\ submitted' = submitted
        /\ saved' = saved /\ minted' = minted \union {tx.id}
    BY <1>11 DEF SettleMint, Settles
  <2>2. IsFiniteSet(minted') /\ Cardinality(minted') <= Target
    BY <1>0, <2>1, OneMore
  <2> QED BY <2>1, <2>2
<1>12. CASE Save
  BY <1>12 DEF Save, memoryVars
<1>13. CASE OwnerMismatch
  BY <1>13 DEF OwnerMismatch, StopWith, memoryVars
<1>14. CASE SettleRevert
  BY <1>14 DEF SettleRevert, Settles, diskVars
<1>15. CASE Unlink
  BY <1>15 DEF Unlink, memoryVars
<1>16. CASE Exit \/ Crash
  <2>1. IsFiniteSet({}) /\ Cardinality({}) = 0
    BY FS_EmptySet
  <2> QED BY <1>0, <1>16, <2>1 DEF Exit, Crash, Forget, diskVars
<1>17. CASE Reconcile
  BY <1>17 DEF Reconcile, memoryVars
<1> QED
  BY <1>1, <1>2, <1>3, <1>4, <1>5, <1>6, <1>7, <1>8, <1>9, <1>10, <1>11, <1>12, <1>13,
     <1>14, <1>15, <1>16, <1>17, NextCases

(* Neither the sessions together nor a dry run mint more than TARGET_MINTS *)
(* cats, however many candidates a job gets (coordinator.py, run and       *)
(* handle_candidate).                                                      *)
THEOREM TargetHolds == Spec => []TargetNeverOvershot
<1>1. TypeOK /\ TargetInv /\ [Next]_vars => TargetInv'
  BY TargetStep
<1>2. TargetInv => TargetNeverOvershot
  BY DEF TargetInv, TargetNeverOvershot
<1> QED BY <1>1, <1>2, TargetInit, TypeCorrect, PTL DEF Spec

-----------------------------------------------------------------------------
(* The reverts.  The counter in memory is behind the chain by the one      *)
(* receipt that has not been settled, and a transaction is sent, and on    *)
(* its way, only while one revert more is still allowed.                   *)
Failed == {r \in receipts : ~r.ok /\ r.id > first}
Unsettled == \E r \in receipts : r.id = tx.id /\ ~r.ok

RevertInv ==
  /\ IsFiniteSet(receipts)
  /\ Cardinality(Failed) <= MaxReverts
  /\ mempool # {} \/ pc = "send" => Cardinality(Failed) < MaxReverts
  /\ pc = "down" => reverts = 0
  /\ pc \in Deciding \union {"send", "receipt", "saving"} => reverts < MaxReverts
  /\ pc \in Deciding \union {"send", "saving", "unlink"} => Cardinality(Failed) <= reverts
  /\ pc = "receipt" => /\ Cardinality(Failed) <= reverts + 1
                       /\ ~Unsettled => Cardinality(Failed) <= reverts
  /\ pc = "unlink" /\ stop = "none" => reverts < MaxReverts

LEMMA FailedCounts ==
  ASSUME IsFiniteSet(receipts)
  PROVE  IsFiniteSet(Failed) /\ Cardinality(Failed) \in Nat
  BY FS_Subset, FS_CardinalityType DEF Failed

LEMMA RevertInit == Init => RevertInv
<1> SUFFICES ASSUME Init PROVE RevertInv
  OBVIOUS
<1>1. IsFiniteSet({}) /\ Cardinality({}) = 0
  BY FS_EmptySet
<1>2. receipts = {} /\ mempool = {} /\ pc = "down" /\ reverts = 0
  BY DEF Init, ChainInit
<1>3. Failed = {}
  BY <1>2 DEF Failed
<1> QED BY <1>1, <1>2, <1>3, CoordinatorAssumption DEF RevertInv, Deciding

(* What a step may leave alone without touching the counts.                *)
counts == <<mempool, receipts, first, reverts>>

LEMMA CountsFrame ==
  ASSUME Rules \/ PollStop \/ Quiet \/ ReadPrice \/ (\E d \in Digests : Candidate(d))
           \/ CountDry \/ UNCHANGED vars
  PROVE  /\ UNCHANGED counts
         /\ \/ pc' = pc /\ tx' = tx /\ (stop' = stop \/ pc = "down")
            \/ pc \in Deciding /\ pc' \in Deciding \union {"stopping"}
            \/ pc = "receipt" /\ pc' = "stopping"
PROOF
<1> USE DEF counts, chainVars, walletVars, memoryVars, diskVars, historyVars, Deciding
<1>1. CASE Rules
  BY <1>1 DEF Rules, OtherMints, AnchorAdvances, TargetMoves, PriceMoves, coordinatorVars
<1>2. CASE PollStop
  BY <1>2 DEF PollStop, HoursUp, SoldOut, TooDear, AgentGone, RpcError, BadCandidate,
     Fresh, OverBudget, Insolvent, GiveUpOnReceipt, StopWith
<1>3. CASE Quiet
  BY <1>3 DEF Quiet, AlreadyDone, MayStart, HoursPass, KeepJob, NewJob, EndOfPoll,
     RecheckPrev, RecheckTarget, StopWith
<1>4. CASE ReadPrice
  BY <1>4 DEF ReadPrice, StopWith
<1>5. CASE \E d \in Digests : Candidate(d)
  BY <1>5 DEF Candidate, Fresh
<1>6. CASE CountDry
  BY <1>6 DEF CountDry, Prepared
<1>7. CASE UNCHANGED vars
  BY <1>7 DEF vars, coordinatorVars
<1> QED BY <1>1, <1>2, <1>3, <1>4, <1>5, <1>6, <1>7

LEMMA RevertStep ==
  ASSUME Inv, RevertInv, [Next]_vars
  PROVE  RevertInv'
PROOF
<1> DEFINE n == Cardinality(Failed)
<1>0. n \in Nat /\ reverts \in Nat /\ MaxReverts \in Nat /\ first \in Nat
  BY FailedCounts, CoordinatorAssumption DEF RevertInv, Inv, TypeOK
<1>1. CASE Rules \/ PollStop \/ Quiet \/ ReadPrice \/ (\E d \in Digests : Candidate(d))
             \/ CountDry \/ UNCHANGED vars
  <2>1. UNCHANGED counts
    BY <1>1, CountsFrame
  <2>2. Failed' = Failed
    BY <2>1 DEF counts, Failed
  <2>3. CASE pc' = pc /\ tx' = tx /\ (stop' = stop \/ pc = "down")
    <3>1. Unsettled' = Unsettled
      BY <2>1, <2>3 DEF counts, Unsettled
    <3> QED BY <2>1, <2>2, <2>3, <3>1 DEF RevertInv, counts, Deciding
  <2>4. CASE pc \in Deciding /\ pc' \in Deciding \union {"stopping"}
    BY <2>1, <2>2, <2>4 DEF RevertInv, counts, Deciding
  <2>5. CASE pc = "receipt" /\ pc' = "stopping"
    BY <2>1, <2>2, <2>5 DEF RevertInv, counts, Deciding
  <2> QED BY <1>1, <2>3, <2>4, <2>5, CountsFrame
<1>2. ASSUME NEW t \in mempool, Include(t), UNCHANGED coordinatorVars
      PROVE  RevertInv'
  <2>1. /\ mempool # {} /\ mempool' = {} /\ pc \in {"down", "receipt", "stopping"}
        /\ (pc = "receipt" => t = tx)
    BY <1>2, IncludeStep DEF Inv
  <2>2. PICK r \in Receipt : r.id = t.id /\ receipts' = receipts \union {r}
    BY <1>2, IncludeStep DEF Inv
  <2>3. UNCHANGED <<pc, stop, tx, first, reverts>>
    BY <1>2 DEF coordinatorVars, memoryVars, historyVars
  <2>4. IsFiniteSet(receipts')
    BY <2>2, OneMore DEF RevertInv
  <2>5. IsFiniteSet(Failed) /\ n < MaxReverts
    BY <2>1, FailedCounts DEF RevertInv
  <2>6. Failed' \in {Failed, Failed \union {r}}
    BY <2>2, <2>3 DEF Failed
  <2>7. Cardinality(Failed') \in {n, n + 1}
    BY <2>5, <2>6, FS_AddElement
  <2>8. Cardinality(Failed') <= MaxReverts
    BY <1>0, <2>5, <2>7
  <2>9. CASE pc = "receipt"
    <3>1. t = tx /\ ~Unsettled /\ n <= reverts
      BY <2>1, <2>9 DEF RevertInv, Unsettled, Inv, IdsInv, HasReceipt
    <3>2. ~Unsettled' => r.ok
      BY <2>2, <2>3, <3>1 DEF Unsettled
    <3>3. r.ok => Failed' = Failed
      BY <2>2, <2>3 DEF Failed
    <3>4. Cardinality(Failed') <= reverts + 1 /\ (~Unsettled' => Cardinality(Failed') <= reverts)
      BY <1>0, <2>7, <3>1, <3>2, <3>3
    <3>5. reverts < MaxReverts
      BY <2>9 DEF RevertInv
    <3> QED BY <2>1, <2>3, <2>4, <2>8, <2>9, <3>4, <3>5 DEF RevertInv, Deciding
  <2>10. CASE pc \in {"down", "stopping"}
    BY <2>1, <2>3, <2>4, <2>8, <2>10 DEF RevertInv, Deciding
  <2> QED BY <2>1, <2>9, <2>10
<1>3. ASSUME NEW t \in mempool, Evict(t), UNCHANGED coordinatorVars
      PROVE  RevertInv'
  <2>1. UNCHANGED <<receipts, pc, stop, tx, first, reverts>> /\ mempool # {}
    BY <1>3 DEF Evict, coordinatorVars, memoryVars, historyVars
  <2>2. Failed' = Failed /\ Unsettled' = Unsettled
    BY <2>1 DEF Failed, Unsettled
  <2> QED BY <2>1, <2>2 DEF RevertInv
<1>4. CASE Start
  <2>1. /\ receipts' = receipts /\ mempool' = mempool /\ first' = serial
        /\ pc = "down" /\ pc' = "poll" /\ reverts' = reverts /\ pending = 0
    BY <1>4 DEF Start, MayStart
  <2>2. Failed' = {}
    <3>1. \A r \in receipts : r.id \in Nat /\ r.id <= serial /\ serial \in Nat
      BY DEF Inv, IdsInv, TypeOK, Receipt
    <3>2. \A r \in receipts : ~(r.id > serial)
      BY <3>1
    <3> QED BY <2>1, <3>2 DEF Failed
  <2>3. Cardinality({}) = 0
    BY FS_EmptySet
  <2>4. 0 < MaxReverts
    BY CoordinatorAssumption
  <2>5. reverts = 0
    BY <2>1 DEF RevertInv
  <2>6. Cardinality(Failed') = 0 /\ reverts' = 0
    BY <2>1, <2>2, <2>3, <2>5
  <2> QED BY <1>0, <2>1, <2>4, <2>6 DEF RevertInv, Deciding
<1>5. CASE WritePending
  <2>1. /\ UNCHANGED <<receipts, mempool, first, reverts>> /\ pc = "funds" /\ pc' = "send"
    BY <1>5 DEF WritePending, Prepared, chainVars
  <2>2. Failed' = Failed
    BY <2>1 DEF Failed
  <2>3. n <= reverts /\ reverts < MaxReverts
    BY <2>1 DEF RevertInv, Deciding
  <2>4. n < MaxReverts
    BY <1>0, <2>3
  <2> QED BY <2>1, <2>2, <2>3, <2>4 DEF RevertInv, Deciding
<1>6. CASE Broadcast
  <2>1. /\ UNCHANGED <<receipts, first, reverts, tx>> /\ pc = "send" /\ pc' = "receipt"
    BY <1>6 DEF Broadcast, memoryVars, historyVars
  <2>2. Failed' = Failed
    BY <2>1 DEF Failed
  <2>3. n <= reverts /\ n <= reverts + 1 /\ n < MaxReverts /\ reverts < MaxReverts
    BY <1>0, <2>1 DEF RevertInv
  <2> QED BY <2>1, <2>2, <2>3 DEF RevertInv, Deciding
<1>7. CASE SettleMint
  <2>1. /\ UNCHANGED <<receipts, mempool, first, reverts>> /\ pc = "receipt" /\ pc' = "saving"
        /\ \E r \in receipts : r.id = tx.id /\ r.ok
    BY <1>7 DEF SettleMint, Settles, chainVars, historyVars
  <2>2. ~Unsettled
    BY <2>1 DEF Unsettled, Inv, IdsInv
  <2>3. Failed' = Failed
    BY <2>1 DEF Failed
  <2>4. n <= reverts /\ reverts < MaxReverts
    BY <2>1, <2>2 DEF RevertInv
  <2> QED BY <2>1, <2>3, <2>4 DEF RevertInv, Deciding
<1>8. CASE SettleRevert
  <2>1. /\ UNCHANGED <<receipts, mempool, first>> /\ pc = "receipt" /\ pc' = "unlink"
        /\ reverts' = reverts + 1
    BY <1>8 DEF SettleRevert, Settles, chainVars, historyVars
  <2>2. stop' = "none" => ~TooManyReverts(reverts + 1)
    BY <1>8 DEF SettleRevert
  <2>3. Failed' = Failed
    BY <2>1 DEF Failed
  <2>4. n <= reverts' /\ (stop' = "none" => reverts' < MaxReverts)
    BY <1>0, <2>1, <2>2 DEF RevertInv, TooManyReverts
  <2> QED BY <2>1, <2>3, <2>4 DEF RevertInv, Deciding
<1>9. CASE Save
  <2>1. /\ UNCHANGED <<receipts, mempool, first, reverts>> /\ pc = "saving" /\ pc' = "unlink"
    BY <1>9 DEF Save, chainVars, memoryVars, historyVars
  <2>2. Failed' = Failed
    BY <2>1 DEF Failed
  <2> QED BY <2>1, <2>2 DEF RevertInv, Deciding
<1>10. CASE Unlink
  <2>1. /\ UNCHANGED <<receipts, mempool, first, reverts>> /\ pc = "unlink"
        /\ pc' \in {"events", "stopping"} /\ (pc' = "events" => stop = "none")
    BY <1>10 DEF Unlink, chainVars, memoryVars, historyVars
  <2>2. Failed' = Failed
    BY <2>1 DEF Failed
  <2> QED BY <2>1, <2>2 DEF RevertInv, Deciding
<1>11. CASE OwnerMismatch
  <2>1. /\ UNCHANGED <<receipts, mempool, first, reverts>> /\ pc = "receipt"
        /\ pc' = "stopping"
    BY <1>11 DEF OwnerMismatch, StopWith, chainVars, memoryVars
  <2>2. Failed' = Failed
    BY <2>1 DEF Failed
  <2> QED BY <2>1, <2>2 DEF RevertInv, Deciding
<1>12. CASE Exit \/ Crash
  <2>1. /\ UNCHANGED <<receipts, mempool, first>> /\ pc' = "down" /\ reverts' = 0
    BY <1>12 DEF Exit, Crash, Forget, chainVars, historyVars
  <2>2. Failed' = Failed
    BY <2>1 DEF Failed
  <2> QED BY <2>1, <2>2 DEF RevertInv, Deciding
<1>13. CASE Reconcile
  <2>1. /\ UNCHANGED <<receipts, mempool, first, reverts, pc, stop>> /\ pc = "down"
    BY <1>13 DEF Reconcile, chainVars, memoryVars
  <2>2. Failed' = Failed
    BY <2>1 DEF Failed
  <2> QED BY <2>1, <2>2 DEF RevertInv, Deciding
<1> QED
  BY <1>1, <1>2, <1>3, <1>4, <1>5, <1>6, <1>7, <1>8, <1>9, <1>10, <1>11, <1>12, <1>13,
     NextCases

(* A session burns gas on MAX_REVERTS reverted transactions at most, the   *)
(* one included after it gave up waiting or died among them                *)
(* (coordinator.py, submit).                                               *)
THEOREM RevertsAreBounded == Spec => []RevertsBounded
<1>1. Inv /\ RevertInv /\ [Next]_vars => RevertInv'
  BY RevertStep
<1>2. RevertInv => RevertsBounded
  BY DEF RevertInv, RevertsBounded, Failed
<1> QED BY <1>1, <1>2, RevertInit, Invariance, PTL DEF Spec
=============================================================================
