---------------------------- MODULE Coordinator ----------------------------
(***************************************************************************)
(* One mining session after another on one state directory: the            *)
(* Coordinator class of coordinator.py, the two files it keeps there       *)
(* (pending.json and receipts.json), and the operator who reconciles a     *)
(* pending transaction by hand between two sessions.                       *)
(*                                                                         *)
(* The mining agent appears only through what it may send: a candidate     *)
(* for the current job, or its own end.  Candidates for other jobs change  *)
(* nothing, so they are not actions.  Every read of the chain that the     *)
(* code makes at a time of its own is a step of its own.                   *)
(***************************************************************************)
EXTENDS Contract, FiniteSets

CONSTANTS MaxPrice,    \* MAX_PRICE_ETH
          MaxSpend,    \* MAX_SPEND_ETH
          Target,      \* TARGET_MINTS
          MaxReverts,  \* MAX_REVERTS
          Modes,       \* subset of BOOLEAN: whether --live may be given
          MaxSessions, \* bound: sessions started
          MaxJobs,     \* bound: jobs handed out in one session
          MaxTx        \* bound: transactions built, over all sessions

ASSUME CoordinatorAssumption ==
  /\ MaxPrice \in Nat /\ MaxSpend \in Nat
  /\ Target \in Nat \ {0} /\ MaxReverts \in Nat \ {0}
  /\ Modes \subseteq BOOLEAN
  /\ MaxSessions \in Nat /\ MaxJobs \in Nat /\ MaxTx \in Nat

VARIABLES pc,         \* where run() and the calls it makes have got to
          live,       \* cfg.live
          stop,       \* stop_reason, "none" while it is None
          job,        \* self.job with its job_id
          submitted,  \* submitted_jobs
          minted,     \* self.minted, as the ids of the transactions recorded
          spend,      \* spend_wei
          reverts,
          tx,         \* the transaction handle_candidate and submit work on
          late,       \* MAX_HOURS have gone by
          pending,    \* pending.json: a transaction id, 0 when there is no file
          saved,      \* receipts.json as last written, as ids of transactions
          torn,       \* receipts.json was truncated and not yet written again
          serial,     \* transactions built so far; the last one's id
          sessions,   \* sessions started so far
          first,      \* history: serial when this session started
          disowned,   \* history: minted, but the ownership check failed
          writtenOff, \* history: minted, marker removed by hand, not recorded
          uncharged   \* history: gas of the session's receipts without gasUsed

memoryVars == <<job, submitted, minted, spend, reverts, tx, late>>
diskVars == <<pending, saved, torn>>
historyVars == <<serial, sessions, first, disowned, writtenOff, uncharged>>
coordinatorVars == <<pc, live, stop, memoryVars, diskVars, historyVars>>
vars == <<chainVars, coordinatorVars>>

NoJob == [id |-> 0, prev |-> 0, anchor |-> 0, target |-> 0]
NoTx == [id |-> 0, value |-> 0, reserve |-> 0, prev |-> 0, anchor |-> 0, digest |-> 0]

Job == [id : Nat, prev : Nat, anchor : Nat, target : Targets]

Reasons == {"none", "already done", "max hours", "sold out", "price", "target reached",
            "bad candidate", "budget", "balance", "unresolved", "ownership",
            "reverts", "pipe", "agent"}

Cost(t) == t.value + t.reserve

-----------------------------------------------------------------------------
Init ==
  /\ ChainInit
  /\ pc = "down" /\ live \in Modes /\ stop = "none"
  /\ job = NoJob /\ submitted = {} /\ minted = {}
  /\ spend = 0 /\ reverts = 0 /\ tx = NoTx /\ late = FALSE
  /\ pending = 0 /\ saved = {} /\ torn = FALSE
  /\ serial = 0 /\ sessions = 0 /\ first = 0
  /\ disowned = {} /\ writtenOff = {} /\ uncharged = 0

(* The process ends and takes its memory with it; the files stay.          *)
Forget ==
  /\ pc' = "down"
  /\ job' = NoJob /\ submitted' = {} /\ minted' = {}
  /\ spend' = 0 /\ reverts' = 0 /\ tx' = NoTx /\ late' = FALSE

StopWith(reason) == stop' = reason /\ pc' = "stopping"

-----------------------------------------------------------------------------
(* Starting.  A pending.json or a receipts.json that does not parse makes  *)
(* the program raise, which changes nothing.                               *)
MayStartUnchecked == pc = "down" /\ ~torn  \* mutation

MayStart == pc = "down" /\ pending = 0 /\ ~torn

Start ==
  /\ MayStart /\ sessions < MaxSessions
  /\ Cardinality(saved) < Target
  /\ live' \in Modes
  /\ pc' = "poll" /\ stop' = "none"
  /\ minted' = saved
  /\ sessions' = sessions + 1
  /\ first' = serial
  /\ paid' = 0 /\ uncharged' = 0
  /\ UNCHANGED <<rulesVars, funds, mempool, receipts, ours, job, submitted, spend,
                 reverts, tx, late, diskVars, serial, disowned, writtenOff>>

AlreadyDone ==
  /\ MayStart
  /\ Cardinality(saved) >= Target
  /\ stop' = "already done"
  /\ UNCHANGED <<chainVars, pc, live, memoryVars, diskVars, historyVars>>

-----------------------------------------------------------------------------
(* The polling loop.                                                       *)
HoursPass ==
  /\ pc # "down" /\ ~late
  /\ late' = TRUE
  /\ UNCHANGED <<chainVars, pc, live, stop, job, submitted, minted, spend, reverts, tx,
                 diskVars, historyVars>>

HoursUp ==
  /\ pc = "poll" /\ late
  /\ StopWith("max hours")
  /\ UNCHANGED <<chainVars, live, memoryVars, diskVars, historyVars>>

SoldOut ==
  /\ pc = "poll" /\ ~late
  /\ total >= Supply
  /\ StopWith("sold out")
  /\ UNCHANGED <<chainVars, live, memoryVars, diskVars, historyVars>>

TooDear ==
  /\ pc = "poll" /\ ~late
  /\ total < Supply /\ price > MaxPrice
  /\ StopWith("price")
  /\ UNCHANGED <<chainVars, live, memoryVars, diskVars, historyVars>>

(* refresh_job: a new id only for a new (prev, anchor block, target).      *)
SameKey == /\ job.id # 0
           /\ job.prev = total /\ job.anchor = anchor /\ job.target = target

KeepJob ==
  /\ pc = "poll" /\ ~late
  /\ total < Supply /\ price <= MaxPrice
  /\ SameKey
  /\ pc' = "events"
  /\ UNCHANGED <<chainVars, live, stop, memoryVars, diskVars, historyVars>>

NewJob ==
  /\ pc = "poll" /\ ~late
  /\ total < Supply /\ price <= MaxPrice
  /\ ~SameKey
  /\ job.id < MaxJobs
  /\ job' = [id |-> job.id + 1, prev |-> total, anchor |-> anchor, target |-> target]
  /\ \/ pc' = "events" /\ UNCHANGED stop
     \/ StopWith("pipe")
  /\ UNCHANGED <<chainVars, live, submitted, minted, spend, reverts, tx, late,
                 diskVars, historyVars>>

(* The poll interval is over.                                              *)
EndOfPoll ==
  /\ pc = "events"
  /\ IF Cardinality(minted) >= Target
       THEN StopWith("target reached")
       ELSE pc' = "poll" /\ UNCHANGED stop
  /\ UNCHANGED <<chainVars, live, memoryVars, diskVars, historyVars>>

(* worker_error, stopped or the end of the agent's output.                 *)
AgentGone ==
  /\ pc = "events"
  /\ StopWith("agent")
  /\ UNCHANGED <<chainVars, live, memoryVars, diskVars, historyVars>>

-----------------------------------------------------------------------------
(* handle_candidate, on a candidate with digest d for the current job.     *)
FreshAgain == pc = "events" /\ job.id # 0  \* mutation: a job takes any number

Fresh == pc = "events" /\ job.id # 0 /\ job.id \notin submitted

Candidate(d) ==
  /\ Fresh
  /\ serial < MaxTx
  /\ Meets(d, job.target)
  /\ tx' = [NoTx EXCEPT !.prev = job.prev, !.anchor = job.anchor, !.digest = d]
  /\ pc' = "prev"
  /\ UNCHANGED <<chainVars, live, stop, job, submitted, minted, spend, reverts, late,
                 diskVars, historyVars>>

BadCandidate(d) ==
  /\ Fresh
  /\ ~Meets(d, job.target)
  /\ StopWith("bad candidate")
  /\ UNCHANGED <<chainVars, live, memoryVars, diskVars, historyVars>>

RecheckPrev ==
  /\ pc = "prev"
  /\ pc' = IF total = tx.prev THEN "target" ELSE "events"
  /\ UNCHANGED <<chainVars, live, stop, memoryVars, diskVars, historyVars>>

RecheckTarget ==
  /\ pc = "target"
  /\ pc' = IF Meets(tx.digest, target) THEN "price" ELSE "events"
  /\ UNCHANGED <<chainVars, live, stop, memoryVars, diskVars, historyVars>>

ReadPrice ==
  /\ pc = "price"
  /\ IF price > MaxPrice
       THEN StopWith("price") /\ UNCHANGED tx
       ELSE /\ tx' = [tx EXCEPT !.value = price]
            /\ pc' = "funds" /\ UNCHANGED stop
  /\ UNCHANGED <<chainVars, live, job, submitted, minted, spend, reverts, late,
                 diskVars, historyVars>>

Affordable(cost) == spend + cost <= MaxSpend

CoversPrice(cost) == funds >= tx.value  \* mutation: gas is forgotten

Covered(cost) == funds >= cost

OverBudget ==
  /\ pc = "funds"
  /\ \E reserve \in Reserves : ~Affordable(tx.value + reserve)
  /\ StopWith("budget")
  /\ UNCHANGED <<chainVars, live, memoryVars, diskVars, historyVars>>

Insolvent ==
  /\ pc = "funds"
  /\ \E reserve \in Reserves : Affordable(tx.value + reserve) /\ ~Covered(tx.value + reserve)
  /\ StopWith("balance")
  /\ UNCHANGED <<chainVars, live, memoryVars, diskVars, historyVars>>

(* The transaction is built; the job takes no other candidate.  A dry run  *)
(* counts it as minted, a live one signs it and leaves its hash in         *)
(* pending.json before anything is sent.                                   *)
Prepared(reserve) ==
  /\ pc = "funds"
  /\ Affordable(tx.value + reserve)
  /\ Covered(tx.value + reserve)
  /\ serial' = serial + 1
  /\ tx' = [tx EXCEPT !.id = serial + 1, !.reserve = reserve]
  /\ submitted' = submitted \union {job.id}
  /\ UNCHANGED <<chainVars, live, stop, job, spend, reverts, late, saved, torn,
                 sessions, first, disowned, writtenOff, uncharged>>

CountDry ==
  /\ ~live
  /\ \E reserve \in Reserves : Prepared(reserve)
  /\ minted' = minted \union {serial + 1}
  /\ pc' = "events"
  /\ UNCHANGED pending

WritePending ==
  /\ live
  /\ \E reserve \in Reserves : Prepared(reserve)
  /\ pending' = serial + 1
  /\ pc' = "send"
  /\ UNCHANGED minted

-----------------------------------------------------------------------------
(* submit.  Whatever send_raw returns or raises, the transaction may be    *)
(* out.                                                                    *)
BroadcastAgain ==  \* mutation: a send that raised is repeated
  /\ pc = "send"
  /\ mempool' \in {mempool, mempool \union {tx}}
  /\ pc' \in {"send", "receipt"}
  /\ UNCHANGED <<rulesVars, funds, receipts, ours, paid, live, stop, memoryVars,
                 diskVars, historyVars>>

Broadcast ==
  /\ pc = "send"
  /\ mempool' \in {mempool, mempool \union {tx}}
  /\ pc' = "receipt"
  /\ UNCHANGED <<rulesVars, funds, receipts, ours, paid, live, stop, memoryVars,
                 diskVars, historyVars>>

(* No receipt within the deadline, or one without a status.                *)
GiveUpAndForget ==  \* mutation: the marker goes with the attempt
  /\ pc = "receipt"
  /\ StopWith("unresolved")
  /\ pending' = 0
  /\ UNCHANGED <<chainVars, live, memoryVars, saved, torn, historyVars>>

GiveUpWhenDropped ==  \* mutation: no deadline while the transaction may come
  /\ pc = "receipt" /\ tx \notin mempool
  /\ StopWith("unresolved")
  /\ UNCHANGED <<chainVars, live, memoryVars, diskVars, historyVars>>

GiveUpOnReceipt ==
  /\ pc = "receipt"
  /\ StopWith("unresolved")
  /\ UNCHANGED <<chainVars, live, memoryVars, diskVars, historyVars>>

SettlesFree(r, charge) ==  \* mutation: gasUsed is not looked at
  /\ pc = "receipt" /\ r.id = tx.id
  /\ charge = 0 /\ UNCHANGED uncharged

(* The receipt the code settles by, and the gas it charges for it: without *)
(* an effective gas price in it the gas at the price offered, without a    *)
(* gasUsed none at all.                                                    *)
Settles(r, charge) ==
  /\ pc = "receipt" /\ r.id = tx.id
  /\ \/ charge \in r.gas .. tx.reserve /\ UNCHANGED uncharged
     \/ charge = 0 /\ uncharged' = uncharged + r.gas

(* Opening receipts.json for writing empties it.                           *)
SettleMint ==
  /\ \E r \in receipts : \E charge \in 0 .. tx.reserve :
       /\ Settles(r, charge) /\ r.ok
       /\ spend' = spend + tx.value + charge
  /\ minted' = minted \union {tx.id}
  /\ torn' = TRUE
  /\ pc' = "saving"
  /\ UNCHANGED <<chainVars, live, stop, job, submitted, reverts, tx, late, pending, saved,
                 serial, sessions, first, disowned, writtenOff>>

Save ==
  /\ pc = "saving"
  /\ saved' = minted /\ torn' = FALSE
  /\ pc' = "unlink"
  /\ UNCHANGED <<chainVars, live, stop, memoryVars, pending, historyVars>>

OwnerMismatch ==
  /\ pc = "receipt"
  /\ \E r \in receipts : r.id = tx.id /\ r.ok
  /\ pending' = 0
  /\ disowned' = disowned \union {tx.id}
  /\ StopWith("ownership")
  /\ UNCHANGED <<chainVars, live, memoryVars, saved, torn, serial, sessions, first,
                 writtenOff, uncharged>>

OneRevertMore(n) == n > MaxReverts  \* mutation: off by one

TooManyReverts(n) == n >= MaxReverts

SettleRevert ==
  /\ \E r \in receipts : \E charge \in 0 .. tx.reserve :
       /\ Settles(r, charge) /\ ~r.ok
       /\ spend' = spend + charge
  /\ reverts' = reverts + 1
  /\ IF TooManyReverts(reverts + 1)
       THEN stop' = "reverts" /\ UNCHANGED submitted
       ELSE /\ submitted' = submitted \ {job.id}
            /\ stop' \in {"none", "pipe"}
  /\ pc' = "unlink"
  /\ UNCHANGED <<chainVars, live, job, minted, tx, late, diskVars,
                 serial, sessions, first, disowned, writtenOff>>

UnlinkSkipped ==  \* mutation: the marker stays
  /\ pc = "unlink"
  /\ pc' = IF stop = "none" THEN "events" ELSE "stopping"
  /\ UNCHANGED <<chainVars, live, stop, memoryVars, diskVars, historyVars>>

UnlinkAndGoOn ==  \* mutation: stop_reason is not looked at
  /\ pc = "unlink"
  /\ pending' = 0 /\ pc' = "events"
  /\ UNCHANGED <<chainVars, live, stop, memoryVars, saved, torn, historyVars>>

Unlink ==
  /\ pc = "unlink"
  /\ pending' = 0
  /\ pc' = IF stop = "none" THEN "events" ELSE "stopping"
  /\ UNCHANGED <<chainVars, live, stop, memoryVars, saved, torn, historyVars>>

-----------------------------------------------------------------------------
(* Ending.  An RPC error inside handle_candidate, and one of owner_of, is  *)
(* caught by nobody: it passes through the finally of run.                 *)
RpcErrorUnwound ==  \* mutation: no finally around the loop
  /\ pc \in {"prev", "target", "price", "funds"}
  /\ pc' = "raised"
  /\ UNCHANGED <<chainVars, live, stop, memoryVars, diskVars, historyVars>>

RpcError ==
  /\ \/ pc \in {"prev", "target", "price", "funds"}
     \/ pc = "receipt" /\ \E r \in receipts : r.id = tx.id /\ r.ok
  /\ pc' = "stopping"
  /\ UNCHANGED <<chainVars, live, stop, memoryVars, diskVars, historyVars>>

Exit ==
  /\ pc = "stopping"
  /\ Forget
  /\ UNCHANGED <<chainVars, live, stop, diskVars, historyVars>>

(* The process is killed, or its machine dies.                             *)
Crash ==
  /\ pc # "down"
  /\ Forget
  /\ stop' = "none"
  /\ UNCHANGED <<chainVars, live, diskVars, historyVars>>

(* The operator looks the pending transaction up and removes the file.     *)
Reconcile ==
  /\ pc = "down" /\ pending # 0
  /\ \A t \in mempool : t.id # pending
  /\ pending' = 0
  /\ writtenOff' = writtenOff \union {r.id : r \in {s \in receipts :
                        s.id = pending /\ s.ok /\ (torn \/ s.id \notin saved)}}
  /\ UNCHANGED <<chainVars, pc, live, stop, memoryVars, saved, torn, serial, sessions,
                 first, disowned, uncharged>>

-----------------------------------------------------------------------------
Handling ==
  \/ RecheckPrev \/ RecheckTarget \/ ReadPrice
  \/ OverBudget \/ Insolvent \/ CountDry \/ WritePending

Submitting ==
  \/ Broadcast \/ GiveUpOnReceipt \/ SettleMint \/ Save \/ OwnerMismatch
  \/ SettleRevert \/ Unlink

Polling ==
  \/ HoursUp \/ SoldOut \/ TooDear \/ KeepJob \/ NewJob \/ EndOfPoll \/ AgentGone
  \/ \E d \in Digests : Candidate(d) \/ BadCandidate(d)

Next ==
  \/ ChainNext /\ UNCHANGED coordinatorVars
  \/ Start \/ AlreadyDone \/ HoursPass
  \/ Polling \/ Handling \/ Submitting
  \/ RpcError \/ Exit \/ Crash \/ Reconcile

Spec == Init /\ [][Next]_vars

(* The clock runs: every blocking call returns, the poll interval ends     *)
(* however many candidates are handled in it, MAX_HOURS go by.             *)
Fairness ==
  /\ WF_vars(Handling) /\ WF_vars(Submitting) /\ WF_vars(Exit)
  /\ SF_vars(EndOfPoll) /\ WF_vars(HoursPass) /\ WF_vars(HoursUp)

FairSpec == Spec /\ Fairness

-----------------------------------------------------------------------------
Phases == {"down", "poll", "events", "prev", "target", "price", "funds", "send",
           "receipt", "saving", "unlink", "stopping"}

(* Types: the variables of the session, of its files and of the wallet     *)
(* stay in their ranges.                                                   *)
TypeOK ==
  /\ total \in Nat /\ anchor \in Nat /\ target \in Targets /\ price \in Prices
  /\ funds \in Int /\ mempool \subseteq Tx /\ receipts \subseteq Receipt
  /\ ours \in Nat /\ paid \in Nat
  /\ pc \in Phases /\ live \in BOOLEAN /\ stop \in Reasons
  /\ job \in Job /\ submitted \subseteq Nat /\ minted \subseteq Nat
  /\ spend \in Nat /\ reverts \in Nat /\ tx \in Tx /\ late \in BOOLEAN
  /\ pending \in Nat /\ saved \subseteq Nat /\ torn \in BOOLEAN
  /\ serial \in Nat /\ sessions \in Nat /\ first \in Nat
  /\ disowned \subseteq Nat /\ writtenOff \subseteq Nat /\ uncharged \in Nat

(* A transaction that may still be included has its marker on disk, so     *)
(* there is never a second one on its way, however sessions crash and      *)
(* restart: pending.json is written before the broadcast and removed only  *)
(* after the receipt (coordinator.py, submit and run).                     *)
InFlightIsMarked ==
  \A t \in mempool : t.id = pending /\ \A u \in mempool : u = t

(* What the wallet paid in this session, and would still pay if the        *)
(* transaction on its way were accepted, exceeds MAX_SPEND_ETH by no more  *)
(* than the gas of receipts without a gasUsed, which handle_candidate      *)
(* cannot know of: receipts that came late or never, reverts and crashes   *)
(* add nothing to it.                                                      *)
BudgetHolds ==
  /\ paid <= MaxSpend + uncharged
  /\ \A t \in mempool : paid + Cost(t) <= MaxSpend + uncharged

(* The wallet can always pay what it sent: the balance is checked for the  *)
(* worst case and nothing else is in flight when it is.                    *)
Solvent ==
  /\ funds >= 0
  /\ \A t \in mempool : funds >= Cost(t)

(* Neither a live session nor a dry run mints beyond TARGET_MINTS: a job   *)
(* takes one candidate and the count is looked at before the next job.     *)
TargetNeverOvershot ==
  /\ Cardinality(minted) <= Target
  /\ ~torn => Cardinality(saved) <= Target

(* What receipts.json says, and what a crash inside its write has taken.   *)
Listed == IF torn THEN {} ELSE saved

LostInWrite == IF torn /\ pc # "saving" THEN saved ELSE {}

(* Every cat the wallet minted through these sessions is in receipts.json, *)
(* or in the memory of the session that is writing that file, or its       *)
(* marker is still there for the operator, or it was given up by an        *)
(* explicit step (ownership check, reconciliation).  The exception is a    *)
(* crash inside the write, which takes the older records along; it takes   *)
(* those and no other, and from then on no session runs, as the file does  *)
(* not parse.  Nothing is in receipts.json that did not mint.              *)
NoCatForgotten ==
  /\ \A r \in receipts : r.ok =>
       \/ r.id \in Listed \union disowned \union writtenOff \union {pending}
       \/ pc = "saving" /\ r.id \in minted
       \/ r.id \in LostInWrite
  /\ torn => pc \in {"saving", "down"}
  /\ \A i \in Listed : \E r \in receipts : r.id = i /\ r.ok

(* A session burns gas on at most MAX_REVERTS reverted transactions.       *)
RevertsBounded ==
  Cardinality({r \in receipts : ~r.ok /\ r.id > first}) <= MaxReverts

(* A dry run leaves the wallet and both files alone, whatever an earlier   *)
(* live session left behind on the network.                                *)
DryRunTouchesNothing ==
  [][pc # "down" /\ ~live => UNCHANGED <<pending, saved, torn, mempool, funds>>]_vars

(* Once a reason to stop is recorded nothing is sent any more, and the     *)
(* reason is not replaced before the process is gone.                      *)
StopIsFinal ==
  [][pc # "down" /\ stop # "none" =>
       mempool' \subseteq mempool /\ stop' \in {stop, "none"} /\ (stop' = "none" => pc' = "down")]_vars

(* A session ends, by MAX_HOURS at the latest, even when receipts never    *)
(* come and the poll cannot be answered.                                   *)
SessionEnds == pc # "down" ~> pc = "down"

(* The sessions, the two files and the network together keep an intent     *)
(* log: whatever crashes, a transaction is announced before it is sent,    *)
(* sent once at most, and its entry goes only when it cannot be included   *)
(* any more and is booked or given up (submit, run, the operator).  The    *)
(* book is what was booked: a crash inside the write of receipts.json      *)
(* loses its pages, which is NoCatForgotten's matter.                      *)
Log == INSTANCE IntentLog WITH
         intent <- pending,
         armed <- pc = "send",
         inFlight <- {t.id : t \in mempool},
         outcomes <- {<<r.id, r.ok>> : r \in receipts},
         book <- saved,
         lost <- disowned \union writtenOff

KeepsIntentLog == Log!Spec

-----------------------------------------------------------------------------
(* The inductive invariant: what links the phase of the session, the       *)
(* marker on disk, the transaction on its way and the receipts.            *)

Deciding == {"poll", "events", "prev", "target", "price", "funds"}
Settling == {"saving", "unlink"}

HasReceipt(t) == \E r \in receipts : r.id = t.id

(* Ids are handed out in order and used once.                              *)
IdsInv ==
  /\ pending <= serial /\ tx.id <= serial
  /\ \A t \in mempool : t.id # 0 /\ t.id <= serial /\ ~HasReceipt(t)
  /\ \A r \in receipts : r.id # 0 /\ r.id <= serial
  /\ \A r, s \in receipts : r.id = s.id => r = s

(* The marker is there from before the broadcast until after the receipt.  *)
MarkerInv ==
  /\ InFlightIsMarked
  /\ pc \in Deciding => pending = 0
  /\ pc \in {"send", "receipt"} \union Settling => pending = tx.id /\ tx.id # 0
  /\ pc = "send" => mempool = {} /\ ~HasReceipt(tx)
  /\ pc = "receipt" => mempool \subseteq {tx}
  /\ pc \in Settling => HasReceipt(tx)

(* spend_wei is behind the chain by the gas of receipts without gasUsed    *)
(* and by the one transaction whose receipt has not been settled.          *)
BudgetInv ==
  /\ BudgetHolds
  /\ pc \in Deciding \union Settling => paid <= spend + uncharged
  /\ pc \in {"send", "receipt"} => spend + Cost(tx) <= MaxSpend
  /\ pc \in {"send", "receipt"} /\ ~HasReceipt(tx) => paid <= spend + uncharged
  /\ pc = "receipt" =>
       \A r \in receipts : r.id = tx.id =>
          paid <= spend + uncharged + r.gas + (IF r.ok THEN tx.value ELSE 0)

FundsInv ==
  /\ Solvent
  /\ pc = "send" => funds >= Cost(tx)

(* The list in memory is the list on disk, plus the cat being recorded.    *)
RecordsInv ==
  /\ \A r \in receipts :
       r.ok => r.id \in saved \union disowned \union writtenOff \union {pending}
  /\ \A i \in saved : \E r \in receipts : r.id = i /\ r.ok
  /\ pc \in {"send", "receipt", "saving"} => live
  /\ pc = "saving" => /\ minted = saved \union {tx.id}
                      /\ \E r \in receipts : r.id = tx.id /\ r.ok
  /\ pc \notin {"down", "saving"} /\ live => minted = saved
  /\ pc = "unlink" => \A r \in receipts : r.id = tx.id /\ r.ok => r.id \in saved
  /\ torn => pc \in {"saving", "down"}

Inv == TypeOK /\ IdsInv /\ MarkerInv /\ BudgetInv /\ FundsInv /\ RecordsInv

-----------------------------------------------------------------------------
(* A claim of the repository's documentation that the code does not meet.  *)

(* docs/zero-to-mining.md: receipts.json lists "every cat that actually    *)
(* minted with its transaction hash".                                      *)
ReceiptsListWhatMinted ==
  pc = "down" /\ pending = 0 /\ ~torn =>
    \A r \in receipts : r.ok => r.id \in saved \union disowned
=============================================================================
