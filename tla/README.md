# A verification development for hashcatsminoor

TLA+ models of the miner in this repository, the TLC configurations that check
them on small instances, and TLAPS proofs of their main safety properties for
all values of the constants. Paths are relative to the repository; the modules
are in this directory. `PROJECT.json` maps every definition to the lines it
models.

## 1. The system

A person, or `scripts/autoloop.sh` pass after pass, starts the autopilot. It
checks wallet and economics, rents a GPU box, builds and self-tests the workers
there, checks the economics again with the measured rate, runs a mining session
and destroys the box. The session is the coordinator: it polls the contract,
sends jobs over a pipe (ssh) to the agent on the box, verifies what comes back,
signs and sends `mine()` transactions, and keeps two files. The agent drives
one worker process per GPU.

```
autoloop.sh -> autopilot.py -- vast.py --> rental provider
                  |  |  \-- remote.py (ssh, tar), gpu_selftest.py
                  |  \----- worth_it.py (the gate)
                  v
            coordinator.py <-- chain.py, pow.py --> RPC node, contract
              |  pending.json, receipts.json, log.jsonl
              |  stdin/stdout pipe (ssh)
              v
            remote_agent.py --- worker.cu / cpu_worker.cpp (one process per GPU)
```

### Inventory

| Component | State it keeps | Operations | What makes it correct | Hard behaviour |
|---|---|---|---|---|
| `coordinator.py` | job, submitted jobs, minted list, spend, reverts, stop reason; on disk `pending.json`, `receipts.json` | start, poll, refresh_job, handle_candidate, submit, stop | never two transactions in flight, budget and balance kept, every mint accounted for, target not exceeded, a session ends | crashes between file writes and sends, receipts that come late or never, chain reads that age, several candidates queued |
| contract (`tests/fake_chain.py`), `chain.py`, `pow.py` | total, prevWork, anchor, target, price, balances, receipts | mint, revert, other miners, retargeting | (environment) | moves at any time |
| `remote_agent.py` | job, reported, stop event, threads, worker processes | set_job, resume, stop, worker_loop, shutdown | one candidate per job, stale work bounded, shutdown completes | n+2 threads, workers that hang or die, broken pipes |
| `autopilot.py` | instance id and start, watchdog timer, summary | preflight, gate, provision, setup, mine, teardown | no rental is left behind unnoticed, the run ends | watchdog thread against main thread, Ctrl-C anywhere, calls that succeed and do not answer |
| `autoloop.sh`, `run.sh` | pass and failure counters, stop file | one pass after another | boxes paid for in vain are bounded, STOP is obeyed | one counter for failures of different kinds |
| `worth_it.py` | none | economics, verdict | the gate refuses a losing run and no run for no reason | fractions, zero divisors, a chain that moves between two decisions |
| `vast.py` | none (the provider has it) | search, create, wait_running, destroy | - | time-outs, unreadable replies |
| `worker.cu`, `cpu_worker.cpp`, `worker_common.h` | batch, device result | job, digest, quit | a hit is a hit of this batch, a miss is a miss | thousands of threads write one result |
| `keccak.h`, `purekeccak.py` | none | block, lanes, comparison, nonce | what a worker hashes is what `pow.py` verifies | eight bytes across two swapped half lanes |
| `gpu_selftest.py` | none | check_worker | passes a right worker | - |
| `remote.py`, `proxy_connect.py` | sockets | run, upload, tunnel | - | both directions in one loop |
| `sweep.py` | none | one transfer | leaves enough for gas | beside a running session |
| other scripts | none | installation, key creation | - | - |

The hazards that follow from this are listed, each at its line, in
`PROJECT.json`; a hazard without a property says there why.

## 2. The modules

| Module | Models |
|---|---|
| `Contract` | the contract's mint rule and the network in front of it |
| `Coordinator` | `coordinator.py`: sessions on one state directory, with crashes and reconciliation; EXTENDS `Contract` |
| `IntentLog` | abstract: what the marker file is for; `Coordinator` implements it |
| `Agent` | `remote_agent.py`, its worker processes and a coordinator that does anything |
| `Mining` | coordinator and agent over their two pipes; EXTENDS `Agent` |
| `Autopilot` | one run of `autopilot.py`, the parts of `vast.py` that create and destroy, the provider |
| `Autoloop` | `autoloop.sh`, and the single run; EXTENDS `Autopilot` |
| `WorkerProtocol`, `Search` | batches and answers; abstract: what a worker promises for a job |
| `CudaWorker` | `worker.cu`: host loop and kernel threads; implements `Search` |
| `Lanes` | `keccak.h`, `worker_common.h` and `pow.py`: a nonce's way to its digest, on bytes; the nonce spaces of `remote_agent.py` |
| `CpuWorker` | `cpu_worker.cpp` on those bytes; implements `Search`; EXTENDS `Lanes` |
| `SelfTest` | the two clients of a worker, `gpu_selftest.py` and the agent; EXTENDS `CpuWorker` |
| `Economics` | `worth_it.py` in whole numbers |
| `Gate` | the money of one pass: preflight, both gates, the payments; EXTENDS `Economics` |
| `MCCoordinator`, `MCAgent`, `MCMining`, `MCAutopilot`, `MCCudaWorker`, `MCSelfTest`, `MCGate` | values for the constants, nothing else |
| `CoordinatorProofs`, `CoordinatorSessionProofs`, `MiningProofs`, `AutopilotProofs`, `CudaWorkerProofs`, `GateProofs`, `LanesProofs`, `SelfTestProofs` | section 4 |

Definitions marked "mutation" are plausible bugs; no specification uses them.
Each property of a passing run has one that breaks it, named in `PROJECT.json`.

### Contract, Coordinator, IntentLog

`prevWork` is identified by the number of cats minted, since every mint makes a
fresh one; a nonce is the digest it has under the `prev` and anchor it was mined
for. Amounts are small naturals; `reserve` is `GAS_LIMIT * gas_price`.
A transaction that reaches the network is in `mempool` until it is included or
forgotten, at a time of the network's choosing: that is where late receipts,
lost broadcasts and `broadcast_uncertain` come from.

`pc` follows `run`, `handle_candidate` and `submit`. Every chain read is a step
of its own (`RecheckPrev`, `RecheckTarget`, `ReadPrice`, then the step that
reads gas price and balance), so the chain may move in between. The steps of
`submit` that touch the disk are separate because a crash may come between
them: `WritePending`, `Broadcast`, `SettleMint` (which opens, hence empties,
`receipts.json`: `torn`), `Save`, `Unlink`. `Crash` drops the memory and keeps
the files; `Reconcile` is the operator of `docs/zero-to-mining.md`, who deletes
`pending.json` once the transaction can no longer be included. `disowned` and
`writtenOff` record where a minted cat legitimately left the books, and
`uncharged` the gas of the receipts that came without a `gasUsed`, which
`submit` charges at nothing; one without `effectiveGasPrice` is charged at the
price offered, one without `status` is left to the operator. A session
that raises (`RpcError`) goes through the same `finally` as one that stops.
With `receipts.json` cut short `json.loads` raises in the constructor, so no
session starts from a torn file.

`IntentLog` knows one entry, the effects in flight, their outcomes and a book.
An effect is announced, let go at most once, may happen or vanish, is recorded
if it was accepted, and its entry goes only when nothing can happen any more.
`Coordinator` maps the marker, the mempool, the receipts and the list of cats
to it (`Log`, `KeepsIntentLog`).

Left out: the logs, the status line, chain id, the check of a candidate of
another job (it changes nothing), and two coordinators at once on one state
directory. Any candidate may arrive for the current job at any time; which ones
do is `Mining`'s matter.

### Agent and Mining

One `thread` state per worker follows `worker_loop`; `proc` is its process,
which may answer, hang (`MayHang`), die (`MayDie`) or fail to start
(`MayNotStart`). `reported` and `job` are the two attributes under `job_lock`;
the lock protects single accesses, so each access is one step. `gone` is the
coordinator's end of the pipes closed: writes raise and stdin ends. `emitted`
counts candidates per job and `stale` those sent for an older job; both are
history.

`Mining` keeps every step of `Agent` and puts the lines in two queues.
`toAgent` is the agent's stdin; `events` is its output together with the queue
of the coordinator's reader thread. `at` follows `run` and `handle_event`. The
end of the output is an event behind all others (`AgentEof`), a send to a dead
agent stops the session (`Sends`), `stop_agent` waits and kills, and behind ssh
it kills the ssh client only. `LinkBreaks` loses what is on its way, `Crash`
ends the coordinator. Of the chain only the work is kept, and a submission
mints, reverts or is the last of its session: money and files are in
`Coordinator`.

### Autopilot and Autoloop

`main` follows `run`; `td[t]` follows `teardown` in the main thread and in the
watchdog's thread, which can overlap. `box` is the rental as the provider sees
it. `Rent` is the provider taking the order and `CreateReturns` the return of
the call, so a reply can be lost in between and Ctrl-C can come on either side;
`NoteStart` is the assignment of `instance_started`. A destroy that raises may
have been carried out. The checks, the boot, the set-up and the mining are steps
that pass, raise or never return.

`Autoloop` runs `Autopilot` again from its initial state, with the settings
kept, and counts failures as the shell does. What an earlier pass left rented
is out of the next one's reach and is not carried over; that it was reported is
`NoSilentLeak` at the end of each pass. With `alone` it is one run.

### Workers, bytes, self-test

For `CudaWorker` a batch is its count and the set of offsets that meet the
target, and an offset stands for its digest: the question there is which
threads write the shared `DeviceResult` in which order, and its loads and
stores are steps.

For `CpuWorker` the batch is a line of bytes. `Lanes` has the padded block, its
lanes, the offset spliced into two half lanes after a byte swap, the comparison
word by word and the nonce put together again as the workers do it, and beside
it the digest as `pow.py` computes it. A byte is a digit below `Base` and half
a lane is `Half` of them (256 and 4 in the code); all other lengths follow from
these two. The permutation is a constant `Hash`, the same for both sides.
`batch.below` tabulates the comparisons of a batch when its line is read, so
that they are evaluated once; the digest of the answer is computed when it is
given. `SelfTest` asks the lines of `check_worker`, of the agent with its nonce
starts, and lines that are refused.

### Economics and Gate

A fraction is a numerator over a denominator that is named, and two of them are
compared by multiplying out; `cats_per_hour` is `Yield / WorkPerCat`. `Gate`
follows `run` from `preflight` on: the chain moves while the box is built and
while it mines, the rate and the hash rate become known after renting, and the
coordinator pays for cats and reverts, the gas that is used and at most the
gas it reserved. A run starts at any number of cats minted. The floor of `Space \div target` is the
code's; the rounding of floating point is not modelled.

## 3. What is checked

| Run | Instance | Shows |
|---|---|---|
| `Coordinator_safety` | two sessions, live and dry, up to three transactions, crashes at every step | `InFlightIsMarked`, `BudgetHolds`, `Solvent`, `NoCatForgotten`, `TargetNeverOvershot`, `RevertsBounded`, `StopIsFinal`, `DryRunTouchesNothing`, `SessionEnds`, the refinement `KeepsIntentLog`, and the inductive invariant `Inv` (which contains `TypeOK`) |
| `Coordinator_receipts` | one live session | violated: section 6 |
| `Agent_liveness` | two workers, one of which may not start, hang or die | `ShutdownCompletes`, `EveryJobAnswered` |
| `Agent_twice` | two workers that do not fail | violated: section 6 |
| `Mining_session` | one worker that may hang or die, a link that breaks, a coordinator that dies, one revert | `JobServed`, `EndTogether` |
| `Mining_pair` | two workers that hang, die or do not start, reads that lag | `TypeOK`, `OneStragglerPerWorker`, `NoHungWorkerSurvives`, `WorkerLossStops`, `OncePerJob` |
| `Autopilot_loop` | three passes, or one alone; all providers, dry runs, Ctrl-C anywhere outside the creation call | `TypeOK`, `NoSilentLeak`, `RentalIsKnown`, `StopFileHolds`, `VainRentalsBounded`, `WatchdogEndsRun` |
| `Autopilot_reply` | the reply of `create` may be lost | violated: section 6 |
| `Autoloop_gate` | four passes | violated: section 6 |
| `Cuda_safety` | batches of up to four offsets on two threads, CUDA calls that fail | `Searches`, `MissTriedAll`, `OneWriter`, `JobAnswered`, and the inductive invariant `Inv` |
| `Cpu_safety` | all lines of a self-test and of an agent on bytes of one bit | `AnswerVerifies`, `PassesSelfTest`, `NonceNamesBatch`, `Searches`, `FindsSmallest` |
| `Gate_money` | readings on both sides of every threshold | `RefusedForCause`, `PassedPays`, `VerdictDefined`, `WalletLasts` |

The four violated runs check one statement each of a text of the repository.

Three of the properties are stated with the exceptions the code makes:

* `BudgetHolds`: a session spends no more than `MAX_SPEND_ETH` and the gas of
  receipts without a `gasUsed`, which it cannot know of. With complete receipts
  it stays within the limit.
* `NoCatForgotten`: a minted cat is on disk or in the session's memory, marked,
  or given up by name; a crash inside the write of `receipts.json` takes the
  records of that file, no other cat, and no session runs afterwards.
* `NoSilentLeak`: not for a Ctrl-C between `create` and the statement after it,
  or from the `finally` on, and not when a person delayed the order until the
  watchdog met it (`disturbed`).

Section 6 says where a text promises more.

### Bounds

* `Coordinator`: `MaxSessions`, `MaxJobs`, `MaxTx`, `MaxAnchor`. Two sessions
  let the second inherit the marker, the records, the transaction or the
  drained wallet of the first; three transactions are a mint or revert of each
  and one sent on top. Digests and targets 0..1 give a candidate that meets,
  one that stops meeting when the target moves and one that never does. Prices
  1 and 2 with `MAX_PRICE_ETH` 1 give one too dear. A mint costs at most 2 and
  a revert 1: with `MaxSpend` = 2 the budget refuses what would follow a mint,
  and with `Funds` = 3 a balance covers the price but not the gas. `Target` is
  2, so that a session can reach it with the records of the one before it, and
  `MaxReverts` is 2, so that one revert is survived and two stop. `MaxAnchor` is
  0: an anchor that moves makes a transaction revert, which another mint does
  as well.
* `Agent`, `Mining`: two workers, so that one can straggle behind the other;
  two jobs, so that there is an older one; one resume where liveness is
  checked. `Cap` bounds the history counters above what a property allows (1
  where no property looks at more). With one worker the session run can have a
  revert, a broken link and a dead coordinator; with two the safety run leaves
  them out and is symmetric in the workers. The queues need no bound: lines and
  candidates are bounded by jobs, workers and resumes.
* `Autopilot`, `Autoloop`: three passes with a limit of two failures, so that
  the counter is reset, reached and ended by the last pass. `Attempts` = 3 is
  the code's number.
* `CudaWorker`: a thread has two offsets, the stride need not divide the count,
  and with `Every` = 2 (32 in the code) some iterations look at `found`.
* `Lanes`, `CpuWorker`, `SelfTest`: `Base` = 2 and `Half` = 2 are the least for
  which a swap is not the identity and half a lane has an order. The hash of
  the instance lets every lane change every word.
* `Gate`: `Space` 1088 makes the expected hashes 17 and 68, an hour has 60
  seconds; prices, gas, sales and rates lie on both sides of each rule, with a
  closed mint, a fee of all and a hash rate of zero. `Supply` is 4, and
  `MIN_REMAINING` 2 lets the chain move past it at any point of a pass.

Deadlock checking is off in every run: a session, an agent, a run or a worker
ends, and the bounds stop the environment.

### Fairness

* `Coordinator`: every step of a call returns (`requests` has a time-out, the
  receipt loop a deadline); the end of the poll interval is strongly fair, as a
  stream of candidates is handled between two looks at a clock that runs;
  `MAX_HOURS` go by. Nothing is assumed of the chain, the network or the agent.
* `Agent`: threads are scheduled, a worker that has not hung answers, `join`,
  `wait` and the stop event have time-outs, the end of a pipe is noticed.
  `LuckySpec` adds that a worker keeps finding nonces: `EveryJobAnswered` is
  about what the agent does with them. Nothing makes a worker start or die.
* `Mining`: the same for both sides; a queued event is taken, since
  `run` looks at the queue in every poll interval (strong fairness), and poll
  intervals end. Nothing is assumed of the link, reverts or the chain.
* `Autopilot`: the timer fires, its teardown steps are bounded by the CLI's
  time-outs, the calls that order the box have theirs. The main thread may be
  stuck anywhere else.
* `CudaWorker`: the host goes on and the device runs every thread of a launch.

## 4. What is proved

All proofs assume only the named assumptions on the constants
(`ContractAssumption`, `CoordinatorAssumption`, `AgentAssumption`,
`MiningAssumption`, `AutopilotAssumption`, `AutoloopAssumption`,
`ProtocolAssumption`, `CudaAssumption`, `EconomicsAssumption`,
`GateAssumption`, `LanesAssumption`, `SelfTestAssumption`): numbers are naturals
where the code has non-negative ones, and positive where it divides or counts
attempts; a byte base is even and positive; what the clients draw are bytes and
words of full length. Two theorems about the autopilot and two about the
self-test have a hypothesis more, named with them below. The theorems about
modules with variables are of the form `Spec => []P`, by an inductive
invariant, with one step per action or group of actions; `TLC` found the same
formulas true first. Every safety property that a passing run checks is the
statement of a theorem.

**Coordinator.** For any number of sessions, candidates and transactions:
`InFlightIsMarked`, `BudgetHolds`, `Solvent`, `NoCatForgotten`, `TypeOK`. None of
these is inductive. `Inv` adds what links the phase of the session to disk and
network:

* `IdsInv`: ids are used once, a transaction is never both in flight and
  included, at most one receipt per id;
* `MarkerInv`: while a candidate is being decided there is no marker, hence
  nothing in flight; from `WritePending` to `Unlink` the marker is the
  transaction at hand; before the broadcast nothing is in flight at all;
* `BudgetInv`: `spend_wei` is never behind what the chain took, except by the
  one transaction whose receipt is not settled, and that one fits the budget,
  and by the gas of receipts that did not name it (`uncharged`);
* `FundsInv`: the balance covers what is about to be sent;
* `RecordsInv`: the list in memory is the list on disk plus the cat being
  recorded, every minted id is in one of the places `NoCatForgotten` names, and
  a file cut short is one that is being written or one that no session reads.

`NextCases` regroups the next-state relation; `FrameStep`, `DraftStep`,
`IncludeStep` and `PreparedStep` say once what the groups of actions do; then
one lemma per part has one step per group.

From `Inv`, `CoordinatorSessionProofs` shows that every step is a step of
`IntentLog` or a stutter (`ImplementsIntentLog`), and the two action
properties: `DryRunTouchesNothing` with `DryInv` (a dry run has no marker and
found none), `StopIsFinal` with `StopInv` (while the session decides, sends or
settles it has no reason to stop).

The same module counts. `TargetNeverOvershot` needs `TargetInv`: a
session at work on a candidate is below the target, and so is one that still
takes candidates for its job, because the job that filled the target is in
`submitted_jobs`. `RevertsBounded` needs `RevertInv`: the counter is behind the
chain by at most the one receipt that is not settled, and nothing is sent or in
flight unless one more revert is allowed; that last part is why a transaction
included after the session is over is counted as well.

**Agent and pair.** `AgentInv` is, for any number of workers and any
coordinator: a process exists from the spawn on and stays dead once reaped
(`ProcInv`); after the stop event a thread that was slow to spawn gets no job
(`ShutdownInv`); a thread that has reported for an older job takes the current
one next (`StragglerInv`); a thread leaves its loop only for a stop, or sets it,
or nobody listens (`LossInv`). It is preserved by the agent's steps and by
`Killed`, an environment that kills the process (`AgentKeepsItsWord`). Every
step of `Mining` is one of these or leaves the agent alone, so the four
properties hold of the pair without a second invariant (`TypeCorrect`,
`OneStraggler`, `HungWorkersAreKilled`, `LossesStopTheAgent`).
`SubmittedOncePerJob` adds
`JobInv` (jobs are numbered no faster than work changes, so ids are never
reused) and `TriesInv` (a job that takes candidates has had its submissions
reverted).

**Autopilot and loop.** `NoRentalForgotten` and `RentalStaysKnown` assume
`Sheltered`: the reply of `create` is read and Ctrl-C does not fall into the
call. Then, for any number of passes and any providers, `RentalIsKnown` holds
wherever else Ctrl-C falls, and so does `NoSilentLeak`, which itself excepts a
Ctrl-C before the statement after `create` and from the `finally` on. Without
`Sheltered` the run `Autopilot_reply` has a counterexample. `PassInv` says who may be at work on the
rental (`ThreadInv`), what the program knows of it (`RentalInv`: a thread
about to clear the id has seen the box destroyed) and that a teardown that is
over leaves no rental behind without a word (`LeakInv`). `StopFileHolds` and
`VainRentalsBounded` need no such assumption, nor do the types (`TypeCorrect`).

**CUDA worker.** For every batch, any number of threads and any `Every`:
`OneWriter`, `MissTriedAll`, `TypeOK` and the refinement `Searches`. `Inv` says
of a running launch:

* `LaneInv`, `SweepInv`: thread `t` stays at offsets equal to `t` modulo the
  stride, and every offset behind a thread in its lane has been hashed. That the
  next offset of a lane is exactly one stride further is the arithmetic of
  `SameLane` and `NextInLane`, proved from the division law;
* `BoundInv`: only offsets of the batch get past the bound check;
* `HitInv`, `ResultInv`: the writer writes its own hit, and a result nobody is
  writing any more is that of one hit, offset and digest alike;
* `MissInv`: while nothing is found, no hashed offset is a hit and a thread
  that is done has run past the count.

With `HostInv` (a batch is held exactly while it is worked on; the result is
cleared before a launch) every step maps to a step of `Search` or a stutter
(`StepRefines`).

**Gate.** `WalletLasts` by `PurseInv`: once preflight has passed, balance plus
the gas spent covers `MAX_PRICE_ETH` for every cat still wanted and the reserve.
`VerdictDefined` because without a net sale the surplus is never positive
(`NoSaleNoSurplus`), so the verdict stops before it divides. The invariant of
the rest is `GateInv`: what the chain and the offer range over (`ChainInv`,
`OfferInv`), that the second gate comes after a first one that passed
(`OrderInv`) and that what a gate said is the answer to what it read
(`SaidInv`). On it stand two
statements about numbers. `RefusedForCause`: each rule of the gate is monotone.
For the profit that is `ProfitKept`, a product of speed and margin against a
product of cost and work, where the floor of the expected hashes is monotone
too (`SmallerQuotient`). `PassedPays`: where no rule is broken the surplus is
positive, so the verdict is not NOT WORTH IT, and a cat pays for the hashes it
is expected to take. It may be MARGINAL; and as `MIN_REMAINING` is any integer,
STOP is possible for a collection that is sold out when it asks for no cat.

**Bytes.** `LanesProofs` is about the operators of `Lanes`, for every even base,
every length of half a lane and every permutation. A number of `n` bytes is
below `Power[n]`, the number of `p \o q` is that of `p` times
`Power[Len(q)]` plus that of `q`, and `Bytes` and `BeWord` undo each other.
These are inductions over the length of a string; the induction theorems of the
library take an operator as parameter, so each is done by the least length for
which it would fail (`Least`, `Induction`). Then:

* `SpliceHashesTheNonce`: hashing a block prepared once with the swapped offset
  spliced into two half lanes (`keccak.h`) is hashing the message whose nonce is
  `NonceHex`, whatever bytes the start has there. `BlockBytes` says which byte
  of the message is where in the block, `LaneSix` and `LaneSeven` read the two
  lanes as two halves each, and `LaneOfHalves` swaps them;
* `BelowTargetCompares`: the comparison word by word, with one side swapped,
  is that of two numbers of four words;
* `BatchesAreApart`: the nonce spaces of two batches do not meet. A start is
  worker, salt and sequence number as digits (`StartDigits`), the salt a lane
  and a byte wide, and digits are unique (`DigitsCompare`).

**CPU worker and self-test.** `SelfTestProofs` proves of a worker and either of
its clients that `Inv` is inductive: a line that is read or waits is one a
client or a person may write (`LineInv`); the batch in search is the one of
that line, and no offset behind the loop variable is below the target
(`SearchInv`); between batches the answer is the right one for the line
(`ReplyInv`); and each step of `check_worker` waits for the line it has asked
for (`StepInv`). From it follow the refinement `Searches`
(`CpuWorkerSearches`), `FindsSmallest` (`FirstHitWins`) and `NonceNamesBatch`
(`NoncesNameTheirBatch`, by `BatchesAreApart`).

`AnswerVerifies` and `PassesSelfTest` (`AnswersAreTrue`, `RightWorkersPass`)
connect the worker's bytes to `pow.py` by the first two theorems about bytes.
They assume `HashFits`: the permutation takes the lanes of a block to four
lanes. It says no more than that the four words of a digest are 64 bits wide,
and the hash of the instance that is checked has it. `FailInv` adds why the
self-test has failed, if it has.

**Only model-checked:** the liveness properties (`SessionEnds`,
`ShutdownCompletes`, `EveryJobAnswered`, `JobServed`, `EndTogether`,
`WatchdogEndsRun`, `JobAnswered`), as fairness is out of the prover's reach
here. Not even that: that the permutation is Keccak's, which is a constant of
the models.

## 5. Not modelled

* The Keccak permutation: a fixed computation which the tests compare with a
  reference implementation; here it is a constant of the models.
* `proxy_connect.py`: one loop copies both directions. Whether one can wait for
  ever is decided by the buffers of ssh, the proxy and two sockets, which are
  not in the repository; with unbounded ones it cannot, with none it can.
* `sweep.py`: one transfer, started and confirmed by hand. Beside a running
  session it is one more reason why the balance is read before each
  transaction, which `Coordinator` models for a balance only the session moves.
* Two coordinators on one state directory: the check for `pending.json` and its
  creation are not one step and nothing else keeps two sessions apart, so any
  order is possible; no text promises otherwise.
* `remote.py` command lines and tar, ABI encoding and JSON-RPC in `chain.py`,
  queries and replies in `vast.py`, log and status formats: pure input and
  output. Their calls are steps that pass, raise or hang.
* The watch loop and the report of `worth_it.py`, hash-rate statistics, and the
  installation scripts: they decide nothing.
* Durations. Time-outs and limits are steps that may come at any time where the
  code allows it, so nothing here says whether a fuse is long enough.

## 6. Where the texts and the code differ

Each of these is a run whose property is what the text says:

* `Coordinator_receipts`: `receipts.json` is said to list every cat that
  minted (`docs/zero-to-mining.md:191`). One whose receipt came after the
  deadline is never added, also not by the reconciliation the docs describe.
* `Agent_twice`: "One candidate per job unless the coordinator asks for
  another" (`tests/test_remote_agent.py:55`). With two workers a straggler
  resets `reported`. The coordinator tolerates it: `OncePerJob`.
* `Autopilot_reply`: the rental is said to be destroyed on an exception
  (`autopilot.py:13-15`). A create whose reply is lost leaves a box nobody
  knows.
* `Autoloop_gate`: "A pass that fails the gate costs nothing and just waits for
  the next slot" (`docs/zero-to-mining.md:208`). It counts as a failed pass, and
  three in a row end the loop.

More that the modelling brought up, without a run of its own:

* `--live` "spends ETH, within MAX_PRICE_ETH / MAX_SPEND_ETH / MAX_HOURS"
  (`README.md:57`). A receipt without a `gasUsed` is charged at nothing
  (`coordinator.py:273`), so a later transaction can pass the check of a budget
  that it exceeds; `BudgetHolds` bounds by how much. A receipt without a
  `status`, three lines above, is left to the operator.
* The rental is said to be destroyed on Ctrl-C (`autopilot.py:13-15`). One
  between the assignments of `instance_id` and `instance_started` (lines
  217-218) makes `teardown` raise before it destroys anything, and the rental
  stays without a word. So it does when Ctrl-C falls into the `finally` or
  between the attempts of a teardown. `disturbed` records both, and
  `NoSilentLeak` excepts them.
* "Rent nothing on a MARGINAL or NOT WORTH IT verdict"
  (`docs/cloud-runbook.md:24-25`). The gate prints the verdict and does not look
  at it: MARGINAL passes when the profit is above the floor. `PassedPays` says
  what the gate does keep.
* A worker that fails to start ends its thread only, as `spawn` is called
  outside the `try`, and `readline` has no time-out: workers that never started
  or that hang are not noticed while the box is paid for. `NoWorkerLeft` is the
  exception in `JobServed` and `EveryJobAnswered`.
* A candidate dropped in the re-check sends no `resume`. That is harmless as
  long as the next poll sees the work the re-check saw. With a node that
  answers a re-check with older work (`LaggingReads` = TRUE) `JobServed` does
  not hold: the job stays and the agent stays silent.
* `TARGET_MINTS`, "cats to mint this session" (`coordinator.py:15`), is compared
  with the count of all sessions, which starts from `receipts.json`: `Start`
  sets `minted` to `saved`, and `TargetNeverOvershot` is stated accordingly.
  Once it is reached, or while `pending.json` exists, each pass that passes the
  gate still rents and builds a box before the coordinator refuses.
* A crash inside the write of `receipts.json` leaves a file that does not parse:
  the older records are lost with it and the next session raises at its start.
  `NoCatForgotten` is stated accordingly. No text promises more.
* `autoloop.sh:9` says "Ctrl-C works too"; during a pass it ends the pass, which
  then counts as a failed one.
* The watchdog's fuse is `MAX_HOURS` and fifteen minutes from before
  provisioning, while `MAX_HOURS` of the coordinator count from its own start:
  a slow boot, upload and build can use up the quarter of an hour, and the
  watchdog then ends a session that runs.
* `gpu_selftest.py --batch-log2` may ask for more offsets than a worker accepts,
  which fails a right worker; `PassesSelfTest` is about the counts it asks by
  default.
* With `USD_PER_HOUR` of zero the affordable hashes are reported as 0, although
  nothing limits them; `PassedPays` looks at paid boxes only.

## 7. Plan

Done, in this order: `Contract` and `Coordinator`; `Agent`, `Autopilot`, the
workers; proofs of `Coordinator` and `CudaWorker`; `IntentLog`; `Mining`;
`Autoloop`; `Lanes`, `SelfTest`; `Economics`, `Gate`; the proofs about logs,
limits, agent, pair, passes and money; those about bytes, the CPU worker and
its clients, and the two gates.

Left, and worth doing when the code changes there:

1. `CudaWorker` on the bytes of `Lanes`, so that the kernel's hits are computed
   and not given.
2. A second wallet movement (`sweep.py`) beside `Coordinator`, with `Solvent`
   restated for a balance others move.
3. A lock on the state directory, should the code get one: then two sessions at
   once have a promise to keep.
4. The refinement of `Mining`'s submissions by `Coordinator`'s, in place of the
   three outcomes it chooses from.
5. The safety half of the liveness properties: a measure that each fair step of
   a session, a launch or a shutdown lowers and no other step raises.
