---------------------------- MODULE MiningProofs ----------------------------
(***************************************************************************)
(* Proofs about the mining agent and its session, for any number of workers*)
(* and jobs.  The agent keeps its word whoever writes to its stdin; it does*)
(* so at its end of the session's pipes; and there no job is submitted     *)
(* twice without a revert in between.                                      *)
(***************************************************************************)
EXTENDS Mining, TLAPS

(* A thread between its job and its report.                                *)
Mid == {"write", "read", "report", "emit"}

(* A process is there from the spawn on, and stays dead once reaped.       *)
ProcInv ==
  /\ \A w \in Workers : thread[w] = "spawn" => proc[w] = "none"
  /\ \A w \in Workers : proc[w] = "none" => thread[w] \in {"spawn", "done"}
  /\ \A w \in reaped : proc[w] = "dead"

(* What is left when everything was reaped: workers that were spawned late *)
(* and get no job, as the stop event is set.                               *)
ShutdownInv ==
  /\ main \in {"join", "reap", "stopped"} => stop
  /\ main = "stopped" =>
       \A w \in Workers : /\ proc[w] \in {"none", "dead", "idle"}
                          /\ proc[w] = "idle" => thread[w] \in {"next", "quit"}

(* A thread that has reported for an older job takes the current one next. *)
StragglerInv ==
  \A w \in Workers : /\ stale[w] <= 1
                     /\ stale[w] # 0 /\ thread[w] \in Mid => mine[w] = job

(* A thread leaves its loop for a stop, or sets it, or nobody listens.     *)
LossInv ==
  \A w \in Workers :
    thread[w] = "quit" \/ (thread[w] = "done" /\ proc[w] # "none") => stop \/ gone

AgentInv == TypeOK /\ ProcInv /\ ShutdownInv /\ StragglerInv /\ LossInv

(* The process is killed from outside, with its daemon threads.            *)
Killed ==
  /\ main' = "exited" /\ gone' = TRUE
  /\ UNCHANGED <<reaped, workVars, jobVars, stop, reading, historyVars>>

AgentStep == Next \/ Killed \/ UNCHANGED vars

(* Next, one disjunct for each action.                                     *)
LEMMA StepCases ==
  ASSUME AgentStep
  PROVE  \/ \E w \in Workers :
               \/ Spawn(w) \/ SpawnFails(w) \/ TakeJob(w) \/ LeaveLoop(w) \/ WriteLine(w)
               \/ ReadHit(w) \/ ReadMiss(w) \/ ReadFails(w) \/ Report(w) \/ EmitCandidate(w)
               \/ EmitRaises(w) \/ Fail(w) \/ Quit(w) \/ Reap(w)
               \/ Answer(w) \/ InputEnds(w) \/ Hang(w) \/ Die(w)
         \/ SetJob \/ Resume \/ StopLine
         \/ Ready \/ StatsRaise \/ WakeUp \/ Joined \/ EmitStopped \/ Return
         \/ CoordinatorGone \/ Killed \/ UNCHANGED vars
  BY DEF AgentStep, Next, ThreadStep, MainStep

-----------------------------------------------------------------------------
(* Types.                                                                  *)
LEMMA CountsUp ==
  ASSUME NEW n \in 0 .. Cap
  PROVE  /\ Capped(n + 1) \in 0 .. Cap
         /\ n = 0 => Capped(n + 1) = 1
  BY AgentAssumption DEF Capped

LEMMA TypeInit == Init => TypeOK
<1> SUFFICES ASSUME Init PROVE TypeOK
  OBVIOUS
<1>1. /\ main \in MainPhases /\ reaped \subseteq Workers
      /\ thread \in [Workers -> ThreadPhases] /\ proc \in [Workers -> ProcStates]
  BY DEF Init, MainPhases, ThreadPhases, ProcStates
<1>2. /\ mine \in [Workers -> 0 .. MaxJob] /\ stale \in [Workers -> 0 .. Cap]
      /\ emitted \in [Jobs -> 0 .. Cap]
  BY AgentAssumption DEF Init
<1>3. job \in 0 .. MaxJob /\ reported \in 0 .. MaxJob /\ resumes \in 0 .. MaxResumes
  BY AgentAssumption DEF Init
<1>4. stop \in BOOLEAN /\ reading \in BOOLEAN /\ gone \in BOOLEAN
  BY DEF Init
<1> QED BY <1>1, <1>2, <1>3, <1>4 DEF TypeOK

LEMMA TypeStep ==
  ASSUME TypeOK, AgentStep
  PROVE  TypeOK'
PROOF
<1> USE DEF TypeOK
<1>1. ASSUME NEW w \in Workers,
             Spawn(w) \/ SpawnFails(w) \/ LeaveLoop(w) \/ WriteLine(w) \/ ReadHit(w)
               \/ ReadMiss(w) \/ ReadFails(w) \/ EmitRaises(w) \/ Quit(w)
      PROVE  TypeOK'
  BY <1>1 DEF Spawn, SpawnFails, LeaveLoop, WriteLine, ReadHit, ReadMiss, ReadFails, EmitRaises,
     Quit, At, Goto, Become, ThreadPhases, ProcStates, mainVars, jobVars, endVars, historyVars
<1>2. ASSUME NEW w \in Workers, TakeJob(w) PROVE TypeOK'
  BY <1>2 DEF TakeJob, Goto, ThreadPhases, mainVars, jobVars, endVars, historyVars
<1>3. ASSUME NEW w \in Workers, Report(w) PROVE TypeOK'
  BY <1>3 DEF Report, Goto, ThreadPhases, mainVars, endVars, historyVars
<1>4. ASSUME NEW w \in Workers, EmitCandidate(w) PROVE TypeOK'
  <2>1. emitted' \in [Jobs -> 0 .. Cap]
    BY <1>4, CountsUp DEF EmitCandidate
  <2>2. stale' \in [Workers -> 0 .. Cap]
    BY <1>4, CountsUp DEF EmitCandidate
  <2> QED
    BY <1>4, <2>1, <2>2 DEF EmitCandidate, Goto, ThreadPhases, mainVars, jobVars, endVars
<1>5. ASSUME NEW w \in Workers, Fail(w) PROVE TypeOK'
  <2>1. stop' \in BOOLEAN /\ reading' \in BOOLEAN /\ gone' \in BOOLEAN
    BY <1>5 DEF Fail
  <2> QED
    BY <1>5, <2>1 DEF Fail, Goto, ThreadPhases, mainVars, jobVars, historyVars
<1>6. ASSUME NEW w \in Workers, Reap(w) PROVE TypeOK'
  BY <1>6 DEF Reap, Become, ProcStates, jobVars, endVars, historyVars
<1>7. ASSUME NEW w \in Workers, Answer(w) \/ InputEnds(w) \/ Hang(w) \/ Die(w) PROVE TypeOK'
  BY <1>7 DEF Answer, InputEnds, Hang, Die, Turns, Become, ProcStates,
     mainVars, jobVars, endVars, historyVars
<1>8. CASE SetJob
  <2>1. job' \in 0 .. MaxJob /\ stale' \in [Workers -> 0 .. Cap]
    BY <1>8, AgentAssumption DEF SetJob
  <2> QED BY <1>8, <2>1 DEF SetJob, mainVars, workVars, endVars
<1>9. CASE Resume
  BY <1>9, AgentAssumption DEF Resume, mainVars, workVars, endVars
<1>10. CASE StopLine
  <2>1. stop' \in BOOLEAN /\ reading' \in BOOLEAN /\ gone' \in BOOLEAN
    BY <1>10 DEF StopLine
  <2> QED BY <1>10, <2>1 DEF StopLine, mainVars, workVars, jobVars, historyVars
<1>11. CASE Ready \/ StatsRaise \/ WakeUp \/ Joined \/ EmitStopped \/ Return
  BY <1>11 DEF Ready, StatsRaise, WakeUp, Joined, EmitStopped, Return, Main, MainPhases,
     workVars, jobVars, endVars, historyVars
<1>12. CASE CoordinatorGone \/ Killed
  <2>1. stop' \in BOOLEAN /\ reading' \in BOOLEAN /\ gone' \in BOOLEAN
    BY <1>12 DEF CoordinatorGone, Killed
  <2>2. main' \in MainPhases /\ reaped' \subseteq Workers
    BY <1>12 DEF CoordinatorGone, Killed, mainVars, MainPhases
  <2> QED
    BY <1>12, <2>1, <2>2 DEF CoordinatorGone, Killed, workVars, jobVars, historyVars
<1>13. CASE UNCHANGED vars
  BY <1>13 DEF vars, mainVars, workVars, jobVars, endVars, historyVars
<1> QED
  BY <1>1, <1>2, <1>3, <1>4, <1>5, <1>6, <1>7, <1>8, <1>9, <1>10, <1>11, <1>12, <1>13,
     StepCases

-----------------------------------------------------------------------------
(* Processes.                                                              *)
LEMMA ProcStep ==
  ASSUME TypeOK, ProcInv, AgentStep
  PROVE  ProcInv'
PROOF
<1> USE DEF TypeOK, ProcInv
<1>1. ASSUME NEW w \in Workers,
             Spawn(w) \/ SpawnFails(w) \/ LeaveLoop(w) \/ WriteLine(w) \/ ReadHit(w)
               \/ ReadMiss(w) \/ ReadFails(w) \/ EmitRaises(w) \/ Quit(w)
      PROVE  ProcInv'
  BY <1>1 DEF Spawn, SpawnFails, LeaveLoop, WriteLine, ReadHit, ReadMiss, ReadFails, EmitRaises,
     Quit, At, Goto, Become, mainVars
<1>2. ASSUME NEW w \in Workers, TakeJob(w) \/ Report(w) \/ EmitCandidate(w) \/ Fail(w)
      PROVE  ProcInv'
  BY <1>2 DEF TakeJob, Report, EmitCandidate, Fail, At, Goto, mainVars
<1>3. ASSUME NEW w \in Workers, Reap(w) PROVE ProcInv'
  BY <1>3 DEF Reap, Become
<1>4. ASSUME NEW w \in Workers, Answer(w) \/ InputEnds(w) \/ Hang(w) \/ Die(w) PROVE ProcInv'
  BY <1>4 DEF Answer, InputEnds, Hang, Die, Turns, Become, mainVars
<1>5. CASE SetJob \/ Resume \/ StopLine \/ CoordinatorGone \/ Killed \/ UNCHANGED vars
  BY <1>5 DEF SetJob, Resume, StopLine, CoordinatorGone, Killed, vars, mainVars, workVars
<1>6. CASE Ready \/ StatsRaise \/ WakeUp \/ Joined \/ EmitStopped \/ Return
  BY <1>6 DEF Ready, StatsRaise, WakeUp, Joined, EmitStopped, Return, Main, workVars
<1> QED
  BY <1>1, <1>2, <1>3, <1>4, <1>5, <1>6, StepCases

(* The shutdown.  The stop event is never cleared.                         *)
LEMMA StopStays ==
  ASSUME TypeOK, AgentStep
  PROVE  (stop => stop') /\ (gone => gone')
PROOF
<1>1. ASSUME NEW w \in Workers,
             \/ Spawn(w) \/ SpawnFails(w) \/ TakeJob(w) \/ LeaveLoop(w) \/ WriteLine(w)
             \/ ReadHit(w) \/ ReadMiss(w) \/ ReadFails(w) \/ Report(w) \/ EmitCandidate(w)
             \/ EmitRaises(w) \/ Quit(w) \/ Reap(w)
             \/ Answer(w) \/ InputEnds(w) \/ Hang(w) \/ Die(w)
      PROVE  (stop => stop') /\ (gone => gone')
  BY <1>1 DEF Spawn, SpawnFails, TakeJob, LeaveLoop, WriteLine, ReadHit, ReadMiss, ReadFails,
     Report, EmitCandidate, EmitRaises, Quit, Reap, Answer, InputEnds, Hang, Die, Turns, endVars
<1>4. ASSUME NEW w \in Workers, Fail(w) PROVE (stop => stop') /\ (gone => gone')
  <2>1. (stop' = (stop \/ ~gone)) /\ gone' = gone
    BY <1>4 DEF Fail
  <2> QED BY <2>1
<1>2. CASE SetJob \/ Resume \/ StopLine \/ CoordinatorGone \/ Killed \/ UNCHANGED vars
  BY <1>2 DEF SetJob, Resume, StopLine, CoordinatorGone, Killed, vars, endVars
<1>3. CASE Ready \/ StatsRaise \/ WakeUp \/ Joined \/ EmitStopped \/ Return
  BY <1>3 DEF Ready, StatsRaise, WakeUp, Joined, EmitStopped, Return, Main, endVars
<1> QED BY <1>1, <1>2, <1>3, <1>4, StepCases

LEMMA ShutdownStep ==
  ASSUME TypeOK, ProcInv, ShutdownInv, AgentStep
  PROVE  ShutdownInv'
PROOF
<1> USE DEF TypeOK, ShutdownInv
<1>1. ASSUME NEW w \in Workers,
             Spawn(w) \/ SpawnFails(w) \/ LeaveLoop(w) \/ WriteLine(w) \/ ReadHit(w)
               \/ ReadMiss(w) \/ ReadFails(w) \/ EmitRaises(w) \/ Quit(w)
      PROVE  ShutdownInv'
  BY <1>1 DEF ProcInv, Spawn, SpawnFails, LeaveLoop, WriteLine, ReadHit, ReadMiss, ReadFails,
     EmitRaises, Quit, At, Goto, Become, mainVars, endVars
<1>2. ASSUME NEW w \in Workers, TakeJob(w) \/ Report(w) \/ EmitCandidate(w) \/ Fail(w)
      PROVE  ShutdownInv'
  <2>1. main' = main /\ proc' = proc /\ (main = "stopped" => ~TakeJob(w))
    BY <1>2 DEF TakeJob, Report, EmitCandidate, Fail, mainVars
  <2>2. main = "stopped" => \A v \in Workers : proc[v] = "idle" => thread'[v] = thread[v]
    BY <1>2, <2>1 DEF Report, EmitCandidate, Fail, At, Goto
  <2>3. stop => stop'
    BY <1>2, StopStays DEF AgentStep
  <2> QED BY <2>1, <2>2, <2>3
<1>3. ASSUME NEW w \in Workers, Reap(w) PROVE ShutdownInv'
  BY <1>3 DEF Reap, endVars
<1>4. ASSUME NEW w \in Workers, Answer(w) \/ InputEnds(w) \/ Hang(w) \/ Die(w)
      PROVE  ShutdownInv'
  BY <1>4 DEF Answer, InputEnds, Hang, Die, Turns, Become, mainVars, endVars
<1>5. CASE SetJob \/ Resume \/ StopLine \/ CoordinatorGone \/ Killed \/ UNCHANGED vars
  BY <1>5 DEF SetJob, Resume, StopLine, CoordinatorGone, Killed, vars, mainVars, workVars, endVars
<1>6. CASE Ready \/ StatsRaise \/ WakeUp \/ Joined \/ Return
  BY <1>6 DEF Ready, StatsRaise, WakeUp, Joined, Return, Main, workVars, endVars
<1>7. CASE EmitStopped
  <2>1. \A w \in Workers : proc[w] \in {"none", "dead"}
    BY <1>7 DEF EmitStopped, ProcInv
  <2>2. proc' = proc /\ stop' = stop /\ stop
    BY <1>7 DEF EmitStopped, Main, workVars, endVars
  <2> QED BY <2>1, <2>2
<1> QED
  BY <1>1, <1>2, <1>3, <1>4, <1>5, <1>6, <1>7, StepCases

(* Stragglers.                                                             *)
LEMMA StragglerStep ==
  ASSUME TypeOK, StragglerInv, AgentStep
  PROVE  StragglerInv'
PROOF
<1> USE DEF TypeOK, StragglerInv, Mid
<1>1. ASSUME NEW w \in Workers,
             Spawn(w) \/ SpawnFails(w) \/ LeaveLoop(w) \/ WriteLine(w) \/ ReadHit(w)
               \/ ReadMiss(w) \/ ReadFails(w) \/ EmitRaises(w) \/ Quit(w)
      PROVE  StragglerInv'
  BY <1>1 DEF Spawn, SpawnFails, LeaveLoop, WriteLine, ReadHit, ReadMiss, ReadFails,
     EmitRaises, Quit, At, Goto, jobVars, historyVars
<1>2. ASSUME NEW w \in Workers, TakeJob(w) \/ Report(w) \/ Fail(w)
      PROVE  StragglerInv'
  BY <1>2 DEF TakeJob, Report, Fail, At, Goto, jobVars, historyVars
<1>3. ASSUME NEW w \in Workers, EmitCandidate(w) PROVE StragglerInv'
  <2>1. stale[w] \in 0 .. Cap /\ (mine[w] # job => stale[w] = 0)
    BY <1>3 DEF EmitCandidate, At
  <2>2. thread' = [thread EXCEPT ![w] = "next"] /\ UNCHANGED <<mine, job>>
    BY <1>3 DEF EmitCandidate, Goto, jobVars
  <2>3. stale' = [stale EXCEPT ![w] = IF mine[w] # job THEN Capped(stale[w] + 1) ELSE stale[w]]
    BY <1>3 DEF EmitCandidate
  <2>4. stale'[w] <= 1
    BY <2>1, <2>3, CountsUp
  <2> QED BY <2>2, <2>3, <2>4
<1>4. CASE SetJob
  BY <1>4 DEF SetJob
<1>5. CASE Resume \/ StopLine \/ CoordinatorGone \/ Killed \/ UNCHANGED vars
  BY <1>5 DEF Resume, StopLine, CoordinatorGone, Killed, vars, workVars, jobVars, historyVars
<1>6. CASE Ready \/ StatsRaise \/ WakeUp \/ Joined \/ EmitStopped \/ Return
  BY <1>6 DEF Ready, StatsRaise, WakeUp, Joined, EmitStopped, Return, Main, workVars, jobVars,
     historyVars
<1>7. ASSUME NEW w \in Workers, Reap(w) \/ Answer(w) \/ InputEnds(w) \/ Hang(w) \/ Die(w)
      PROVE  StragglerInv'
  BY <1>7 DEF Reap, Answer, InputEnds, Hang, Die, Turns, jobVars, historyVars
<1> QED
  BY <1>1, <1>2, <1>3, <1>4, <1>5, <1>6, <1>7, StepCases

(* Losses.                                                                 *)
LEMMA LossStep ==
  ASSUME TypeOK, ProcInv, LossInv, AgentStep
  PROVE  LossInv'
PROOF
<1>0. (stop => stop') /\ (gone => gone')
  BY StopStays
<1> USE DEF TypeOK, LossInv
<1>1. ASSUME NEW w \in Workers,
             Spawn(w) \/ SpawnFails(w) \/ LeaveLoop(w) \/ WriteLine(w) \/ ReadHit(w)
               \/ ReadMiss(w) \/ ReadFails(w) \/ EmitRaises(w) \/ Quit(w)
      PROVE  LossInv'
  BY <1>0, <1>1 DEF ProcInv, Spawn, SpawnFails, LeaveLoop, WriteLine, ReadHit, ReadMiss,
     ReadFails, EmitRaises, Quit, At, Goto, Become
<1>2. ASSUME NEW w \in Workers, TakeJob(w) \/ Report(w) \/ EmitCandidate(w)
      PROVE  LossInv'
  BY <1>0, <1>2 DEF TakeJob, Report, EmitCandidate, At, Goto
<1>3. ASSUME NEW w \in Workers, Fail(w) PROVE LossInv'
  <2>1. stop' \/ gone'
    BY <1>3 DEF Fail
  <2> QED BY <2>1
<1>4. ASSUME NEW w \in Workers, Reap(w) \/ Answer(w) \/ InputEnds(w) \/ Hang(w) \/ Die(w)
      PROVE  LossInv'
  BY <1>0, <1>4 DEF Reap, Answer, InputEnds, Hang, Die, Turns, Become
<1>5. CASE SetJob \/ Resume \/ StopLine \/ CoordinatorGone \/ Killed \/ UNCHANGED vars
  BY <1>0, <1>5 DEF SetJob, Resume, StopLine, CoordinatorGone, Killed, vars, workVars
<1>6. CASE Ready \/ StatsRaise \/ WakeUp \/ Joined \/ EmitStopped \/ Return
  BY <1>0, <1>6 DEF Ready, StatsRaise, WakeUp, Joined, EmitStopped, Return, Main, workVars
<1> QED
  BY <1>1, <1>2, <1>3, <1>4, <1>5, <1>6, StepCases

-----------------------------------------------------------------------------
LEMMA AgentInit == Init => AgentInv
<1> SUFFICES ASSUME Init PROVE AgentInv
  OBVIOUS
<1>1. TypeOK
  BY TypeInit
<1>2. ProcInv /\ ShutdownInv /\ StragglerInv /\ LossInv
  BY DEF Init, ProcInv, ShutdownInv, StragglerInv, LossInv, Mid
<1> QED BY <1>1, <1>2 DEF AgentInv

LEMMA InvStep == AgentInv /\ AgentStep => AgentInv'
  BY TypeStep, ProcStep, ShutdownStep, StragglerStep, LossStep DEF AgentInv

LEMMA InvImplies ==
  ASSUME AgentInv
  PROVE  TypeOK /\ OneStragglerPerWorker /\ NoHungWorkerSurvives /\ WorkerLossStops
  BY DEF AgentInv, ShutdownInv, StragglerInv, LossInv, OneStragglerPerWorker,
     NoHungWorkerSurvives, WorkerLossStops

(* Whatever a coordinator writes, and wherever it goes away, the agent     *)
(* keeps the inductive invariant, and what follows from it: a straggler    *)
(* per worker at most, no hung worker after the shutdown, no worker lost   *)
(* without a stop (remote_agent.py, worker_loop and run).                  *)
THEOREM AgentKeepsItsWord ==
  Spec => [](TypeOK /\ OneStragglerPerWorker /\ NoHungWorkerSurvives /\ WorkerLossStops)
<1>1. AgentInv /\ [Next]_vars => AgentInv'
  BY InvStep DEF AgentStep
<1>2. AgentInv => TypeOK /\ OneStragglerPerWorker /\ NoHungWorkerSurvives /\ WorkerLossStops
  BY InvImplies
<1> QED BY <1>1, <1>2, AgentInit, PTL DEF Spec

-----------------------------------------------------------------------------
(* For the agent a step of the pair is one of its own, or one of the       *)
(* environment it was proved for, or nothing.                              *)
LEMMA PairStep ==
  ASSUME [MiningNext]_miningVars
  PROVE  AgentStep
PROOF
<1> USE DEF AgentStep
<1>1. ASSUME NEW w \in Workers, ThreadRuns(w) \/ WorkerRuns(w) \/ WorkerFails(w)
      PROVE  Next
  BY <1>1 DEF ThreadRuns, WorkerRuns, WorkerFails, Silent, Next, ThreadStep
<1>2. CASE MainRuns
  BY <1>2 DEF MainRuns, Next, MainStep
<1>3. CASE StdinRuns
  <2>1. SetJob \/ Resume \/ StopLine
    BY <1>3 DEF StdinRuns, EndOfInput
  <2> QED BY <2>1 DEF Next
<1>4. CASE Poll \/ TakeEvent \/ AgentEof \/ Dropped \/ Submit \/ Minted \/ Reverted
             \/ LastSubmission \/ StopAgent \/ PollOver \/ SessionStops \/ WorkMoves
  BY <1>4 DEF Poll, TakeEvent, AgentEof, Dropped, Submit, Minted, Reverted, Reopens,
     LastSubmission, StopAgent, PollOver, SessionStops, WorkMoves, Goes
<1>5. ASSUME Ends, main' \in {main, "exited"} PROVE AgentStep
  <2>1. /\ gone' = TRUE
        /\ UNCHANGED <<reaped, workVars, jobVars, stop, reading, historyVars>>
    BY <1>5 DEF Ends
  <2>2. CASE main' = "exited"
    BY <2>1, <2>2 DEF Killed
  <2>3. CASE main' = main /\ gone = TRUE
    BY <2>1, <2>3 DEF vars, mainVars, endVars
  <2>4. CASE main' = main /\ gone # TRUE
    BY <2>1, <2>4 DEF Next, CoordinatorGone, mainVars
  <2> QED BY <1>5, <2>2, <2>3, <2>4
<1>6. CASE SessionOver \/ AgentKilled \/ Crash
  BY <1>5, <1>6 DEF SessionOver, AgentKilled, Crash
<1>7. CASE LinkBreaks
  BY <1>7 DEF LinkBreaks, CoordinatorGone, Next
<1>8. CASE UNCHANGED miningVars
  BY <1>8 DEF miningVars
<1> QED
  BY <1>1, <1>2, <1>3, <1>4, <1>6, <1>7, <1>8 DEF MiningNext, Handling

LEMMA PairInvariance == MiningSpec => []AgentInv
<1>1. MiningInit => AgentInv
  BY AgentInit DEF MiningInit
<1>2. AgentInv /\ [MiningNext]_miningVars => AgentInv'
  BY PairStep, InvStep
<1> QED BY <1>1, <1>2, PTL DEF MiningSpec

(* The agent's state is what remote_agent.py can be in, with its lines on  *)
(* their way and both ends of the pipes failing.                           *)
THEOREM TypeCorrect == MiningSpec => []TypeOK
<1>1. AgentInv => TypeOK
  BY InvImplies
<1> QED BY <1>1, PairInvariance, PTL

(* A worker reports an older job at most once, from the batch it was in    *)
(* (remote_agent.py, worker_loop: the job is read anew before each batch). *)
THEOREM OneStraggler == MiningSpec => []OneStragglerPerWorker
<1>1. AgentInv => OneStragglerPerWorker
  BY InvImplies
<1> QED BY <1>1, PairInvariance, PTL

(* A worker that hangs does not outlive the word "stopped": it is killed   *)
(* by the shutdown (remote_agent.py, run), however that came about.        *)
THEOREM HungWorkersAreKilled == MiningSpec => []NoHungWorkerSurvives
<1>1. AgentInv => NoHungWorkerSurvives
  BY InvImplies
<1> QED BY <1>1, PairInvariance, PTL

(* A worker is not lost without the stop event (remote_agent.py, the       *)
(* handler of worker_loop), as long as somebody listens.                   *)
THEOREM LossesStopTheAgent == MiningSpec => []WorkerLossStops
<1>1. AgentInv => WorkerLossStops
  BY InvImplies
<1> QED BY <1>1, PairInvariance, PTL

-----------------------------------------------------------------------------
(* Jobs are numbered no faster than the work changes.                      *)
JobInv ==
  /\ current \in Nat /\ jobWork \in Nat /\ work \in Nat
  /\ jobWork <= work /\ work <= MaxWork /\ current <= jobWork + 1
  /\ current = 0 => at \in {"poll", "stopping", "waiting", "over"}

(* A job that takes candidates has had its submissions reverted.           *)
TriesInv ==
  /\ tried \in [Jobs -> Nat] /\ reverted \in [Jobs -> Nat]
  /\ \A j \in Jobs : /\ tried[j] <= reverted[j] + 1
                     /\ j \notin submitted => tried[j] <= reverted[j]
  /\ at = "check" => current \notin submitted

(* The steps of the agent, of its environment and of the chain.            *)
Elsewhere ==
  \/ \E w \in Workers : ThreadRuns(w) \/ WorkerRuns(w) \/ WorkerFails(w)
  \/ MainRuns \/ StdinRuns \/ LinkBreaks

LEMMA ElsewhereStep ==
  ASSUME Elsewhere
  PROVE  UNCHANGED <<at, jobLine, tries, work>>
PROOF
<1>1. CASE \E w \in Workers : ThreadRuns(w) \/ WorkerRuns(w) \/ WorkerFails(w)
  BY <1>1 DEF ThreadRuns, WorkerRuns, WorkerFails, Emits, pairVars
<1>2. CASE MainRuns \/ StdinRuns \/ LinkBreaks
  BY <1>2 DEF MainRuns, StdinRuns, LinkBreaks, Emits, pairVars
<1> QED BY <1>1, <1>2 DEF Elsewhere

LEMMA JobStep ==
  ASSUME JobInv, [MiningNext]_miningVars
  PROVE  JobInv'
PROOF
<1> USE DEF JobInv
<1>0. MaxWork \in Nat
  BY AgentAssumption, MiningAssumption
<1>1. CASE Elsewhere \/ UNCHANGED miningVars
  BY <1>1, ElsewhereStep DEF miningVars, pairVars, jobLine
<1>2. CASE Poll
  <2>1. at = "poll" /\ UNCHANGED work
    BY <1>2 DEF Poll
  <2>2. CASE current # 0 /\ jobWork = work
    BY <1>2, <2>1, <2>2 DEF Poll, jobLine
  <2>3. CASE ~(current # 0 /\ jobWork = work)
    <3>1. current' = current + 1 /\ jobWork' = work
      BY <1>2, <2>3 DEF Poll
    <3>2. current + 1 <= work + 1
      BY <2>3
    <3> QED BY <1>0, <2>1, <3>1, <3>2
  <2> QED BY <2>2, <2>3
<1>3. CASE Minted \/ WorkMoves
  BY <1>0, <1>3 DEF Minted, WorkMoves, Goes, jobLine
<1>4. CASE TakeEvent \/ AgentEof \/ Dropped \/ Submit \/ LastSubmission \/ PollOver
             \/ SessionStops
  BY <1>4 DEF TakeEvent, AgentEof, Dropped, Submit, LastSubmission, PollOver, SessionStops,
     Goes, jobLine
<1>5. CASE Reverted \/ StopAgent
  BY <1>5 DEF Reverted, Reopens, StopAgent, Sends, jobLine
<1>6. CASE SessionOver \/ AgentKilled \/ Crash
  BY <1>6 DEF SessionOver, AgentKilled, Crash, Ends, jobLine
<1> QED
  BY <1>1, <1>2, <1>3, <1>4, <1>5, <1>6 DEF MiningNext, Handling, Elsewhere

LEMMA TriesStep ==
  ASSUME JobInv, TriesInv, [MiningNext]_miningVars
  PROVE  TriesInv'
PROOF
<1> USE DEF TriesInv
<1>1. CASE Elsewhere \/ UNCHANGED miningVars
  BY <1>1, ElsewhereStep DEF miningVars, pairVars, jobLine, tries
<1>2. CASE Poll
  BY <1>2 DEF Poll, Sends, tries
<1>3. CASE TakeEvent
  BY <1>3 DEF TakeEvent, Wanted, Goes, jobLine, tries
<1>4. CASE AgentEof \/ Dropped \/ Minted \/ LastSubmission \/ PollOver \/ SessionStops
             \/ WorkMoves
  BY <1>4 DEF AgentEof, Dropped, Minted, LastSubmission, PollOver, SessionStops, WorkMoves,
     Goes, jobLine, tries
<1>5. CASE Submit
  <2>1. /\ at = "check" /\ at' = "submit" /\ current' = current /\ reverted' = reverted
        /\ submitted' = submitted \union {current}
        /\ tried' = [tried EXCEPT ![current] = Capped(tried[current] + 1)]
    BY <1>5 DEF Submit, Goes, jobLine
  <2>2. current \in Jobs /\ current \notin submitted
    BY <2>1, AgentAssumption, MiningAssumption DEF JobInv, Jobs
  <2>3. Capped(tried[current] + 1) \in Nat /\ Capped(tried[current] + 1) <= tried[current] + 1
    BY <2>2, AgentAssumption DEF Capped
  <2>4. tried' \in [Jobs -> Nat] /\ reverted' \in [Jobs -> Nat]
    BY <2>1, <2>3
  <2>5. ASSUME NEW j \in Jobs
        PROVE  tried'[j] <= reverted'[j] + 1 /\ (j \notin submitted' => tried'[j] <= reverted'[j])
    <3>1. CASE j = current
      BY <2>1, <2>2, <2>3, <3>1
    <3>2. CASE j # current
      BY <2>1, <3>2
    <3> QED BY <3>1, <3>2
  <2> QED BY <2>1, <2>4, <2>5
<1>6. CASE Reverted
  <2>1. /\ at = "submit" /\ at' # "check" /\ current' = current /\ tried' = tried
        /\ submitted' = submitted \ {current}
        /\ reverted' = [reverted EXCEPT ![current] = reverted[current] + 1]
    BY <1>6 DEF Reverted, Reopens, Sends, jobLine
  <2>2. current \in Jobs
    BY <2>1, AgentAssumption, MiningAssumption DEF JobInv, Jobs
  <2>3. reverted' \in [Jobs -> Nat]
    BY <2>1, <2>2
  <2>4. ASSUME NEW j \in Jobs
        PROVE  tried'[j] <= reverted'[j] + 1 /\ (j \notin submitted' => tried'[j] <= reverted'[j])
    <3>1. CASE j = current
      BY <2>1, <2>2, <3>1
    <3>2. CASE j # current
      BY <2>1, <3>2
    <3> QED BY <3>1, <3>2
  <2> QED BY <2>1, <2>3, <2>4
<1>7. CASE StopAgent
  BY <1>7 DEF StopAgent, jobLine, tries
<1>8. CASE SessionOver \/ AgentKilled \/ Crash
  BY <1>8 DEF SessionOver, AgentKilled, Crash, Ends, jobLine, tries
<1> QED
  BY <1>1, <1>2, <1>3, <1>4, <1>5, <1>6, <1>7, <1>8 DEF MiningNext, Handling, Elsewhere

(* However late and however often the agent reports a job, it is submitted *)
(* again only after a revert (coordinator.py, handle_candidate and         *)
(* submitted_jobs).                                                        *)
THEOREM SubmittedOncePerJob == MiningSpec => []OncePerJob
<1>1. MiningInit => JobInv /\ TriesInv
  BY AgentAssumption, MiningAssumption DEF MiningInit, JobInv, TriesInv
<1>2. JobInv /\ TriesInv /\ [MiningNext]_miningVars => (JobInv /\ TriesInv)'
  BY JobStep, TriesStep
<1>3. TriesInv => OncePerJob
  <2> SUFFICES ASSUME TriesInv, NEW j \in Jobs PROVE tried[j] <= 1 + reverted[j]
    BY DEF OncePerJob
  <2>1. tried[j] \in Nat /\ reverted[j] \in Nat /\ tried[j] <= reverted[j] + 1
    BY DEF TriesInv
  <2> QED BY <2>1
<1> QED BY <1>1, <1>2, <1>3, PTL DEF MiningSpec
=============================================================================
