------------------------------- MODULE Agent -------------------------------
(***************************************************************************)
(* remote_agent.py on the GPU host: one thread and one worker process per  *)
(* GPU, a thread that reads stdin, and the main thread, which waits for    *)
(* the stop event and then shuts everything down.                          *)
(*                                                                         *)
(* The coordinator is the environment: it sends jobs with growing ids,     *)
(* resume and stop, and it may be gone, which closes stdin and breaks      *)
(* stdout.  A worker process is what worker_loop makes of it: it answers a *)
(* job line with a hit, a miss or an error, it may die, it may hang.       *)
(***************************************************************************)
EXTENDS Integers, FiniteSets

CONSTANTS Workers,
          MaxJob,       \* bound: jobs sent
          MaxResumes,   \* bound: resumes sent
          Cap,          \* bound: how far the histories count
          MayNotStart,  \* workers whose Popen may raise: no binary, no memory
          MayHang,      \* workers whose process may stop answering
          MayDie        \* workers whose process may die or answer with an error

ASSUME AgentAssumption ==
  /\ IsFiniteSet(Workers) /\ MaxJob \in Nat /\ MaxResumes \in Nat /\ Cap \in Nat \ {0}
  /\ MayNotStart \subseteq Workers /\ MayHang \subseteq Workers /\ MayDie \subseteq Workers

VARIABLES main,     \* run()
          reaped,   \* processes run() has waited for or killed
          thread,   \* worker_loop of each worker
          mine,     \* the job a thread's current batch is for
          proc,     \* the worker processes
          job,      \* self.job, by its id; 0 before the first
          reported, \* self.reported; 0 for None
          stop,     \* the stop event
          reading,  \* stdin_loop has not left its loop
          gone,     \* the coordinator's end of both pipes is closed
          emitted,  \* history: candidates sent per job
          stale,    \* history: per worker, candidates sent for an older job
          resumes   \* history: resumes received

mainVars == <<main, reaped>>
workVars == <<thread, mine, proc>>
jobVars == <<job, reported>>
endVars == <<stop, reading, gone>>
historyVars == <<emitted, stale, resumes>>
vars == <<mainVars, workVars, jobVars, endVars, historyVars>>

Jobs == 1 .. MaxJob
Capped(n) == IF n > Cap THEN Cap ELSE n

MainPhases == {"ready", "loop", "join", "reap", "stopped", "exited"}
ThreadPhases == {"spawn", "next", "write", "read", "report", "emit", "failed", "quit", "done"}
ProcStates == {"none", "idle", "busy", "answered", "hung", "dead"}

Init ==
  /\ main = "ready" /\ reaped = {}
  /\ thread = [w \in Workers |-> "spawn"]
  /\ mine = [w \in Workers |-> 0]
  /\ proc = [w \in Workers |-> "none"]
  /\ job = 0 /\ reported = 0
  /\ stop = FALSE /\ reading = TRUE /\ gone = FALSE
  /\ emitted = [j \in Jobs |-> 0]
  /\ stale = [w \in Workers |-> 0]
  /\ resumes = 0

-----------------------------------------------------------------------------
(* worker_loop.  Threads are daemons: they end with the process.           *)
At(w, phase) == main # "exited" /\ thread[w] = phase

Goto(w, phase) == thread' = [thread EXCEPT ![w] = phase]

Become(w, state) == proc' = [proc EXCEPT ![w] = state]

Spawn(w) ==
  /\ At(w, "spawn") /\ Goto(w, "next") /\ Become(w, "idle")
  /\ UNCHANGED <<mainVars, mine, jobVars, endVars, historyVars>>

(* spawn is called before the try: its exception ends the thread only.     *)
SpawnFails(w) ==
  /\ w \in MayNotStart
  /\ At(w, "spawn") /\ Goto(w, "done")
  /\ UNCHANGED <<mainVars, mine, proc, jobVars, endVars, historyVars>>

(* The loop condition and the job of the next batch.                       *)
KeepsJob(w) ==  \* mutation: a thread reads the job once
  /\ At(w, "next") /\ ~stop /\ job # 0 /\ Goto(w, "write")
  /\ mine' = [mine EXCEPT ![w] = IF @ = 0 THEN job ELSE @]
  /\ UNCHANGED <<mainVars, proc, jobVars, endVars, historyVars>>

TakeJob(w) ==
  /\ At(w, "next") /\ ~stop /\ job # 0 /\ Goto(w, "write")
  /\ mine' = [mine EXCEPT ![w] = job]
  /\ UNCHANGED <<mainVars, proc, jobVars, endVars, historyVars>>

LeaveLoop(w) ==
  /\ At(w, "next") /\ stop /\ Goto(w, "quit")
  /\ UNCHANGED <<mainVars, mine, proc, jobVars, endVars, historyVars>>

WriteLine(w) ==
  /\ At(w, "write")
  /\ IF proc[w] = "dead"
       THEN Goto(w, "failed") /\ UNCHANGED proc
       ELSE Goto(w, "read") /\ Become(w, "busy")
  /\ UNCHANGED <<mainVars, mine, jobVars, endVars, historyVars>>

ReadHit(w) ==
  /\ At(w, "read") /\ proc[w] = "answered" /\ Goto(w, "report") /\ Become(w, "idle")
  /\ UNCHANGED <<mainVars, mine, jobVars, endVars, historyVars>>

ReadMiss(w) ==
  /\ At(w, "read") /\ proc[w] = "answered" /\ Goto(w, "next") /\ Become(w, "idle")
  /\ UNCHANGED <<mainVars, mine, jobVars, endVars, historyVars>>

(* The worker exited, or its line is not a result.                         *)
ReadFails(w) ==
  /\ At(w, "read") /\ Goto(w, "failed")
  /\ proc[w] = "dead" \/ (w \in MayDie /\ proc[w] = "answered")
  /\ UNCHANGED <<mainVars, mine, proc, jobVars, endVars, historyVars>>

(* should_report, under job_lock.                                          *)
ShouldReportOnce(j) == reported = 0  \* mutation: only a resume asks for another

ShouldReport(j) == reported # j

ReportNext(w) ==  \* mutation: one job too far
  /\ At(w, "report") /\ ShouldReport(mine[w])
  /\ reported' = mine[w] + 1 /\ Goto(w, "emit")
  /\ UNCHANGED <<mainVars, mine, proc, job, endVars, historyVars>>

Report(w) ==
  /\ At(w, "report")
  /\ IF ShouldReport(mine[w])
       THEN reported' = mine[w] /\ Goto(w, "emit")
       ELSE UNCHANGED reported /\ Goto(w, "next")
  /\ UNCHANGED <<mainVars, mine, proc, job, endVars, historyVars>>

EmitCandidate(w) ==
  /\ At(w, "emit") /\ ~gone /\ Goto(w, "next")
  /\ emitted' = [emitted EXCEPT ![mine[w]] = Capped(@ + 1)]
  /\ stale' = [stale EXCEPT ![w] = IF mine[w] # job THEN Capped(@ + 1) ELSE @]
  /\ UNCHANGED <<mainVars, mine, proc, jobVars, endVars, resumes>>

EmitRaises(w) ==
  /\ At(w, "emit") /\ gone /\ Goto(w, "failed")
  /\ UNCHANGED <<mainVars, mine, proc, jobVars, endVars, historyVars>>

(* except: worker_error, then the stop event.  With stdout broken the emit *)
(* raises again and the event is not set.                                  *)
FailQuietly(w) ==  \* mutation: the error is reported and nothing is stopped
  /\ At(w, "failed") /\ Goto(w, "quit")
  /\ UNCHANGED <<mainVars, mine, proc, jobVars, endVars, historyVars>>

Fail(w) ==
  /\ At(w, "failed") /\ Goto(w, "quit")
  /\ stop' = (stop \/ ~gone)
  /\ UNCHANGED <<mainVars, mine, proc, jobVars, reading, gone, historyVars>>

(* finally: quit and terminate.                                            *)
Quit(w) ==
  /\ At(w, "quit") /\ Goto(w, "done") /\ Become(w, "dead")
  /\ UNCHANGED <<mainVars, mine, jobVars, endVars, historyVars>>

ThreadStep(w) ==
  \/ Spawn(w) \/ SpawnFails(w) \/ TakeJob(w) \/ LeaveLoop(w) \/ WriteLine(w)
  \/ ReadHit(w) \/ ReadMiss(w) \/ ReadFails(w)
  \/ Report(w) \/ EmitCandidate(w) \/ EmitRaises(w) \/ Fail(w) \/ Quit(w)

-----------------------------------------------------------------------------
(* stdin_loop: it goes on reading until a stop line or the end of the      *)
(* input, also when a worker's error has set the stop event; lines written *)
(* before the coordinator went are still read.                             *)
Listening == main # "exited" /\ reading

SetJob ==
  /\ Listening /\ job < MaxJob
  /\ job' = job + 1
  /\ stale' = [w \in Workers |-> 0]
  /\ UNCHANGED <<mainVars, workVars, reported, endVars, emitted, resumes>>

Resume ==
  /\ Listening /\ resumes < MaxResumes
  /\ reported' = 0
  /\ resumes' = resumes + 1
  /\ UNCHANGED <<mainVars, workVars, job, endVars, emitted, stale>>

StopLine ==
  /\ Listening
  /\ stop' = TRUE /\ reading' = FALSE
  /\ UNCHANGED <<mainVars, workVars, jobVars, gone, historyVars>>

EndOfInput == gone /\ StopLine

-----------------------------------------------------------------------------
(* run.                                                                    *)
Main(from, to) ==
  /\ main = from /\ main' = to
  /\ UNCHANGED <<reaped, workVars, jobVars, endVars, historyVars>>

Ready == Main("ready", IF gone THEN "exited" ELSE "loop")

(* A stats line that cannot be written ends the process with its           *)
(* exception: nothing is joined, nothing is killed.                        *)
StatsRaise == ~stop /\ gone /\ Main("loop", "exited")

WakeUp == stop /\ Main("loop", "join")

(* Each thread is joined for five seconds at most.                         *)
JoinForever ==  \* mutation: join without a timeout
  (\A w \in Workers : thread[w] = "done") /\ Main("join", "reap")

Joined == Main("join", "reap")

(* wait(2), then kill: either way the process is dead.                     *)
Abandon(w) ==  \* mutation: wait, and no kill
  /\ main = "reap" /\ proc[w] # "none" /\ w \notin reaped
  /\ reaped' = reaped \union {w}
  /\ UNCHANGED <<main, workVars, jobVars, endVars, historyVars>>

Reap(w) ==
  /\ main = "reap" /\ proc[w] # "none" /\ w \notin reaped
  /\ reaped' = reaped \union {w}
  /\ Become(w, "dead")
  /\ UNCHANGED <<main, thread, mine, jobVars, endVars, historyVars>>

EmitStopped ==
  /\ {w \in Workers : proc[w] # "none"} \subseteq reaped
  /\ Main("reap", IF gone THEN "exited" ELSE "stopped")

Return == Main("stopped", "exited")

MainStep ==
  Ready \/ StatsRaise \/ WakeUp \/ Joined \/ (\E w \in Workers : Reap(w)) \/ EmitStopped \/ Return

-----------------------------------------------------------------------------
(* The environment.                                                        *)
Turns(w, state) ==
  /\ Become(w, state)
  /\ UNCHANGED <<mainVars, thread, mine, jobVars, endVars, historyVars>>

Answer(w) == proc[w] = "busy" /\ Turns(w, "answered")

(* A worker whose agent is gone reads the end of its input.                *)
InputEnds(w) == main = "exited" /\ proc[w] \in {"idle", "answered"} /\ Turns(w, "dead")

Hang(w) == w \in MayHang /\ proc[w] = "busy" /\ Turns(w, "hung")

Die(w) == w \in MayDie /\ proc[w] \in {"idle", "busy"} /\ Turns(w, "dead")

CoordinatorGone ==
  /\ ~gone
  /\ gone' = TRUE
  /\ UNCHANGED <<mainVars, workVars, jobVars, stop, reading, historyVars>>

-----------------------------------------------------------------------------
Next ==
  \/ \E w \in Workers : ThreadStep(w) \/ Answer(w) \/ InputEnds(w) \/ Hang(w) \/ Die(w)
  \/ SetJob \/ Resume \/ StopLine
  \/ MainStep
  \/ CoordinatorGone

Spec == Init /\ [][Next]_vars

(* Threads are scheduled, a worker that has not hung answers, timeouts     *)
(* expire, the end of a pipe is noticed.                                   *)
Fairness ==
  /\ \A w \in Workers : WF_vars(ThreadStep(w)) /\ WF_vars(Answer(w)) /\ WF_vars(InputEnds(w))
  /\ WF_vars(EndOfInput) /\ WF_vars(MainStep)

FairSpec == Spec /\ Fairness

(* Moreover every worker keeps finding nonces, as it does with an easy     *)
(* target.                                                                 *)
LuckySpec == FairSpec /\ \A w \in Workers : SF_vars(ReadHit(w))

-----------------------------------------------------------------------------
(* Types.                                                                  *)
TypeOK ==
  /\ main \in MainPhases
  /\ thread \in [Workers -> ThreadPhases]
  /\ mine \in [Workers -> 0 .. MaxJob]
  /\ proc \in [Workers -> ProcStates]
  /\ reaped \subseteq Workers
  /\ job \in 0 .. MaxJob /\ reported \in 0 .. MaxJob
  /\ stop \in BOOLEAN /\ reading \in BOOLEAN /\ gone \in BOOLEAN
  /\ emitted \in [Jobs -> 0 .. Cap] /\ stale \in [Workers -> 0 .. Cap]
  /\ resumes \in 0 .. MaxResumes

(* Once the coordinator has moved on, each worker sends at most one        *)
(* candidate for an older job: the batch it was in (worker_loop).          *)
OneStragglerPerWorker == \A w \in Workers : stale[w] <= 1

(* tests/test_remote_agent.py: "One candidate per job unless the           *)
(* coordinator asks for another."                                          *)
OneReportPerJob == \A j \in Jobs : emitted[j] <= 1 + resumes

(* An agent that said stopped leaves no worker behind that hangs: it was   *)
(* killed, and a thread that was slow to start gives out no job (run).     *)
NoHungWorkerSurvives ==
  main = "stopped" => \A w \in Workers : proc[w] \notin {"busy", "answered", "hung"}

(* worker_loop: "report and stop everything".  Where a thread has ended    *)
(* although its worker had started, the agent is stopping or nobody        *)
(* listens any more: a worker that dies ends the session.  One that hangs  *)
(* or never started does not, and the others mine on without it.           *)
WorkerLossStops ==
  \A w \in Workers : thread[w] = "done" /\ proc[w] # "none" => stop \/ gone \/ main = "exited"

(* A stop, an error or a coordinator that is gone ends the agent and its   *)
(* workers, even when one of them hangs.                                   *)
ShutdownCompletes ==
  (stop \/ gone) ~>
     (main = "exited" /\ \A w \in Workers : proc[w] \notin {"idle", "busy", "answered"})

NoWorkerLeft == \A w \in Workers : proc[w] = "hung" \/ (thread[w] = "done" /\ proc[w] = "none")

(* A new job is reported without a resume, whatever late candidates for    *)
(* older jobs do to reported in between (should_report), as long as there  *)
(* is a worker that does not hang.                                         *)
EveryJobAnswered ==
  \A j \in Jobs : (job = j) ~> (emitted[j] >= 1 \/ job # j \/ stop \/ gone \/ NoWorkerLeft)
=============================================================================
