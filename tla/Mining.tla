------------------------------- MODULE Mining -------------------------------
(***************************************************************************)
(* The coordinator of coordinator.py and the agent of remote_agent.py at   *)
(* the two ends of a pair of pipes: what Agent leaves to its environment   *)
(* is here what the coordinator does, and each line takes its time.        *)
(*                                                                         *)
(* Of the chain only its work counts: the (prev, anchor, target) a job is  *)
(* for.  Money, files and the fate of a transaction are in Coordinator;    *)
(* here a submission mints, reverts or is the last of its session.         *)
(***************************************************************************)
EXTENDS Agent, Sequences, Functions

CONSTANTS MaxWork,      \* bound: changes of the chain's work
          LaggingReads, \* a node may answer a re-check with older work
          MayBreak      \* the coordinator may die, the link may break

(* Jobs are made for new work only, so there are enough of them.           *)
ASSUME MiningAssumption ==
  MaxWork \in 0 .. MaxJob - 1 /\ LaggingReads \in BOOLEAN /\ MayBreak \in BOOLEAN

VARIABLES toAgent,   \* lines on the agent's stdin
          events,    \* the agent's output, the reader thread's queue included
          at,        \* where run() has got to
          current,   \* self.job by its id, 0 before the first
          jobWork,   \* the work current is for
          work,      \* the work the chain has now
          submitted, \* submitted_jobs
          tried,     \* history: submissions per job
          reverted   \* history: reverts per job

pipeVars == <<toAgent, events>>
jobLine == <<current, jobWork>>
tries == <<submitted, tried, reverted>>
pairVars == <<pipeVars, at, jobLine, tries, work>>
miningVars == <<vars, pairVars>>

Line(type, id) == [type |-> type, id |-> id]

MiningInit ==
  /\ Init
  /\ toAgent = <<>> /\ events = <<>>
  /\ at = "poll" /\ current = 0 /\ jobWork = 0 /\ work = 0
  /\ submitted = {}
  /\ tried = [j \in Jobs |-> 0] /\ reverted = [j \in Jobs |-> 0]

-----------------------------------------------------------------------------
(* The agent, with its lines on the pipes.                                 *)
Silent(w) ==
  \/ Spawn(w) \/ SpawnFails(w) \/ TakeJob(w) \/ LeaveLoop(w) \/ WriteLine(w)
  \/ ReadHit(w) \/ ReadMiss(w) \/ ReadFails(w) \/ Report(w) \/ EmitRaises(w) \/ Quit(w)

(* What is written when nobody is left to read it is lost.                 *)
Emits(line) ==
  /\ events' = IF gone THEN events ELSE Append(events, line)
  /\ UNCHANGED <<toAgent, at, jobLine, tries, work>>

ThreadRuns(w) ==
  \/ Silent(w) /\ UNCHANGED pairVars
  \/ EmitCandidate(w) /\ Emits(Line("candidate", mine[w]))
  \/ Fail(w) /\ Emits(Line("worker_error", 0))

MainRuns ==
  \/ /\ Ready \/ StatsRaise \/ WakeUp \/ Joined \/ Return \/ \E w \in Workers : Reap(w)
     /\ UNCHANGED pairVars
  \/ EmitStopped /\ Emits(Line("stopped", 0))

StdinRuns ==
  \/ /\ toAgent # <<>> /\ toAgent' = Tail(toAgent)
     /\ CASE Head(toAgent).type = "job" -> SetJob
          [] Head(toAgent).type = "resume" -> Resume
          [] OTHER -> StopLine
     /\ UNCHANGED <<events, at, jobLine, tries, work>>
  \/ toAgent = <<>> /\ EndOfInput /\ UNCHANGED pairVars

WorkerRuns(w) == (Answer(w) \/ InputEnds(w)) /\ UNCHANGED pairVars

WorkerFails(w) == (Hang(w) \/ Die(w)) /\ UNCHANGED pairVars

-----------------------------------------------------------------------------
(* send: with the agent or the link gone the session stops.                *)
Closed == main = "exited" \/ gone

Sends(line, next) ==
  IF Closed
    THEN at' = "stopping" /\ UNCHANGED toAgent
    ELSE at' = next /\ toAgent' = Append(toAgent, line)

Goes(from, to) ==
  /\ at = from /\ at' = to
  /\ UNCHANGED <<vars, toAgent, jobLine>>

(* A look at the chain: a new job when its work is not that of the last.   *)
Poll ==
  /\ at = "poll"
  /\ IF current # 0 /\ jobWork = work
       THEN at' = "events" /\ UNCHANGED <<toAgent, jobLine>>
       ELSE /\ current' = current + 1 /\ jobWork' = work
            /\ Sends(Line("job", current + 1), "events")
  /\ UNCHANGED <<vars, events, tries, work>>

PollOver == Goes("events", "poll") /\ UNCHANGED <<events, tries, work>>

(* A limit is reached, or a call raises: the session goes to its finally.  *)
SessionStops ==
  /\ \E from \in {"poll", "events", "check"} : Goes(from, "stopping")
  /\ UNCHANGED <<events, tries, work>>

(* handle_event and the first lines of handle_candidate.                   *)
WantedTwice(j) == j = current  \* mutation: submitted_jobs is not looked at

Wanted(j) == j = current /\ j \notin submitted

TakeEvent ==
  /\ events # <<>> /\ events' = Tail(events)
  /\ Goes("events", CASE Head(events).type # "candidate" -> "stopping"
                      [] Wanted(Head(events).id) -> "check"
                      [] OTHER -> "events")
  /\ UNCHANGED <<tries, work>>

(* The end of the agent's output is an event behind all others.            *)
IgnoreEof ==  \* mutation: the end of the output is no event
  events = <<>> /\ Closed /\ Goes("events", "poll") /\ UNCHANGED <<events, tries, work>>

AgentEof ==
  events = <<>> /\ Closed /\ Goes("events", "stopping") /\ UNCHANGED <<events, tries, work>>

(* prevWork or the target moved: the candidate is dropped, and nothing is  *)
(* said to the agent.                                                      *)
Dropped ==
  /\ work # jobWork \/ LaggingReads
  /\ Goes("check", "events")
  /\ UNCHANGED <<events, tries, work>>

Submit ==
  /\ work = jobWork /\ Goes("check", "submit")
  /\ submitted' = submitted \union {current}
  /\ tried' = [tried EXCEPT ![current] = Capped(@ + 1)]
  /\ UNCHANGED <<events, reverted, work>>

(* A mint makes new work; a dry run does not.                              *)
Minted ==
  /\ Goes("submit", "events")
  /\ work' \in {work, work + 1} /\ work' <= MaxWork
  /\ UNCHANGED <<events, tries>>

(* A revert: the job is open again and the agent is asked for another.     *)
Reopens ==
  /\ at = "submit" /\ FoldFunction(LAMBDA a, b : a + b, 0, reverted) < MaxResumes
  /\ reverted' = [reverted EXCEPT ![current] = @ + 1]
  /\ submitted' = submitted \ {current}
  /\ UNCHANGED <<vars, events, jobLine, tried, work>>

RevertedQuietly ==  \* mutation: the agent is not asked
  Reopens /\ at' = "events" /\ UNCHANGED toAgent

Reverted == Reopens /\ Sends(Line("resume", 0), "events")

(* Receipt unresolved, ownership, too many reverts, an exception.          *)
LastSubmission == Goes("submit", "stopping") /\ UNCHANGED <<events, tries, work>>

-----------------------------------------------------------------------------
(* stop_agent: a stop line, fifteen seconds, a kill.                       *)
StopAgent ==
  /\ at = "stopping" /\ at' = "waiting"
  /\ toAgent' = IF Closed THEN toAgent ELSE Append(toAgent, Line("stop", 0))
  /\ UNCHANGED <<vars, events, jobLine, tries, work>>

(* The process ends and takes its ends of the pipes with it.               *)
Ends ==
  /\ at' = "over" /\ gone' = TRUE
  /\ UNCHANGED <<reaped, workVars, jobVars, stop, reading, historyVars,
                 pipeVars, jobLine, tries, work>>

SessionOver == at = "waiting" /\ main = "exited" /\ Ends /\ UNCHANGED main

(* With the agent behind ssh it is the ssh client that is killed.          *)
AgentKilled == at = "waiting" /\ main # "exited" /\ main' \in {main, "exited"} /\ Ends

Crash == MayBreak /\ at # "over" /\ Ends /\ UNCHANGED main

(* What is on its way is lost with the link.                               *)
LinkBreaks ==
  /\ MayBreak /\ ~gone
  /\ gone' = TRUE
  /\ toAgent' = <<>> /\ events' = <<>>
  /\ UNCHANGED <<mainVars, workVars, jobVars, stop, reading, historyVars, at, jobLine, tries, work>>

WorkMoves ==
  /\ work < MaxWork
  /\ work' = work + 1
  /\ UNCHANGED <<vars, pipeVars, at, jobLine, tries>>

-----------------------------------------------------------------------------
Handling ==
  \/ Poll \/ TakeEvent \/ AgentEof \/ Dropped \/ Submit \/ Minted \/ Reverted \/ LastSubmission
  \/ StopAgent \/ SessionOver \/ AgentKilled

MiningNext ==
  \/ \E w \in Workers : ThreadRuns(w) \/ WorkerRuns(w) \/ WorkerFails(w)
  \/ MainRuns \/ StdinRuns
  \/ Handling \/ PollOver \/ SessionStops \/ Crash \/ LinkBreaks
  \/ WorkMoves

MiningSpec == MiningInit /\ [][MiningNext]_miningVars

(* As in Agent; a queued event is taken at once, and polls end.            *)
MiningFairness ==
  /\ \A w \in Workers : /\ WF_miningVars(ThreadRuns(w)) /\ WF_miningVars(WorkerRuns(w))
                        /\ SF_miningVars(ReadHit(w) /\ UNCHANGED pairVars)
  /\ WF_miningVars(MainRuns) /\ WF_miningVars(StdinRuns)
  /\ WF_miningVars(Handling) /\ SF_miningVars(TakeEvent \/ AgentEof) /\ WF_miningVars(PollOver)

FairMining == MiningSpec /\ MiningFairness

-----------------------------------------------------------------------------
(* handle_candidate, submitted_jobs: the agent may report a job more than  *)
(* once, yet a job is submitted again only after a revert.                 *)
OncePerJob == \A j \in Jobs : tried[j] <= 1 + reverted[j]

Ending == at \in {"stopping", "waiting", "over"}

(* The job of a session is submitted, or gives way to another, or the      *)
(* session ends; after a revert once more (refresh_job, submit, resume).   *)
(* Unless no worker is left: nobody notices workers that all hang or that  *)
(* never started.                                                          *)
JobServed ==
  \A j \in Jobs : (current = j /\ j \notin submitted)
                   ~> (j \in submitted \/ current # j \/ Ending \/ NoWorkerLeft)

(* One side does not outlive the other: the end of the agent, of the link  *)
(* or of a session ends both, and no worker goes on (stop_agent,           *)
(* _read_agent, stdin_loop).                                               *)
EndTogether ==
  (Closed \/ Ending) ~>
     (at = "over" /\ main = "exited" /\ \A w \in Workers : proc[w] \notin {"idle", "busy", "answered"})
=============================================================================
