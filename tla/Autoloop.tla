------------------------------ MODULE Autoloop ------------------------------
(***************************************************************************)
(* scripts/autoloop.sh: the autopilot again and again, unattended, until a *)
(* stop file, the last pass or too many failures in a row end it; and the  *)
(* single run of run.sh or of the command line, which is one pass.         *)
(***************************************************************************)
EXTENDS Autopilot

CONSTANTS MaxPasses, \* LOOP_MAX_PASSES
          MaxFails   \* LOOP_MAX_CONSECUTIVE_FAILS

ASSUME AutoloopAssumption == MaxPasses \in Nat \ {0} /\ MaxFails \in Nat \ {0}

VARIABLES alone,     \* one run, without the loop
          loop,      \* where the script has got to
          pass, fails,
          stopFile,  \* state/STOP exists
          afterStop, \* history: boxes ordered since then
          vain       \* history: failed passes with a rental since the last success

loopVars == <<alone, loop, pass, fails, stopFile, afterStop, vain>>

LoopInit ==
  /\ Init
  /\ alone \in BOOLEAN /\ (~alone => unattended /\ ~dry)
  /\ loop = "pass" /\ pass = 1 /\ fails = 0
  /\ stopFile = FALSE /\ afterStop = 0 /\ vain = 0

PassRuns ==
  /\ Next
  /\ afterStop' = IF stopFile /\ box = "none" /\ box' = "rented" THEN afterStop + 1 ELSE afterStop
  /\ UNCHANGED <<alone, loop, pass, fails, stopFile, vain>>

(* The exit status of autopilot.py, and the counter of failures.           *)
Minted == exit = "returned" /\ outcome = "ok"

OneFailureMore(n) == n > MaxFails  \* mutation: off by one

TooMany(n) == n >= MaxFails

PassOver ==
  /\ loop = "pass" /\ ~Running /\ main # "create"
  /\ fails' = IF Minted THEN 0 ELSE fails + 1
  /\ vain' = IF Minted THEN 0 ELSE IF box = "none" THEN vain ELSE vain + 1
  /\ loop' = IF alone THEN "over" ELSE IF TooMany(fails') THEN "gave up" ELSE "sleep"
  /\ UNCHANGED <<vars, alone, pass, stopFile, afterStop>>

LastPass ==
  /\ loop = "sleep" /\ pass = MaxPasses
  /\ loop' = "over"
  /\ UNCHANGED <<vars, alone, pass, fails, stopFile, afterStop, vain>>

StopFound ==
  /\ loop = "sleep" /\ pass < MaxPasses /\ stopFile
  /\ loop' = "over"
  /\ UNCHANGED <<vars, alone, pass, fails, stopFile, afterStop, vain>>

(* A pass is a new process; what the last one left rented stays so.        *)
Begins ==
  /\ loop = "sleep" /\ pass < MaxPasses
  /\ loop' = "pass" /\ pass' = pass + 1
  /\ main' = "preflight" /\ outcome' = "none" /\ watchdog' = "off"
  /\ td' = [t \in Threads |-> "idle"] /\ tries' = [t \in Threads |-> 0]
  /\ instanceId' = FALSE /\ started' = FALSE /\ box' = "none"
  /\ warned' = FALSE /\ exit' = "running" /\ disturbed' = FALSE
  /\ UNCHANGED <<settings, alone, fails, stopFile, afterStop, vain>>

NextPassAnyway == Begins  \* mutation: the stop file is only looked for after the loop

NextPass == ~stopFile /\ Begins

TouchStop ==
  /\ ~alone /\ ~stopFile
  /\ stopFile' = TRUE
  /\ UNCHANGED <<vars, alone, loop, pass, fails, afterStop, vain>>

LoopNext == PassRuns \/ PassOver \/ LastPass \/ StopFound \/ NextPass \/ TouchStop

LoopSpec == LoopInit /\ [][LoopNext]_<<vars, loopVars>> /\ Fairness

-----------------------------------------------------------------------------
(* autoloop.sh: "the loop exits before the next pass; a pass in progress   *)
(* still finishes": once the file is there, one more box at most.          *)
StopFileHolds == afterStop <= 1

(* Boxes paid for without reaching the target, in a row, are bounded by    *)
(* LOOP_MAX_CONSECUTIVE_FAILS, whatever passes that rented nothing fall in *)
(* between.                                                                *)
VainRentalsBounded == vain <= MaxFails

(* docs/zero-to-mining.md: "A pass that fails the gate costs nothing and   *)
(* just waits for the next slot".                                          *)
GateJustWaits == loop = "gave up" => ~(outcome = "refused" /\ box = "none")
=============================================================================
