-------------------------- MODULE AutopilotProofs --------------------------
(***************************************************************************)
(* Proofs about the autopilot and the loop that runs it, for any provider, *)
(* any number of destroy attempts, passes and failures, and Ctrl-C in any  *)
(* set of phases that leaves out the call that creates the instance.       *)
(***************************************************************************)
EXTENDS Autoloop, TLAPS

allVars == <<vars, loopVars>>

(* The phases before the order is given.                                   *)
Early == {"preflight", "gate", "search", "confirm", "create"}

(* Who works on the rental: the main thread in its finally only, the       *)
(* watchdog once it fired, and in a disturbed run if the order was not     *)
(* complete by then.                                                       *)
ThreadInv ==
  /\ td["main"] # "idle" => main \in {"teardown", "summary", "over"}
  /\ main = "summary" => td["main"] = "done"
  /\ td["watchdog"] # "idle" => watchdog \in {"fired", "dead"}
  /\ main \in {"preflight", "gate"} => watchdog = "off"
  /\ watchdog \in {"fired", "dead"} /\ main \in Ordering => disturbed
  /\ ~Running /\ main \in Ordering => disturbed

(* What the program knows of the rental.                                   *)
RentalInv ==
  /\ main \in Early => box = "none" /\ ~instanceId
  /\ RentalIsKnown
  /\ \A t \in Threads : td[t] = "clear" => box = "gone"
  /\ instanceId /\ ~started => main = "created" \/ disturbed

(* A teardown that is over leaves no rental behind without a word, and so  *)
(* does a process that is.                                                 *)
Told == box # "rented" \/ warned \/ disturbed

LeakInv ==
  /\ \A t \in Threads : td[t] = "done" => Told
  /\ \A t \in Threads : td[t] = "raised" => disturbed
  /\ ~Running => Told

(* A teardown runs once in a thread, and counts its attempts.              *)
TriesInv ==
  \A t \in Threads : /\ td[t] \in {"idle", "check"} => tries[t] = 0
                     /\ td[t] = "destroy" => tries[t] < Attempts

RunInv == TypeOK /\ TriesInv /\ ThreadInv

PassInv == RunInv /\ RentalInv /\ LeakInv

-----------------------------------------------------------------------------
(* The steps by what they touch.                                           *)
Plain ==
  Preflight \/ Searched \/ Confirmed \/ WaitRunning \/ WaitForSsh \/ UploadRepo \/ Setup \/ Regate
Ended == TornDown \/ TeardownRaised \/ WriteSummary
Quits == DryRunOver \/ Mined \/ Raise

LEMMA NextCases ==
  ASSUME Next
  PROVE  \/ Plain \/ Quits \/ Ended \/ GatePassed \/ Rent \/ CreateReturns \/ NoteStart
         \/ Interrupt \/ CancelWatchdog
         \/ \E t \in Threads : Check(t) \/ DestroySucceeds(t) \/ DestroyFails(t) \/ Clear(t)
         \/ Fire \/ HardExit \/ WatchdogDies
  BY DEF Next, MainNext, Plain, Ended, Quits, Teardown

LEMMA PlainStep ==
  ASSUME TypeOK, Plain
  PROVE  /\ UNCHANGED <<outcome, threads, rental, ends, settings>> /\ Running
         /\ main \in Trying /\ main' \in Trying
         /\ main' \notin {"gate", "preflight"} \/ (main = "preflight" /\ main' = "gate")
         /\ main' \notin {"reply", "created"} /\ main \notin {"create", "reply", "created"}
         /\ main' \in Early => main \in Early
         /\ main' \in Ordering => main \in Ordering
  BY DEF Plain, Preflight, Searched, Confirmed, WaitRunning, WaitForSsh, UploadRepo, Setup,
     Regate, Goes, Step, Trying, Early, Ordering

-----------------------------------------------------------------------------
LEMMA TypeStep ==
  ASSUME TypeOK, TriesInv, Next
  PROVE  TypeOK'
PROOF
<1> USE DEF TypeOK, Phases, Trying
<1>1. CASE Plain
  <2>1. main' \in Trying /\ UNCHANGED <<outcome, threads, rental, ends, settings>>
    BY <1>1, PlainStep
  <2> QED BY <2>1 DEF threads, rental, ends, settings
<1>2. CASE Quits
  <2>1. main' = "finally" /\ outcome' \in {"ok", "refused", "failed"}
        /\ UNCHANGED <<settings, threads, rental, ends>>
    BY <1>2 DEF Quits, DryRunOver, Mined, Raise, Step
  <2> QED BY <2>1 DEF threads, rental, ends, settings
<1>3. CASE Ended
  <2>1. main' \in {"summary", "over"} /\ exit' \in {exit, "returned", "raised"}
        /\ UNCHANGED <<settings, outcome, threads, rental, warned, disturbed>>
    BY <1>3 DEF Ended, TornDown, TeardownRaised, WriteSummary, Goes, Step, ends
  <2> QED BY <2>1 DEF threads, rental, settings
<1>4. CASE GatePassed
  <2>1. main' = "search" /\ watchdog' \in {"armed", "off"}
        /\ UNCHANGED <<settings, outcome, td, tries, rental, ends>>
    BY <1>4 DEF GatePassed, Step
  <2> QED BY <2>1 DEF rental, ends, settings
<1>5. CASE Rent
  <2>1. main' = "reply" /\ box' = "rented"
        /\ UNCHANGED <<settings, outcome, threads, instanceId, started, ends>>
    BY <1>5 DEF Rent
  <2> QED BY <2>1 DEF threads, ends, settings
<1>6. CASE CreateReturns
  <2>1. main' = "created" /\ instanceId' \in BOOLEAN
        /\ UNCHANGED <<settings, outcome, threads, started, box, ends>>
    BY <1>6 DEF CreateReturns, Step
  <2> QED BY <2>1 DEF threads, ends, settings
<1>7. CASE NoteStart
  <2>1. main' = "boot" /\ started' \in BOOLEAN
        /\ UNCHANGED <<settings, outcome, threads, instanceId, box, ends>>
    BY <1>7 DEF NoteStart, Step
  <2> QED BY <2>1 DEF threads, ends, settings
<1>8. CASE Interrupt
  <2>1. main' \in {"finally", "over"} /\ outcome' = "failed" /\ exit' \in {exit, "raised"}
        /\ UNCHANGED <<settings, threads, rental, warned>>
    BY <1>8 DEF Interrupt, Step
  <2>2. disturbed' \in BOOLEAN
    BY <1>8 DEF Interrupt
  <2> QED BY <2>1, <2>2 DEF threads, rental, settings
<1>9. CASE CancelWatchdog
  <2>1. main' = "teardown" /\ watchdog' \in {"off", watchdog}
        /\ UNCHANGED <<settings, outcome, tries, rental, ends>>
    BY <1>9 DEF CancelWatchdog, Step
  <2>2. td' \in [Threads -> TeardownPhases]
    BY <1>9 DEF CancelWatchdog, TeardownPhases
  <2> QED BY <2>1, <2>2 DEF rental, ends, settings
<1>10. ASSUME NEW t \in Threads, Check(t) PROVE TypeOK'
  <2>1. td' \in [Threads -> TeardownPhases]
    BY <1>10 DEF Check, TeardownPhases
  <2> QED BY <1>10, <2>1 DEF Check, InTeardown, rental, settings
<1>11. ASSUME NEW t \in Threads, DestroySucceeds(t) PROVE TypeOK'
  <2>1. td' \in [Threads -> TeardownPhases]
    BY <1>11 DEF DestroySucceeds, TeardownPhases
  <2> QED BY <1>11, <2>1 DEF DestroySucceeds, InTeardown, settings
<1>12. ASSUME NEW t \in Threads, DestroyFails(t) PROVE TypeOK'
  <2>0. tries[t] < Attempts
    BY <1>12 DEF TriesInv, DestroyFails, InTeardown
  <2>1. td' \in [Threads -> TeardownPhases]
    BY <1>12 DEF DestroyFails, TeardownPhases
  <2>2. tries' \in [Threads -> 0 .. Attempts]
    BY <1>12, <2>0, AutopilotAssumption DEF DestroyFails
  <2>3. warned' \in BOOLEAN /\ box' \in {"none", "rented", "gone"}
    BY <1>12 DEF DestroyFails
  <2>4. UNCHANGED <<watchdog, instanceId, started, settings, main, outcome, exit, disturbed>>
    BY <1>12 DEF DestroyFails, InTeardown
  <2> QED BY <2>1, <2>2, <2>3, <2>4 DEF settings
<1>13. ASSUME NEW t \in Threads, Clear(t) PROVE TypeOK'
  <2>1. td' \in [Threads -> TeardownPhases]
    BY <1>13 DEF Clear, TeardownPhases
  <2>2. instanceId' \in BOOLEAN
    BY <1>13 DEF Clear
  <2>3. UNCHANGED <<watchdog, tries, started, box, warned, settings, main, outcome, exit, disturbed>>
    BY <1>13 DEF Clear, InTeardown
  <2> QED BY <2>1, <2>2, <2>3 DEF settings
<1>14. CASE Fire
  <2>1. td' \in [Threads -> TeardownPhases] /\ watchdog' = "fired" /\ disturbed' \in BOOLEAN
    BY <1>14 DEF Fire, TeardownPhases
  <2> QED BY <1>14, <2>1 DEF Fire, rental, settings
<1>15. CASE HardExit \/ WatchdogDies
  <2>1. watchdog' \in {watchdog, "dead"} /\ exit' \in {exit, "killed"}
        /\ UNCHANGED <<settings, main, outcome, td, tries, rental, warned, disturbed>>
    BY <1>15 DEF HardExit, Killed, WatchdogDies, threads, ends
  <2> QED BY <2>1 DEF rental, settings
<1> QED
  BY <1>1, <1>2, <1>3, <1>4, <1>5, <1>6, <1>7, <1>8, <1>9, <1>10, <1>11, <1>12, <1>13,
     <1>14, <1>15, NextCases

-----------------------------------------------------------------------------
(* Attempts.                                                               *)
LEMMA TriesStep ==
  ASSUME TypeOK, TriesInv, ThreadInv, Next
  PROVE  TriesInv'
PROOF
<1> USE DEF TypeOK, TriesInv
<1>1. CASE UNCHANGED <<td, tries>>
  BY <1>1
<1>2. CASE CancelWatchdog
  <2>1. tries["main"] = 0 /\ tries' = tries /\ td' = [td EXCEPT !["main"] = "check"]
    BY <1>2 DEF CancelWatchdog, Step, ThreadInv, Threads
  <2> QED BY <2>1
<1>3. CASE Fire
  <2>1. tries["watchdog"] = 0 /\ tries' = tries /\ td' = [td EXCEPT !["watchdog"] = "check"]
    BY <1>3 DEF Fire, ThreadInv, Threads
  <2> QED BY <2>1
<1>4. ASSUME NEW t \in Threads, Check(t) PROVE TriesInv'
  <2>1. tries[t] = 0 /\ tries' = tries
    BY <1>4 DEF Check, InTeardown
  <2>2. \E x \in {"done", "raised", "destroy"} : td' = [td EXCEPT ![t] = x]
    BY <1>4 DEF Check
  <2> QED BY <2>1, <2>2, AutopilotAssumption
<1>5. ASSUME NEW t \in Threads, DestroyFails(t) PROVE TriesInv'
  <2>1. tries[t] < Attempts /\ tries[t] \in Nat /\ td[t] = "destroy"
    BY <1>5 DEF DestroyFails, InTeardown
  <2>2. tries' = [tries EXCEPT ![t] = tries[t] + 1]
        /\ td' = [td EXCEPT ![t] = IF tries[t] + 1 = Attempts THEN "done" ELSE "destroy"]
    BY <1>5, <2>1 DEF DestroyFails, LastTry
  <2> QED BY <2>1, <2>2, AutopilotAssumption
<1>6. ASSUME NEW t \in Threads, DestroySucceeds(t) \/ Clear(t) PROVE TriesInv'
  BY <1>6 DEF DestroySucceeds, Clear
<1>7. Plain => UNCHANGED <<td, tries>>
  BY PlainStep DEF threads
<1>8. Quits \/ Ended \/ GatePassed \/ Rent \/ CreateReturns \/ NoteStart \/ Interrupt
        \/ HardExit \/ WatchdogDies => UNCHANGED <<td, tries>>
  BY DEF Quits, DryRunOver, Mined, Raise, Ended, TornDown, TeardownRaised, WriteSummary, Goes,
     GatePassed, Rent, CreateReturns, NoteStart, Interrupt, HardExit, Killed, WatchdogDies, threads
<1> QED BY <1>1, <1>2, <1>3, <1>4, <1>5, <1>6, <1>7, <1>8, NextCases

(* Who is where.                                                           *)
LEMMA ThreadStep ==
  ASSUME TypeOK, ThreadInv, Next
  PROVE  ThreadInv'
PROOF
<1> USE DEF TypeOK, ThreadInv, Threads, Ordering, Running
<1>1. CASE Plain
  <2>1. /\ UNCHANGED <<td, watchdog, disturbed, exit>> /\ Running /\ main \in Trying
        /\ main' \in Trying /\ (main' \in Ordering => main \in Ordering)
        /\ main' \notin {"gate", "preflight"} \/ main \in {"preflight", "gate"}
    BY <1>1, PlainStep DEF threads, ends
  <2> QED BY <2>1 DEF Trying
<1>2. CASE Quits
  BY <1>2 DEF Quits, DryRunOver, Mined, Raise, Step, threads, ends, Trying
<1>3. CASE Ended
  BY <1>3 DEF Ended, TornDown, TeardownRaised, WriteSummary, Goes, Step, threads, ends
<1>4. CASE GatePassed
  BY <1>4 DEF GatePassed, Step, ends
<1>5. CASE Rent
  BY <1>5 DEF Rent, threads, ends
<1>6. CASE CreateReturns \/ NoteStart
  BY <1>6 DEF CreateReturns, NoteStart, Step, threads, ends
<1>7. CASE Interrupt
  BY <1>7 DEF Interrupt, Step, Trying, threads
<1>8. CASE CancelWatchdog
  BY <1>8 DEF CancelWatchdog, Step, ends
<1>9. ASSUME NEW t \in Threads, Check(t) \/ DestroySucceeds(t) \/ DestroyFails(t) \/ Clear(t)
      PROVE  ThreadInv'
  <2>1. td[t] \notin {"idle", "done"} /\ Running
        /\ UNCHANGED <<main, watchdog, exit, disturbed>>
    BY <1>9 DEF Check, DestroySucceeds, DestroyFails, Clear, InTeardown
  <2>2. \A u \in Threads : u # t => td'[u] = td[u]
    BY <1>9 DEF Check, DestroySucceeds, DestroyFails, Clear
  <2> QED BY <2>1, <2>2
<1>10. CASE Fire
  BY <1>10 DEF Fire
<1>11. CASE HardExit \/ WatchdogDies
  BY <1>11 DEF HardExit, Killed, WatchdogDies, threads, ends
<1> QED
  BY <1>1, <1>2, <1>3, <1>4, <1>5, <1>6, <1>7, <1>8, <1>9, <1>10, <1>11, NextCases

-----------------------------------------------------------------------------
(* The order goes through undisturbed: its reply is read, and no Ctrl-C    *)
(* falls into the call.                                                    *)
Sheltered == ~ReplyMayBeLost /\ InterruptAt \intersect {"create", "reply"} = {}

(* The rental.                                                             *)
LEMMA RentalStep ==
  ASSUME Sheltered, TypeOK, RentalInv, Next
  PROVE  RentalInv'
PROOF
<1> USE DEF TypeOK, RentalInv, RentalIsKnown, Early
<1>1. CASE Plain
  BY <1>1, PlainStep DEF threads, rental, ends
<1>2. CASE Quits
  BY <1>2 DEF Sheltered, Quits, DryRunOver, Mined, Raise, Step, Trying, threads, rental, ends
<1>3. CASE Ended
  BY <1>3 DEF Ended, TornDown, TeardownRaised, WriteSummary, Goes, Step, threads, rental, ends
<1>4. CASE GatePassed
  BY <1>4 DEF GatePassed, Step, rental, ends
<1>5. CASE Rent
  BY <1>5 DEF Rent, threads, ends
<1>6. CASE CreateReturns \/ NoteStart
  BY <1>6 DEF CreateReturns, NoteStart, Step, threads, ends
<1>7. CASE Interrupt
  BY <1>7 DEF Interrupt, Sheltered, Step, Trying, threads, rental
<1>8. CASE CancelWatchdog
  BY <1>8 DEF CancelWatchdog, Step, rental, ends
<1>9. ASSUME NEW t \in Threads, Check(t) PROVE RentalInv'
  BY <1>9 DEF Check, InTeardown, rental
<1>10. ASSUME NEW t \in Threads, DestroySucceeds(t) PROVE RentalInv'
  BY <1>10 DEF DestroySucceeds, InTeardown
<1>11. ASSUME NEW t \in Threads, DestroyFails(t) PROVE RentalInv'
  <2>1. \A u \in Threads : td'[u] = "clear" => td[u] = "clear"
    BY <1>11 DEF DestroyFails, InTeardown
  <2>2. UNCHANGED <<main, disturbed, instanceId, started>>
    BY <1>11 DEF DestroyFails, InTeardown
  <2>3. box' = box \/ (instanceId /\ box = "rented" /\ box' = "gone")
    BY <1>11 DEF DestroyFails
  <2> QED BY <2>1, <2>2, <2>3
<1>12. ASSUME NEW t \in Threads, Clear(t) PROVE RentalInv'
  <2>1. box = "gone" /\ box' = box /\ UNCHANGED <<main, started, disturbed>> /\ instanceId' = FALSE
    BY <1>12 DEF Clear, InTeardown
  <2>2. \A u \in Threads : td'[u] = "clear" => td[u] = "clear"
    BY <1>12 DEF Clear
  <2> QED BY <2>1, <2>2
<1>13. CASE Fire
  <2>1. /\ UNCHANGED <<main, box, instanceId, started>> /\ (disturbed => disturbed')
        /\ \A u \in Threads : td'[u] = "clear" => td[u] = "clear"
    BY <1>13 DEF Fire, rental
  <2> QED BY <2>1
<1>14. CASE HardExit \/ WatchdogDies
  BY <1>14 DEF HardExit, Killed, WatchdogDies, threads, rental, ends
<1> QED
  BY <1>1, <1>2, <1>3, <1>4, <1>5, <1>6, <1>7, <1>8, <1>9, <1>10, <1>11, <1>12, <1>13,
     <1>14, NextCases

(* A run that was disturbed or has warned stays so, and a rental that is   *)
(* gone comes back by an order only.                                       *)
LEMMA ToldStays ==
  ASSUME TypeOK, Told, Next, ~Rent
  PROVE  Told'
PROOF
<1> USE DEF TypeOK, Told
<1>1. CASE Plain
  BY <1>1, PlainStep DEF rental, ends
<1>2. CASE Quits \/ Ended
  BY <1>2 DEF Quits, DryRunOver, Mined, Raise, Ended, TornDown, TeardownRaised, WriteSummary,
     Goes, rental, ends
<1>3. CASE GatePassed \/ CreateReturns \/ NoteStart \/ CancelWatchdog
  BY <1>3 DEF GatePassed, CreateReturns, NoteStart, CancelWatchdog, rental, ends
<1>4. CASE Interrupt
  BY <1>4 DEF Interrupt, rental
<1>5. ASSUME NEW t \in Threads, Check(t) \/ DestroySucceeds(t) \/ DestroyFails(t) \/ Clear(t)
      PROVE  Told'
  BY <1>5 DEF Check, DestroySucceeds, DestroyFails, Clear, InTeardown, rental
<1>6. CASE Fire
  BY <1>6 DEF Fire, rental
<1>7. CASE HardExit \/ WatchdogDies
  BY <1>7 DEF HardExit, Killed, WatchdogDies, rental, ends
<1> QED BY <1>1, <1>2, <1>3, <1>4, <1>5, <1>6, <1>7, NextCases

LEMMA DisturbedStays ==
  ASSUME TypeOK, disturbed, Next
  PROVE  disturbed'
PROOF
<1> USE DEF TypeOK
<1>1. CASE Plain
  BY <1>1, PlainStep DEF ends
<1>2. CASE Quits \/ Ended
  BY <1>2 DEF Quits, DryRunOver, Mined, Raise, Ended, TornDown, TeardownRaised, WriteSummary,
     Goes, ends
<1>3. CASE GatePassed \/ Rent \/ CreateReturns \/ NoteStart \/ CancelWatchdog
  BY <1>3 DEF GatePassed, Rent, CreateReturns, NoteStart, CancelWatchdog, ends
<1>4. CASE Interrupt \/ Fire
  BY <1>4 DEF Interrupt, Fire
<1>5. CASE \E t \in Threads : Check(t) \/ DestroySucceeds(t) \/ DestroyFails(t) \/ Clear(t)
  BY <1>5 DEF Check, DestroySucceeds, DestroyFails, Clear, InTeardown
<1>6. CASE HardExit \/ WatchdogDies
  BY <1>6 DEF HardExit, Killed, WatchdogDies, ends
<1> QED BY <1>1, <1>2, <1>3, <1>4, <1>5, <1>6, NextCases

(* The teardowns.                                                          *)
LEMMA LeakStep ==
  ASSUME TypeOK, ThreadInv, RentalInv, LeakInv, Next
  PROVE  LeakInv'
PROOF
<1> USE DEF TypeOK
<1>1. CASE Rent
  <2>1. /\ main = "create" /\ UNCHANGED <<td, warned, exit, disturbed>>
    BY <1>1 DEF Rent, threads, ends
  <2>2. td["main"] = "idle" /\ (td["watchdog"] # "idle" \/ ~Running => disturbed)
    BY <2>1 DEF ThreadInv, Ordering
  <2>3. \A t \in Threads : td[t] # "idle" => disturbed
    BY <2>2 DEF Threads
  <2> QED BY <2>1, <2>2, <2>3 DEF LeakInv, Told, Running
<1>2. CASE UNCHANGED <<td, exit>> /\ ~Rent
  <2>1. (Told => Told') /\ (disturbed => disturbed')
    BY <1>2, ToldStays, DisturbedStays
  <2> QED BY <1>2, <2>1 DEF LeakInv, Running
<1>3. ASSUME NEW t \in Threads, Check(t) PROVE LeakInv'
  <2>1. Running /\ exit' = exit /\ UNCHANGED <<warned, box, disturbed>> /\ td[t] = "check"
    BY <1>3 DEF Check, InTeardown, rental
  <2>2. ~instanceId => Told
    <3>1. CASE t = "main"
      BY <2>1, <3>1 DEF ThreadInv, RentalInv, RentalIsKnown, Told
    <3>2. CASE t = "watchdog"
      BY <2>1, <3>2 DEF ThreadInv, RentalInv, RentalIsKnown, Told, Ordering
    <3> QED BY <3>1, <3>2 DEF Threads
  <2>3. instanceId /\ ~started => disturbed
    <3>1. CASE t = "main"
      BY <2>1, <3>1 DEF ThreadInv, RentalInv
    <3>2. CASE t = "watchdog"
      BY <2>1, <3>2 DEF ThreadInv, RentalInv, Ordering
    <3> QED BY <3>1, <3>2 DEF Threads
  <2>4. /\ td'[t] = "done" => ~instanceId
        /\ td'[t] = "raised" => instanceId /\ ~started
        /\ \A u \in Threads : u # t => td'[u] = td[u]
    BY <1>3 DEF Check
  <2> QED BY <2>1, <2>2, <2>3, <2>4 DEF LeakInv, Told, Running
<1>4. ASSUME NEW t \in Threads, DestroySucceeds(t) \/ DestroyFails(t) \/ Clear(t) PROVE LeakInv'
  <2>1. Running /\ exit' = exit /\ disturbed' = disturbed
    BY <1>4 DEF DestroySucceeds, DestroyFails, Clear, InTeardown
  <2>2. Told => Told'
    <3>1. ~Rent
      BY <1>4 DEF Rent, DestroySucceeds, DestroyFails, Clear, InTeardown
    <3> QED BY <1>4, <3>1, ToldStays DEF Next, Teardown
  <2>3. td'[t] = "done" => Told'
    BY <1>4 DEF DestroySucceeds, DestroyFails, Clear, InTeardown, RentalInv, Told
  <2>4. td'[t] # "raised" /\ \A u \in Threads : u # t => td'[u] = td[u]
    BY <1>4 DEF DestroySucceeds, DestroyFails, Clear, InTeardown
  <2> QED BY <2>1, <2>2, <2>3, <2>4 DEF LeakInv, Running
<1>5. CASE CancelWatchdog
  <2>1. exit' = exit /\ td' = [td EXCEPT !["main"] = "check"]
    BY <1>5 DEF CancelWatchdog, ends
  <2>2. ~Rent
    BY <1>5 DEF CancelWatchdog, Step, Rent
  <2>3. (Told => Told') /\ (disturbed => disturbed')
    BY <2>2, ToldStays, DisturbedStays
  <2> QED BY <2>1, <2>3 DEF LeakInv, Running
<1>6. CASE Fire
  <2>1. exit' = exit /\ td' = [td EXCEPT !["watchdog"] = "check"]
    BY <1>6 DEF Fire
  <2>2. ~Rent
    BY <1>6 DEF Fire, Rent, rental
  <2>3. (Told => Told') /\ (disturbed => disturbed')
    BY <1>6, <2>2, ToldStays, DisturbedStays DEF Next
  <2> QED BY <2>1, <2>3 DEF LeakInv, Running
<1>7. CASE Interrupt
  <2>1. td' = td /\ UNCHANGED <<warned, box>> /\ (disturbed => disturbed')
    BY <1>7 DEF Interrupt, threads, rental
  <2>2. CASE main \in Trying
    BY <1>7, <2>1, <2>2 DEF Interrupt, LeakInv, Told, Running
  <2>3. CASE main \in {"finally", "teardown"}
    BY <1>7, <2>1, <2>3 DEF Interrupt, LeakInv, Told
  <2>4. CASE main = "summary"
    <3>1. Told
      BY <2>4 DEF ThreadInv, LeakInv, Threads
    <3> QED BY <2>1, <3>1 DEF LeakInv, Told
  <2> QED BY <1>7, <2>2, <2>3, <2>4 DEF Interrupt, Phases
<1>8. CASE Ended \/ HardExit
  <2>1. \/ UNCHANGED <<td, warned, box, disturbed>> /\ Told
        \/ UNCHANGED <<td, exit, warned, box, disturbed>>
    <3>1. CASE TornDown
      BY <3>1 DEF TornDown, Goes, threads, rental, ends
    <3>2. CASE TeardownRaised
      BY <3>2 DEF TeardownRaised, LeakInv, Told, Threads, threads, rental
    <3>3. CASE WriteSummary
      BY <3>3 DEF WriteSummary, Step, LeakInv, ThreadInv, Threads, threads, rental
    <3>4. CASE HardExit
      BY <3>4 DEF HardExit, Killed, LeakInv, Threads, threads, rental
    <3> QED BY <1>8, <3>1, <3>2, <3>3, <3>4 DEF Ended
  <2> QED BY <2>1 DEF LeakInv, Told, Running
<1>9. Plain \/ Quits \/ GatePassed \/ CreateReturns \/ NoteStart \/ WatchdogDies
        => UNCHANGED <<td, exit>>
  BY PlainStep DEF Quits, DryRunOver, Mined, Raise, GatePassed, CreateReturns, NoteStart,
     WatchdogDies, threads, ends
<1> QED
  BY <1>1, <1>2, <1>3, <1>4, <1>5, <1>6, <1>7, <1>8, <1>9, NextCases

-----------------------------------------------------------------------------
(* A pass in the loop: the steps of the script change nothing in it, or    *)
(* start it anew.                                                          *)
LEMMA PassInit == Init => PassInv
PROOF
<1> SUFFICES ASSUME Init PROVE PassInv
  OBVIOUS
<1> USE DEF Init
<1>1. TypeOK
  <2>1. td \in [Threads -> TeardownPhases] /\ tries \in [Threads -> 0 .. Attempts]
    BY AutopilotAssumption DEF TeardownPhases
  <2>2. provider \in Providers /\ dry \in BOOLEAN /\ unattended \in BOOLEAN
    OBVIOUS
  <2>3. main \in Phases
    BY DEF Phases, Trying
  <2> QED BY <2>1, <2>2, <2>3 DEF TypeOK
<1>2. TriesInv /\ ThreadInv /\ RentalInv /\ LeakInv
  BY DEF TriesInv, ThreadInv, RentalInv, LeakInv, RentalIsKnown, Running, Threads, Ordering
<1> QED BY <1>1, <1>2 DEF PassInv, RunInv

LEMMA RunStep ==
  ASSUME RunInv, Next
  PROVE  RunInv'
  BY TypeStep, TriesStep, ThreadStep DEF RunInv

LEMMA PassStep ==
  ASSUME Sheltered, PassInv, Next
  PROVE  PassInv'
  BY RunStep, RentalStep, LeakStep DEF PassInv, RunInv

LEMMA RunFrame ==
  ASSUME RunInv, UNCHANGED vars
  PROVE  RunInv'
PROOF
<1> USE DEF vars, settings, threads, rental, ends
<1>1. TypeOK'
  BY DEF RunInv, TypeOK
<1>2. TriesInv' /\ ThreadInv'
  BY DEF RunInv, TriesInv, ThreadInv, Running
<1> QED BY <1>1, <1>2 DEF RunInv

LEMMA PassFrame ==
  ASSUME PassInv, UNCHANGED vars
  PROVE  PassInv'
PROOF
<1>1. RunInv'
  BY RunFrame DEF PassInv
<1>2. RentalInv' /\ LeakInv'
  BY DEF PassInv, RentalInv, LeakInv, RentalIsKnown, Running, Told, vars, settings, threads,
     rental, ends
<1> QED BY <1>1, <1>2 DEF PassInv

LEMMA RunBegins ==
  ASSUME RunInv, Begins
  PROVE  RunInv'
PROOF
<1> USE DEF Begins
<1>1. TypeOK'
  <2>1. td' \in [Threads -> TeardownPhases] /\ tries' \in [Threads -> 0 .. Attempts]
    BY AutopilotAssumption DEF TeardownPhases
  <2>2. main' \in Phases
    BY DEF Phases, Trying
  <2>3. provider' \in Providers /\ dry' \in BOOLEAN /\ unattended' \in BOOLEAN
    BY DEF RunInv, TypeOK, settings
  <2>4. instanceId' \in BOOLEAN /\ started' \in BOOLEAN /\ warned' \in BOOLEAN /\ disturbed' \in BOOLEAN
    OBVIOUS
  <2> QED BY <2>1, <2>2, <2>3, <2>4 DEF TypeOK
<1>2. TriesInv' /\ ThreadInv'
  BY DEF TriesInv, ThreadInv, Running, Threads
<1> QED BY <1>1, <1>2 DEF RunInv

LEMMA PassBegins ==
  ASSUME PassInv, Begins
  PROVE  PassInv'
PROOF
<1>1. RunInv'
  BY RunBegins DEF PassInv
<1>2. RentalInv' /\ LeakInv'
  BY DEF Begins, RentalInv, LeakInv, RentalIsKnown, Running, Threads, Ordering
<1> QED BY <1>1, <1>2 DEF PassInv

LEMMA RunInLoop ==
  ASSUME RunInv, [LoopNext]_allVars
  PROVE  RunInv'
PROOF
<1>1. CASE PassRuns
  BY <1>1, RunStep DEF PassRuns
<1>2. CASE NextPass
  BY <1>2, RunBegins DEF NextPass
<1>3. CASE PassOver \/ LastPass \/ StopFound \/ TouchStop \/ UNCHANGED allVars
  BY <1>3, RunFrame DEF PassOver, LastPass, StopFound, TouchStop, allVars
<1> QED BY <1>1, <1>2, <1>3 DEF LoopNext

LEMMA PassInLoop ==
  ASSUME Sheltered, PassInv, [LoopNext]_allVars
  PROVE  PassInv'
PROOF
<1>1. CASE PassRuns
  BY <1>1, PassStep DEF PassRuns
<1>2. CASE NextPass
  BY <1>2, PassBegins DEF NextPass
<1>3. CASE PassOver \/ LastPass \/ StopFound \/ TouchStop \/ UNCHANGED allVars
  BY <1>3, PassFrame DEF PassOver, LastPass, StopFound, TouchStop, allVars
<1> QED BY <1>1, <1>2, <1>3 DEF LoopNext

(* The state stays what autopilot.py and autoloop.sh can be in, also where *)
(* a Ctrl-C or a lost reply disturbs the order.                            *)
THEOREM TypeCorrect == LoopSpec => []TypeOK
<1>1. LoopInit => RunInv
  BY PassInit DEF LoopInit, PassInv
<1>2. RunInv /\ [LoopNext]_allVars => RunInv'
  BY RunInLoop
<1>3. RunInv => TypeOK
  BY DEF RunInv
<1> QED BY <1>1, <1>2, <1>3, PTL DEF LoopSpec, allVars

LEMMA PassInvariance ==
  ASSUME Sheltered
  PROVE  LoopSpec => []PassInv
<1>1. LoopInit => PassInv
  BY PassInit DEF LoopInit
<1>2. PassInv /\ [LoopNext]_allVars => PassInv'
  BY PassInLoop
<1> QED BY <1>1, <1>2, PTL DEF LoopSpec, allVars

(* When the order goes through undisturbed, a rental that exists is known  *)
(* to the autopilot while it runs, at every step of its two threads.       *)
THEOREM RentalStaysKnown ==
  ASSUME Sheltered
  PROVE  LoopSpec => []RentalIsKnown
<1>1. PassInv => RentalIsKnown
  BY DEF PassInv, RentalInv
<1> QED BY <1>1, PassInvariance, PTL

(* And when it has ended, the rental is gone, or the operator was told     *)
(* (autopilot.py, provision, teardown and watchdog), with the exceptions   *)
(* of NoSilentLeak: a Ctrl-C between create's return and the statement     *)
(* after it, or from the finally on, and a watchdog that met an order a    *)
(* person had delayed.                                                     *)
THEOREM NoRentalForgotten ==
  ASSUME Sheltered
  PROVE  LoopSpec => []NoSilentLeak
<1>1. PassInv => NoSilentLeak
  BY DEF PassInv, LeakInv, Told, NoSilentLeak
<1> QED BY <1>1, PassInvariance, PTL

-----------------------------------------------------------------------------
(* A pass orders one box, and none begins once the stop file is there.     *)
StopInv ==
  /\ afterStop \in {0, 1}
  /\ afterStop = 1 => stopFile /\ box # "none"

LEMMA BoxStays ==
  ASSUME Next, box # "none"
  PROVE  box' # "none"
PROOF
<1>1. Plain => box' = box
  BY DEF Plain, Preflight, Searched, Confirmed, WaitRunning, WaitForSsh, UploadRepo, Setup,
     Regate, Goes, rental
<1>2. Quits \/ Ended \/ GatePassed \/ CreateReturns \/ NoteStart \/ Interrupt \/ CancelWatchdog
        \/ Fire \/ HardExit \/ WatchdogDies => box' = box
  BY DEF Quits, DryRunOver, Mined, Raise, Ended, TornDown, TeardownRaised, WriteSummary, Goes,
     GatePassed, CreateReturns, NoteStart, Interrupt, CancelWatchdog, Fire, HardExit, Killed,
     WatchdogDies, rental
<1>3. ASSUME NEW t \in Threads, Check(t) \/ DestroySucceeds(t) \/ DestroyFails(t) \/ Clear(t)
      PROVE  box' \in {box, "gone"}
  BY <1>3 DEF Check, DestroySucceeds, DestroyFails, Clear, rental
<1>4. ~Rent
  BY DEF Rent
<1> QED BY <1>1, <1>2, <1>3, <1>4, NextCases

LEMMA StopStep ==
  ASSUME StopInv, [LoopNext]_allVars
  PROVE  StopInv'
PROOF
<1> USE DEF StopInv
<1>1. CASE PassRuns
  <2>1. box # "none" => box' # "none"
    BY <1>1, BoxStays DEF PassRuns
  <2>2. /\ afterStop' = IF stopFile /\ box = "none" /\ box' = "rented" THEN afterStop + 1 ELSE afterStop
        /\ stopFile' = stopFile
    BY <1>1 DEF PassRuns
  <2> QED BY <2>1, <2>2
<1>2. CASE NextPass
  BY <1>2 DEF NextPass, Begins
<1>3. CASE PassOver \/ LastPass \/ StopFound \/ TouchStop \/ UNCHANGED allVars
  BY <1>3 DEF PassOver, LastPass, StopFound, TouchStop, allVars, vars, rental, loopVars
<1> QED BY <1>1, <1>2, <1>3 DEF LoopNext

(* After the stop file at most the box of the pass in progress is ordered  *)
(* (autoloop.sh).                                                          *)
THEOREM StopFileIsObeyed == LoopSpec => []StopFileHolds
<1>1. LoopInit => StopInv
  BY DEF LoopInit, StopInv
<1>2. StopInv /\ [LoopNext]_allVars => StopInv'
  BY StopStep
<1>3. StopInv => StopFileHolds
  BY DEF StopInv, StopFileHolds
<1> QED BY <1>1, <1>2, <1>3, PTL DEF LoopSpec, allVars

-----------------------------------------------------------------------------
(* A failed pass with a rental is a failed pass.                           *)
VainInv ==
  /\ vain \in Nat /\ fails \in Nat
  /\ vain <= fails /\ fails <= MaxFails
  /\ loop \in {"pass", "sleep"} => fails < MaxFails

LEMMA VainStep ==
  ASSUME VainInv, [LoopNext]_allVars
  PROVE  VainInv'
PROOF
<1> USE DEF VainInv
<1>0. MaxFails \in Nat
  BY AutoloopAssumption
<1>1. CASE PassOver
  <2>1. loop = "pass" /\ fails < MaxFails
    BY <1>1 DEF PassOver
  <2>2. CASE Minted
    <3>1. fails' = 0 /\ vain' = 0
      BY <1>1, <2>2 DEF PassOver
    <3>2. 0 < MaxFails
      BY AutoloopAssumption
    <3>3. 0 \in Nat /\ vain' \in Nat /\ fails' \in Nat
      BY <3>1
    <3>4. vain' <= fails' /\ fails' <= MaxFails /\ fails' < MaxFails
      BY <1>0, <3>1, <3>2, SMT
    <3> QED BY <3>3, <3>4
  <2>3. CASE ~Minted
    <3>1. fails' = fails + 1 /\ (vain' = vain \/ vain' = vain + 1)
      BY <1>1, <2>3 DEF PassOver
    <3>2. loop' \in {"over", "gave up"} \/ (loop' = "sleep" /\ ~(fails' >= MaxFails))
      BY <1>1 DEF PassOver, TooMany
    <3>3. vain' \in Nat /\ fails' \in Nat /\ vain' <= fails' /\ fails' <= MaxFails
      BY <1>0, <2>1, <3>1
    <3>4. loop' = "sleep" => fails' < MaxFails
      BY <1>0, <3>2, <3>3
    <3> QED BY <3>2, <3>3, <3>4
  <2> QED BY <2>2, <2>3
<1>2. CASE PassRuns \/ NextPass \/ LastPass \/ StopFound \/ TouchStop \/ UNCHANGED allVars
  BY <1>2 DEF PassRuns, NextPass, Begins, LastPass, StopFound, TouchStop, allVars, loopVars
<1> QED BY <1>1, <1>2 DEF LoopNext

(* Boxes paid for in vain, one after the other, are at most                *)
(* LOOP_MAX_CONSECUTIVE_FAILS (autoloop.sh).                               *)
THEOREM VainRentalsAreBounded == LoopSpec => []VainRentalsBounded
<1>1. LoopInit => VainInv
  BY AutoloopAssumption DEF LoopInit, VainInv
<1>2. VainInv /\ [LoopNext]_allVars => VainInv'
  BY VainStep
<1>3. VainInv => VainRentalsBounded
  BY AutoloopAssumption DEF VainInv, VainRentalsBounded
<1> QED BY <1>1, <1>2, <1>3, PTL DEF LoopSpec, allVars
=============================================================================
