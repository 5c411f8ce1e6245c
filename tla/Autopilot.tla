----------------------------- MODULE Autopilot -----------------------------
(***************************************************************************)
(* One run of autopilot.py: the checks, the rental, the set-up, the mining *)
(* session and the teardown, with the watchdog thread beside them and the  *)
(* rental provider (vast.py and the service behind it) around them.        *)
(*                                                                         *)
(* What the steps compute is left out; each may succeed or raise, where    *)
(* Abort and any other exception lead to the same finally.  teardown is    *)
(* run by two threads, which is why it is a procedure of a thread here.    *)
(***************************************************************************)
EXTENDS Integers

CONSTANTS Providers,      \* of "vast", "ssh", "local"
          ReplyMayBeLost, \* create: time-out or unreadable reply after the fact
          InterruptAt,    \* phases of run() in which Ctrl-C may come
          Attempts        \* destroy attempts of one teardown (3)

Trying == {"preflight", "gate", "search", "confirm", "create", "reply", "created",
           "boot", "ssh", "upload", "build", "regate", "mine"}
Phases == Trying \union {"finally", "teardown", "summary", "over"}

ASSUME AutopilotAssumption ==
  /\ Providers \subseteq {"vast", "ssh", "local"}
  /\ ReplyMayBeLost \in BOOLEAN
  /\ InterruptAt \subseteq Phases
  /\ Attempts \in Nat \ {0}

VARIABLES provider, dry,
          unattended, \* --yes: nothing waits for a person
          main,       \* run() in the main thread
          outcome,    \* what summary["reason"] makes of it for main()
          watchdog,   \* the timer
          td,         \* where each thread's teardown has got to
          tries,      \* destroy attempts each thread's teardown made
          instanceId, \* self.instance_id is not None
          started,    \* self.instance_started is not None
          box,        \* the rental, as the provider has it
          warned,     \* "COULD NOT DESTROY" was said
          exit,       \* how the process ended
          disturbed   \* history: Ctrl-C or the watchdog came where it hurts

settings == <<provider, dry, unattended>>
threads == <<watchdog, td, tries>>
rental == <<instanceId, started, box>>
ends == <<warned, exit, disturbed>>
vars == <<settings, main, outcome, threads, rental, ends>>

Threads == {"main", "watchdog"}
Vast == provider = "vast"
Running == exit = "running"

Init ==
  /\ provider \in Providers /\ dry \in BOOLEAN /\ unattended \in BOOLEAN
  /\ main = "preflight" /\ outcome = "none"
  /\ watchdog = "off"
  /\ td = [t \in Threads |-> "idle"]
  /\ tries = [t \in Threads |-> 0]
  /\ instanceId = FALSE /\ started = FALSE /\ box = "none"
  /\ warned = FALSE /\ exit = "running" /\ disturbed = FALSE

-----------------------------------------------------------------------------
(* run: the steps inside try.                                              *)
Step(from, to) ==
  Running /\ main = from /\ main' = to /\ UNCHANGED settings

Goes(from, to) == Step(from, to) /\ UNCHANGED <<outcome, threads, rental, ends>>

Preflight == Goes("preflight", "gate")

(* The first gate; a dry run starts no watchdog, and neither does a box    *)
(* that is not rented.                                                     *)
GatePassed ==
  /\ Step("gate", "search")
  /\ watchdog' = IF Vast /\ ~dry THEN "armed" ELSE "off"
  /\ UNCHANGED <<outcome, td, tries, rental, ends>>

(* provision: a dry run ends here, a box that is there needs no rental.    *)
DryRunOver ==
  /\ dry /\ Step("search", "finally")
  /\ outcome' = "ok"
  /\ UNCHANGED <<threads, rental, ends>>

Searched ==
  /\ ~dry
  /\ Goes("search", CASE provider = "local" -> "upload"
                     [] provider = "ssh" -> "ssh"
                     [] unattended -> "create"
                     [] OTHER -> "confirm")

Confirmed == Goes("confirm", "create")

(* The provider takes the order; the child process that carries it         *)
(* outlives an os._exit.                                                   *)
Rent ==
  /\ main = "create" /\ box = "none"
  /\ box' = "rented" /\ main' = "reply"
  /\ UNCHANGED <<settings, outcome, threads, instanceId, started, ends>>

CreateReturns ==
  /\ Step("reply", "created")
  /\ instanceId' = TRUE
  /\ UNCHANGED <<outcome, threads, started, box, ends>>

NoteStart ==
  /\ Step("created", "boot")
  /\ started' = TRUE
  /\ UNCHANGED <<outcome, threads, instanceId, box, ends>>

(* wait_running, ssh_endpoint; wait_for_ssh; upload_repo; the build and    *)
(* the self-test; the second gate: when they succeed.                      *)
WaitRunning == Goes("boot", "ssh")
WaitForSsh == Goes("ssh", "upload")
UploadRepo == Goes("upload", "build")
Setup == Goes("build", "regate")
Regate == Goes("regate", "mine")

(* The session ends with its target reached, or at a limit.                *)
Mined ==
  /\ Step("mine", "finally")
  /\ outcome' \in {"ok", "failed"}
  /\ UNCHANGED <<threads, rental, ends>>

(* An Abort or another exception.  Nothing raises between create and the   *)
(* next statement, and create does not raise once its reply was read.      *)
Raise ==
  /\ main \in Trying \ {"reply", "created"} \/ (ReplyMayBeLost /\ main = "reply")
  /\ Step(main, "finally")
  /\ outcome' \in IF main \in {"gate", "regate"} THEN {"refused", "failed"} ELSE {"failed"}
  /\ UNCHANGED <<threads, rental, ends>>

(* Ctrl-C: inside try it leads to the finally, after that out of run.      *)
Interrupt ==
  /\ main \in InterruptAt \ {"over"}
  /\ Step(main, IF main \in Trying THEN "finally" ELSE "over")
  /\ outcome' = "failed"
  /\ exit' = IF main \in Trying THEN exit ELSE "raised"
  /\ disturbed' = (disturbed \/ main \in {"created", "finally", "teardown"})
  /\ UNCHANGED <<threads, rental, warned>>

-----------------------------------------------------------------------------
(* The finally.                                                            *)
CancelWatchdog ==
  /\ Step("finally", "teardown")
  /\ watchdog' = IF watchdog = "armed" THEN "off" ELSE watchdog
  /\ td' = [td EXCEPT !["main"] = "check"]
  /\ UNCHANGED <<outcome, tries, rental, ends>>

TornDown == td["main"] = "done" /\ Goes("teardown", "summary")

TeardownRaised ==
  /\ td["main"] = "raised" /\ Step("teardown", "over")
  /\ exit' = "raised"
  /\ UNCHANGED <<outcome, threads, rental, warned, disturbed>>

WriteSummary ==
  /\ Step("summary", "over")
  /\ exit' = "returned"
  /\ UNCHANGED <<outcome, threads, rental, warned, disturbed>>

-----------------------------------------------------------------------------
(* teardown, in thread t.  Without a start time the hours cannot be        *)
(* computed, which raises before anything is destroyed.                    *)
InTeardown(t, phase) == Running /\ td[t] = phase /\ UNCHANGED <<settings, main, outcome, exit, disturbed>>

Check(t) ==
  /\ InTeardown(t, "check")
  /\ td' = [td EXCEPT ![t] = IF ~instanceId THEN "done"
                             ELSE IF ~started THEN "raised" ELSE "destroy"]
  /\ UNCHANGED <<watchdog, tries, rental, warned>>

(* vast.destroy with the id the attribute has now.  An error may hide that *)
(* it was carried out; a destroy of None or of nothing may only fail.      *)
DestroySucceeds(t) ==
  /\ InTeardown(t, "destroy") /\ instanceId
  /\ box' = "gone"
  /\ td' = [td EXCEPT ![t] = "clear"]
  /\ UNCHANGED <<watchdog, tries, instanceId, started, warned>>

LastTryLate(t) == tries[t] = Attempts  \* mutation: off by one

LastTry(t) == tries[t] + 1 = Attempts

DestroyFailsForgets(t) ==  \* mutation: the id is dropped with the last attempt
  /\ InTeardown(t, "destroy")
  /\ tries' = [tries EXCEPT ![t] = @ + 1]
  /\ td' = [td EXCEPT ![t] = IF LastTry(t) THEN "done" ELSE @]
  /\ warned' = (warned \/ LastTry(t))
  /\ instanceId' = (instanceId /\ ~LastTry(t))
  /\ UNCHANGED <<watchdog, started, box>>

DestroyFails(t) ==
  /\ InTeardown(t, "destroy")
  /\ \/ UNCHANGED box
     \/ instanceId /\ box = "rented" /\ box' = "gone"
  /\ tries' = [tries EXCEPT ![t] = @ + 1]
  /\ td' = [td EXCEPT ![t] = IF LastTry(t) THEN "done" ELSE @]
  /\ warned' = (warned \/ LastTry(t))
  /\ UNCHANGED <<watchdog, instanceId, started>>

Clear(t) ==
  /\ InTeardown(t, "clear")
  /\ instanceId' = FALSE
  /\ td' = [td EXCEPT ![t] = "done"]
  /\ UNCHANGED <<watchdog, tries, started, box, warned>>

Teardown(t) == Check(t) \/ DestroySucceeds(t) \/ DestroyFails(t) \/ Clear(t)

-----------------------------------------------------------------------------
(* The watchdog: MAX_HOURS and a quarter of an hour after provision began. *)
(* Search and create return within two minutes each, so it catches them at *)
(* work only when a person is waited for in between.                       *)
Ordering == {"search", "confirm", "create", "reply", "created"}

Fire ==
  /\ Running /\ watchdog = "armed"
  /\ unattended => main \notin Ordering
  /\ watchdog' = "fired"
  /\ td' = [td EXCEPT !["watchdog"] = "check"]
  /\ disturbed' = (disturbed \/ main \in Ordering)
  /\ UNCHANGED <<settings, main, outcome, tries, rental, warned, exit>>

(* os._exit, unless teardown raised: then only the thread ends.            *)
Killed == exit' = "killed" /\ UNCHANGED <<settings, main, outcome, threads, rental, warned, disturbed>>

ExitEarly ==  \* mutation: os._exit does not wait for the teardown
  Running /\ watchdog = "fired" /\ Killed

ExitWhenDestroyed ==  \* mutation: it waits for a teardown that succeeds
  Running /\ watchdog = "fired" /\ td["watchdog"] = "done" /\ ~instanceId /\ Killed

HardExit == Running /\ watchdog = "fired" /\ td["watchdog"] = "done" /\ Killed

WatchdogDies ==
  /\ Running /\ watchdog = "fired" /\ td["watchdog"] = "raised"
  /\ watchdog' = "dead"
  /\ UNCHANGED <<settings, main, outcome, td, tries, rental, ends>>

-----------------------------------------------------------------------------
MainNext ==
  \/ Preflight \/ GatePassed \/ DryRunOver \/ Searched \/ Confirmed
  \/ Rent \/ CreateReturns \/ NoteStart
  \/ WaitRunning \/ WaitForSsh \/ UploadRepo \/ Setup \/ Regate \/ Mined
  \/ Raise \/ Interrupt
  \/ CancelWatchdog \/ TornDown \/ TeardownRaised \/ WriteSummary

Next ==
  \/ MainNext
  \/ \E t \in Threads : Teardown(t)
  \/ Fire \/ HardExit \/ WatchdogDies

Spec == Init /\ [][Next]_vars

(* The timer fires, what it runs goes on, and the calls of vast.py that    *)
(* order the box have their time-outs.  Nothing is assumed of the main     *)
(* thread elsewhere: it may be stuck in any of its calls.                  *)
Fairness ==
  /\ WF_vars(Fire) /\ WF_vars(Teardown("watchdog")) /\ WF_vars(HardExit)
  /\ WF_vars(main \in Ordering /\ (Searched \/ Rent \/ CreateReturns \/ NoteStart))

-----------------------------------------------------------------------------
TeardownPhases == {"idle", "check", "destroy", "clear", "done", "raised"}

(* Types.                                                                  *)
TypeOK ==
  /\ provider \in Providers /\ dry \in BOOLEAN /\ unattended \in BOOLEAN
  /\ main \in Phases /\ outcome \in {"none", "ok", "refused", "failed"}
  /\ watchdog \in {"off", "armed", "fired", "dead"}
  /\ td \in [Threads -> TeardownPhases]
  /\ tries \in [Threads -> 0 .. Attempts]
  /\ instanceId \in BOOLEAN /\ started \in BOOLEAN
  /\ box \in {"none", "rented", "gone"}
  /\ warned \in BOOLEAN /\ disturbed \in BOOLEAN
  /\ exit \in {"running", "returned", "raised", "killed"}

(* autopilot.py: "The run stops, and the rental is destroyed, on any       *)
(* failed check: ... an exception, Ctrl-C, or the watchdog".  When the     *)
(* process is gone, so is the rental, or the operator was told; unless     *)
(* Ctrl-C fell between create and the next statement or into the finally,  *)
(* or the watchdog into an order that a person had delayed.                *)
NoSilentLeak == ~Running /\ box = "rented" => warned \/ disturbed

(* Once provision has the reply, a rental that exists is known to the      *)
(* program: whichever thread clears instance_id, the box is gone.          *)
RentalIsKnown ==
  box = "rented" /\ main \notin {"create", "reply"} => instanceId

(* A run whose watchdog was armed ends although the main thread is stuck,  *)
(* unless the main thread itself has got as far as cancelling it; with the *)
(* exceptions above.                                                       *)
WatchdogEndsRun == (watchdog = "armed") ~> (~Running \/ watchdog = "off" \/ disturbed)
=============================================================================
