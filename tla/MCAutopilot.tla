---------------------------- MODULE MCAutopilot ----------------------------
(***************************************************************************)
(* Providers, and the phases in which Ctrl-C may come: never, or anywhere  *)
(* but in the call that creates the instance.                              *)
(***************************************************************************)
EXTENDS Autoloop

AllProviders == {"vast", "ssh", "local"}
VastOnly == {"vast"}
Never == {}
OutsideCall == Phases \ {"create", "reply"}
=============================================================================
