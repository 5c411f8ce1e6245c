------------------------------- MODULE MCGate ------------------------------
(* Readings on both sides of every threshold of the gate.                  *)
EXTENDS Gate
=============================================================================
