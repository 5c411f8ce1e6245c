----------------------------- MODULE IntentLog -----------------------------
(***************************************************************************)
(* What the marker file is for: an effect that cannot be taken back (a     *)
(* transaction) is announced in a log of one entry before it is let go, it *)
(* is let go once at most, and the entry goes only when it can no longer   *)
(* take effect.  An effect that was accepted is then in the book, or it    *)
(* was given up by name.                                                   *)
(***************************************************************************)
EXTENDS Naturals

None == 0

VARIABLES intent,   \* the effect announced, None when there is none
          armed,    \* it may still be let go
          inFlight, \* the effects that may be accepted or rejected any time
          outcomes, \* pairs of an effect and whether it was accepted
          book,     \* the effects recorded
          lost      \* accepted effects given up

vars == <<intent, armed, inFlight, outcomes, book, lost>>

HasOutcome(i) == \E o \in outcomes : o[1] = i
Accepted(i) == <<i, TRUE>> \in outcomes

Init ==
  /\ intent = None /\ armed = FALSE /\ inFlight = {}
  /\ outcomes = {} /\ book = {} /\ lost = {}

Announce ==
  /\ intent = None /\ inFlight = {}
  /\ intent' # None
  /\ ~HasOutcome(intent')
  /\ armed' = TRUE
  /\ UNCHANGED <<inFlight, outcomes, book, lost>>

(* It is let go, and may be lost on the way; or its sender dies first.     *)
LetGo ==
  /\ armed
  /\ armed' = FALSE
  /\ inFlight' \in {inFlight, inFlight \union {intent}}
  /\ UNCHANGED <<intent, outcomes, book, lost>>

Vanish(i) ==
  /\ inFlight' = inFlight \ {i}
  /\ UNCHANGED <<intent, armed, outcomes, book, lost>>

Happen(i) ==
  /\ ~HasOutcome(i)
  /\ inFlight' = inFlight \ {i}
  /\ \E ok \in BOOLEAN : outcomes' = outcomes \union {<<i, ok>>}
  /\ UNCHANGED <<intent, armed, book, lost>>

Record ==
  /\ Accepted(intent)
  /\ book' = book \union {intent}
  /\ UNCHANGED <<intent, armed, inFlight, outcomes, lost>>

(* The entry may go only when nothing can happen any more.                 *)
Over == intent # None /\ ~armed /\ inFlight = {} /\ intent' = None

Settle ==
  /\ Over
  /\ Accepted(intent) => intent \in book
  /\ UNCHANGED <<armed, inFlight, outcomes, book, lost>>

GiveUp ==
  /\ Over
  /\ Accepted(intent)
  /\ lost' = lost \union {intent}
  /\ UNCHANGED <<armed, inFlight, outcomes, book>>

Next ==
  \/ Announce \/ LetGo \/ Record \/ Settle \/ GiveUp
  \/ \E i \in inFlight : Vanish(i) \/ Happen(i)

Spec == Init /\ [][Next]_vars
=============================================================================
