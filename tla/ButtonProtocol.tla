--------------------------- MODULE ButtonProtocol ---------------------------
(***************************************************************************)
(* What a push button promises to the sketch that registers callbacks on   *)
(* it: every press is reported, at the latest, before its release; a press *)
(* and its release agree on being short or long; a short press may turn    *)
(* into a long one, never the other way round, except when the button has  *)
(* been held for a whole period of the clock.                              *)
(***************************************************************************)
EXTENDS ButtonCallbacks

VARIABLES
  status,     \* what was last reported of the press in progress
  event,      \* the callback made by the last poll
  odd_calls,  \* an odd number of callbacks has been made: no callback is made twice
  overheld    \* the button has been down for a whole clock period

protocolVars == <<status, event, odd_calls, overheld>>

CallsAfter(e) == IF e = "none" THEN odd_calls ELSE ~odd_calls

Init ==
  /\ status = "NONE"
  /\ event = "none"
  /\ odd_calls = FALSE
  /\ overheld = FALSE

Poll ==
  /\ status' \in Polled(status)
  /\ event' = Callback(status, status')
  /\ odd_calls' = CallsAfter(event')
  /\ overheld' \in {overheld, FALSE}

\* Only a hold longer than the clock's period is taken for a new press.
PressAgain ==
  /\ status = "LONG"
  /\ overheld
  /\ status' = "SHORT"
  /\ event' = "SHORT_PRESS"
  /\ odd_calls' = CallsAfter(event')
  /\ UNCHANGED overheld

Overhold ==
  /\ overheld' = TRUE
  /\ UNCHANGED <<status, event, odd_calls>>

Next == Poll \/ PressAgain \/ Overhold

Spec == Init /\ [][Next]_protocolVars
=============================================================================
