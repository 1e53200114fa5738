----------------------------- MODULE FaderSpec -----------------------------
(***************************************************************************)
(* What a fader of one LED channel promises whatever it is told: a fade    *)
(* brings the colour to its target, never past it and never away from it,  *)
(* and is over only when the colour is there.                              *)
(***************************************************************************)
EXTENDS FaderChannel

VARIABLES
  channel,
  updated     \* the last step was an update: only the sketch makes a channel jump

faderVars == <<channel, updated>>

Init == channel = AtRest(0) /\ updated = FALSE

Jump(v) == channel' = SetTo(channel, v)

Stop == channel' = AtRest(channel.color)

\* A fade, at once when it is too short to be seen.
Start(v) ==
  \/ channel' = FadeTo(channel, v)
  \/ channel' = AtRest(v)

Command ==
  /\ (\E v \in Color : Jump(v) \/ Start(v)) \/ Stop
  /\ updated' = FALSE

Update ==
  /\ channel' \in Updated(channel)
  /\ updated' = TRUE

Wait == channel' = channel /\ updated' = FALSE

Next == Command \/ Update \/ Wait

Spec == Init /\ [][Next]_faderVars
=============================================================================
