---------------------------- MODULE FaderChannel ----------------------------
(***************************************************************************)
(* One faded LED channel without its clock: the colour it shows, the       *)
(* colour it goes to and whether it is still on the way (at rest, target   *)
(* is the colour shown). The operations are those of libraries/LEDFader    *)
(* that the sketches call, on a fade longer than MIN_INTERVAL.             *)
(***************************************************************************)
EXTENDS Integers

CONSTANT MaxColor       \* 255

ASSUME MaxColorAssumption == MaxColor \in Nat \ {0}

Color == 0 .. MaxColor
ChannelState == [color : Color, target : Color, fading : BOOLEAN]

AtRest(v) == [color |-> v, target |-> v, fading |-> FALSE]

\* The colours on the way from one to another, both ends included.
Between(from, to) == {c \in Color : (from <= c /\ c <= to) \/ (to <= c /\ c <= from)}

\* set_value() moves the colour and leaves a fade in progress running.
SetTo(ch, v) == IF ch.fading THEN [ch EXCEPT !.color = v] ELSE AtRest(v)

\* fade() to the colour already shown ends a fade in progress.
FadeTo(ch, v) ==
  IF v = ch.color THEN AtRest(v) ELSE [ch EXCEPT !.target = v, !.fading = TRUE]

\* What one update() may make of a channel: it waits, moves on or arrives.
Updated(ch) ==
  IF ch.fading
  THEN {[ch EXCEPT !.color = c] : c \in Between(ch.color, ch.target)} \cup {AtRest(ch.target)}
  ELSE {ch}
=============================================================================
