------------------------------ MODULE LEDFader ------------------------------
(***************************************************************************)
(* libraries/LEDFader: one LED channel faded by update(), which the main   *)
(* loop calls once per iteration. A fade keeps the duration left and the   *)
(* time of its last step; each step moves the colour by the share of the   *)
(* remaining way that the elapsed time is of the remaining duration.       *)
(*                                                                         *)
(* The pin is set, as in every sketch. The float arithmetic is exact here; *)
(* the progress percentage, which only get_progress() reads, is left out.  *)
(***************************************************************************)
EXTENDS Millis

CONSTANTS
  MaxColor,       \* 255
  MIN_INTERVAL,   \* 20 ms
  FadeTimes,      \* the times fade() is called with
  MaxTime,        \* bound on the duration slower() extends a fade to
  Steps,          \* the arguments of slower() and faster()
  PollGap         \* the longest time between two updates, in ms

ASSUME FaderAssumption ==
  /\ MaxColor \in Nat \ {0}
  /\ MIN_INTERVAL \in Nat \ {0}
  /\ PollGap \in Nat \ {0}
  /\ Steps \subseteq Nat \ {0}
  /\ MaxTime \in Nat
  /\ FadeTimes \subseteq 0 .. MaxTime
  /\ 2 * MaxTime + MIN_INTERVAL + PollGap < ClockWrap

VARIABLES
  clock,            \* millis()
  color, to_color, last_step_time, interval, duration,
  start,            \* history: the colour the fade started from
  requested,        \* history: the time the fade was given
  age,              \* history: ms since the fade started
  since_update,     \* ms since the last update()
  updated           \* history: the last step was an update()

members == <<color, to_color, last_step_time, interval, duration>>
history == <<start, requested, age>>
vars == <<clock, members, history, since_update, updated>>

Color == 0 .. MaxColor

is_fading == duration > 0
time_diff == Elapsed(clock, last_step_time)

Constrain(x, low, high) == IF x < low THEN low ELSE IF x > high THEN high ELSE x
AtLeast(low, x) == IF x < low THEN low ELSE x
Distance(x, y) == IF x >= y THEN x - y ELSE y - x
\* round(n / d) for n >= 0, d > 0: halves go up
Round(n, d) == (2 * n + d) \div (2 * d)

TypeOK ==
  /\ clock \in Clock
  /\ color \in Color
  /\ to_color \in Color
  /\ last_step_time \in Clock
  /\ interval \in Nat
  /\ duration \in 0 .. MaxTime
  /\ start \in Color
  /\ requested \in 0 .. MaxTime
  /\ age \in Nat
  /\ since_update \in 0 .. PollGap
  /\ updated \in BOOLEAN

-----------------------------------------------------------------------------

Init ==
  /\ clock = 0
  /\ color = 0 /\ to_color = 0
  /\ last_step_time = 0 /\ interval = 0 /\ duration = 0
  /\ start = 0 /\ requested = 0 /\ age = 0
  /\ since_update = 0
  /\ updated = FALSE

Tick ==
  /\ since_update < PollGap
  /\ clock' = NextTick(clock)
  /\ since_update' = since_update + 1
  /\ age' = IF is_fading THEN age + 1 ELSE age
  /\ updated' = FALSE
  /\ UNCHANGED <<members, start, requested>>

\* The history of a fader at rest.
NoFade == start' = 0 /\ requested' = 0 /\ age' = 0

\* set_value() moves the colour under a running fade, which goes on from there.
SetValue(value) ==
  /\ color' = Constrain(value, 0, MaxColor)
  /\ IF is_fading
     THEN start' = color' /\ requested' = duration /\ age' = time_diff
     ELSE UNCHANGED history
  /\ UNCHANGED <<clock, to_color, last_step_time, interval, duration, since_update>>

stop_fade ==
  /\ duration' = 0
  /\ NoFade

StopFade ==
  /\ stop_fade
  /\ UNCHANGED <<clock, color, to_color, last_step_time, interval, since_update>>

FadeToSame(value) ==
  /\ value = color
  /\ stop_fade
  /\ UNCHANGED <<color, to_color, last_step_time, interval>>

FadeAtOnce(value, time) ==
  /\ value # color
  /\ time <= MIN_INTERVAL
  /\ stop_fade
  /\ color' = value
  /\ UNCHANGED <<to_color, last_step_time, interval>>

FadeStart(value, time) ==
  /\ value # color
  /\ time > MIN_INTERVAL
  /\ duration' = time
  /\ to_color' = value
  /\ interval' = AtLeast(MIN_INTERVAL, Round(time, Distance(color, value)))
  /\ last_step_time' = clock
  /\ start' = color /\ requested' = time /\ age' = 0
  /\ UNCHANGED color

Fade(value, time) ==
  /\ FadeToSame(value) \/ FadeAtOnce(value, time) \/ FadeStart(value, time)
  /\ UNCHANGED <<clock, since_update>>

Slower(by) == Fade(to_color, duration + by)

Faster(by) ==
  \/ /\ duration <= by
     /\ stop_fade
     /\ color' = to_color
     /\ UNCHANGED <<clock, to_color, last_step_time, interval, since_update>>
  \/ /\ duration > by
     /\ Fade(to_color, duration - by)

-----------------------------------------------------------------------------

\* Faulty: every step moves the colour by at least one.
IncrementAtLeastOne ==
  IF to_color >= color THEN AtLeast(1, Round((to_color - color) * time_diff, duration))
                       ELSE - AtLeast(1, Round((color - to_color) * time_diff, duration))

\* Faulty: the time left is taken after this step.
IncrementOfTimeLeft ==
  IF to_color >= color THEN Round((to_color - color) * time_diff, duration - time_diff)
                       ELSE - Round((color - to_color) * time_diff, duration - time_diff)

\* The way to go in this step: round() takes halves away from zero.
Increment ==
  IF to_color >= color THEN Round((to_color - color) * time_diff, duration)
                       ELSE - Round((color - to_color) * time_diff, duration)

UpdateIdle ==
  /\ ~is_fading \/ time_diff < interval
  /\ UNCHANGED <<members, history>>

\* Faulty: the fade ends when the next step would come too late.
UpdateFinishEarly ==
  /\ is_fading
  /\ time_diff >= interval
  /\ time_diff + interval > duration
  /\ stop_fade
  /\ color' = to_color
  /\ UNCHANGED <<to_color, last_step_time, interval>>

\* Faulty: the last step leaves the duration as it was, and the fade starts over.
UpdateFinishUnset ==
  /\ is_fading
  /\ time_diff >= interval
  /\ time_diff >= duration
  /\ color' = to_color
  /\ last_step_time' = clock
  /\ start' = color' /\ requested' = duration /\ age' = 0
  /\ UNCHANGED <<to_color, interval, duration>>

UpdateFinish ==
  /\ is_fading
  /\ time_diff >= interval
  /\ time_diff >= duration
  /\ stop_fade
  /\ color' = to_color
  /\ UNCHANGED <<to_color, last_step_time, interval>>

\* Faulty: the end of the fade is not noticed.
UpdateMovePastEnd ==
  /\ is_fading
  /\ time_diff >= interval
  /\ color' = Constrain(color + Increment, 0, MaxColor)
  /\ duration' = duration - time_diff
  /\ last_step_time' = clock
  /\ UNCHANGED <<to_color, interval, history>>

\* Faulty: the time of the step is not noted.
UpdateMoveUntimed ==
  /\ is_fading
  /\ time_diff >= interval
  /\ time_diff < duration
  /\ color' = Constrain(color + Increment, 0, MaxColor)
  /\ duration' = duration - time_diff
  /\ UNCHANGED <<last_step_time, to_color, interval, history>>

UpdateMove ==
  /\ is_fading
  /\ time_diff >= interval
  /\ time_diff < duration
  /\ color' = Constrain(color + Increment, 0, MaxColor)
  /\ duration' = duration - time_diff
  /\ last_step_time' = clock
  /\ UNCHANGED <<to_color, interval, history>>

Update ==
  /\ UpdateIdle \/ UpdateFinish \/ UpdateMove
  /\ since_update' = 0
  /\ updated' = TRUE
  /\ UNCHANGED clock

Command ==
  /\ \/ \E value \in Color : SetValue(value)
     \/ \E value \in Color, time \in FadeTimes : Fade(value, time)
     \/ \E by \in Steps : duration + by <= MaxTime /\ Slower(by)
     \/ \E by \in Steps : Faster(by)
     \/ StopFade
  /\ updated' = FALSE

Next == Tick \/ Update \/ Command

Spec == Init /\ [][Next]_vars

\* The main loop never stops calling update() and time never stops.
FairSpec == Spec /\ WF_vars(Tick) /\ WF_vars(Update)

-----------------------------------------------------------------------------

(* Fades keep their time: the last step is never taken before the time the *)
(* fade was given is over, and no later than one interval and one poll     *)
(* after it, whatever the steps in between rounded to and wherever the     *)
(* clock wrapped (LEDFader.cpp:140-167).                                   *)
FadeKeepsTime ==
  [][UpdateFinish => /\ age >= requested
                     /\ age < requested + interval + PollGap]_vars

(* The colour follows the straight line from its start to its target: it is *)
(* off by half a unit at most for every interval that is gone. A step that  *)
(* rounds the wrong way is not made good by the next one, so a fade that is *)
(* polled late may be many units off half way (LEDFader.cpp:149-167).       *)
FollowsTheLine ==
  is_fading =>
    LET gone == requested - duration
    IN  2 * interval * Distance((color - start) * requested, (to_color - start) * gone)
          <= requested * gone

(* A channel keeps the promise of its abstract specification: it moves     *)
(* towards its target only and stops there (LEDFader.cpp:56-169).          *)
Fader == INSTANCE FaderSpec WITH
  channel <- [color |-> color,
              target |-> IF is_fading THEN to_color ELSE color,
              fading |-> is_fading]

ImplementsFader == Fader!Spec

(* A fade that is left alone comes to its end (LEDFader.cpp:128-157).      *)
FadeEnds ==
  <>[][Tick \/ Update]_vars => <>[](duration = 0)

(* What is left of the fade, plus what has passed, is what was asked for.  *)
TimeAccounted ==
  is_fading =>
    /\ duration + age = requested + time_diff
    /\ time_diff < interval + PollGap
    /\ time_diff > since_update => time_diff - since_update < interval
=============================================================================
