--------------------------- MODULE LEDFader_proofs ---------------------------
(***************************************************************************)
(* The members of a fader keep their types, and a fade keeps its time, for *)
(* every clock period, fade time, poll gap and sequence of calls.          *)
(*                                                                         *)
(* TimeAccounted alone is not inductive: that the clock does not wrap onto *)
(* the last step needs a bound on the interval, which FadeStart rounds.    *)
(*                                                                         *)
(* The colour stays near the straight line of the fade, within half a unit *)
(* per interval, and each call is a step of the channel that FaderSpec     *)
(* describes, or leaves it as it is.                                       *)
(***************************************************************************)
EXTENDS LEDFader, TLAPS

\* The interval of a fade is at least MIN_INTERVAL and at most its bound.
IntervalBounded ==
  /\ interval <= MaxTime + MIN_INTERVAL
  /\ is_fading => interval >= 1

\* TypeOK without the history of the last step.
MembersOK ==
  /\ clock \in Clock
  /\ color \in Color
  /\ to_color \in Color
  /\ last_step_time \in Clock
  /\ interval \in Nat
  /\ duration \in 0 .. MaxTime
  /\ start \in Color
  /\ requested \in 0 .. MaxTime
  /\ age \in Nat
  /\ since_update \in 0 .. PollGap

UpdatedOK == updated \in BOOLEAN

FaderInv == MembersOK /\ IntervalBounded /\ TimeAccounted

(* The assumptions, one number at a time. *)
LEMMA FaderConstants ==
  /\ ClockWrap \in Nat /\ ClockWrap > 1
  /\ MaxColor \in Nat /\ MaxColor >= 1
  /\ MIN_INTERVAL \in Nat /\ MIN_INTERVAL >= 1
  /\ PollGap \in Nat /\ PollGap >= 1
  /\ MaxTime \in Nat
  /\ 2 * MaxTime + MIN_INTERVAL + PollGap < ClockWrap
BY ClockWrapAssumption, FaderAssumption

(* Dividing by a positive number and rounding is an integer. *)
LEMMA RoundInt ==
  ASSUME NEW n \in Int, NEW d \in Nat, d >= 1
  PROVE  Round(n, d) \in Int
BY DEF Round

(* The share of a time per unit of colour, rounded, is at most the time. *)
LEMMA RoundBounded ==
  ASSUME NEW n \in Nat, n >= 1, NEW d \in Nat, d >= 1
  PROVE  Round(n, d) <= n
<1> DEFINE q == (2 * n + d) \div (2 * d)
<1>1. 2 * n + d \in Int /\ 2 * d \in Int /\ 2 * d > 0
  OBVIOUS
<1>2. q \in Int /\ q * (2 * d) <= 2 * n + d
  BY <1>1
<1>3. d * n >= n
  OBVIOUS
<1>4. SUFFICES ASSUME q >= n + 1 PROVE FALSE
  BY <1>2 DEF Round
<1> HIDE DEF q
<1>5. q * (2 * d) >= (n + 1) * (2 * d)
  BY <1>2, <1>4, <1>1
<1>6. (n + 1) * (2 * d) = 2 * (d * n) + 2 * d
  OBVIOUS
<1>7. QED
  BY <1>2, <1>3, <1>5, <1>6

(* A colour is kept within its range. *)
LEMMA ConstrainColor ==
  ASSUME NEW x \in Int
  PROVE  Constrain(x, 0, MaxColor) \in Color
BY FaderConstants DEF Constrain, Color

(* A millisecond passes on the clock and since any moment less than a      *)
(* whole period ago.                                                       *)
LEMMA ElapsedTick ==
  ASSUME NEW now \in Clock, NEW then \in Clock
  PROVE  /\ Elapsed(now, then) \in Clock
         /\ Elapsed(now, now) = 0
         /\ NextTick(now) \in Clock
         /\ Elapsed(now, then) + 1 < ClockWrap =>
              Elapsed(NextTick(now), then) = Elapsed(now, then) + 1
BY FaderConstants DEF Clock, Elapsed, NextTick

(* A call that ends the fade keeps the invariant. *)
LEMMA StopKeeps ==
  ASSUME FaderInv, stop_fade, color' \in Color,
         UNCHANGED <<clock, to_color, last_step_time, interval, since_update>>
  PROVE  FaderInv'
<1>1. duration' = 0 /\ start' = 0 /\ requested' = 0 /\ age' = 0
  BY DEF stop_fade, NoFade
<1>2. ~is_fading'
  BY <1>1 DEF is_fading
<1>3. MembersOK'
  BY <1>1, FaderConstants DEF FaderInv, MembersOK, Color
<1>4. IntervalBounded' /\ TimeAccounted'
  BY <1>2 DEF FaderInv, IntervalBounded, TimeAccounted
<1>5. QED
  BY <1>3, <1>4 DEF FaderInv

(* A fade that starts has its whole time before it. *)
LEMMA FadeStartKeeps ==
  ASSUME FaderInv, NEW value \in Color, NEW time \in Nat, time <= MaxTime,
         FadeStart(value, time), UNCHANGED <<clock, since_update>>
  PROVE  FaderInv'
<1> DEFINE d == Distance(color, value)
           r == Round(time, d)
<1>1. d \in Nat /\ d >= 1
  BY FaderConstants DEF FaderInv, MembersOK, FadeStart, Distance, Color
<1>2. time \in Nat /\ time >= 1 /\ time <= MaxTime /\ time > MIN_INTERVAL
  BY FaderConstants DEF FadeStart
<1>3. r \in Int /\ r <= time
  <2> HIDE DEF d
  <2>1. QED
    BY <1>1, <1>2, RoundInt, RoundBounded
<1>4. interval' = AtLeast(MIN_INTERVAL, r)
  BY DEF FadeStart
<1>5. interval' \in Nat /\ interval' >= 1 /\ interval' <= MaxTime + MIN_INTERVAL
  <2> HIDE DEF r
  <2>1. QED
    BY <1>2, <1>3, <1>4, FaderConstants DEF AtLeast
<1> HIDE DEF d, r
<1>6. /\ duration' = time /\ requested' = time /\ age' = 0 /\ start' = color
      /\ to_color' = value /\ color' = color
      /\ last_step_time' = clock /\ clock' = clock /\ since_update' = since_update
  BY DEF FadeStart
<1>7. MembersOK'
  BY <1>5, <1>6, <1>2 DEF FaderInv, MembersOK
<1>8. IntervalBounded'
  BY <1>5 DEF IntervalBounded
<1>9. TimeAccounted'
  <2>1. time_diff' = 0
    BY <1>6, ElapsedTick DEF time_diff, FaderInv, MembersOK
  <2>2. since_update' \in Nat /\ requested' \in Nat
    BY <1>2, <1>6, FaderConstants DEF FaderInv, MembersOK
  <2>3. duration' + age' = requested' + time_diff'
    BY <1>2, <1>6, <2>1
  <2>4. time_diff' < interval' + PollGap
    <3>1. \A n \in Nat : 0 < n + PollGap
      BY FaderConstants
    <3>2. QED
      BY <1>5, <2>1, <3>1
  <2>5. ~(time_diff' > since_update')
    BY <2>1, <2>2
  <2>6. QED
    BY <2>3, <2>4, <2>5 DEF TimeAccounted
<1>10. QED
  BY <1>7, <1>8, <1>9 DEF FaderInv

(* Whatever fade() is asked for. *)
LEMMA FadeKeeps ==
  ASSUME FaderInv, NEW value \in Color, NEW time \in Nat, time <= MaxTime, Fade(value, time)
  PROVE  FaderInv'
<1>1. CASE FadeToSame(value)
  <2>1. color' \in Color
    BY <1>1 DEF FadeToSame, FaderInv, MembersOK
  <2>2. QED
    BY <1>1, <2>1, StopKeeps DEF FadeToSame, Fade
<1>2. CASE FadeAtOnce(value, time)
  BY <1>2, StopKeeps DEF FadeAtOnce, Fade
<1>3. CASE FadeStart(value, time)
  BY <1>3, FadeStartKeeps DEF Fade
<1>4. QED
  BY <1>1, <1>2, <1>3 DEF Fade

(* set_value() counts what is left of a fade as a fade of its own. *)
LEMMA SetValueKeeps ==
  ASSUME FaderInv, NEW value \in Color, SetValue(value)
  PROVE  FaderInv'
<1>1. color' \in Color
  BY ConstrainColor DEF SetValue, Color
<1>2. time_diff \in Nat
  BY ElapsedTick DEF FaderInv, MembersOK, time_diff, Clock
<1>3. UNCHANGED <<clock, to_color, last_step_time, interval, duration, since_update>>
  BY DEF SetValue
<1>4. is_fading' = is_fading /\ time_diff' = time_diff
  BY <1>3 DEF is_fading, time_diff
<1>5. CASE is_fading
  <2>1. start' = color' /\ requested' = duration /\ age' = time_diff
    BY <1>5 DEF SetValue
  <2>2. MembersOK'
    BY <1>1, <1>2, <1>3, <2>1 DEF FaderInv, MembersOK
  <2>3. IntervalBounded'
    BY <1>3, <1>4 DEF FaderInv, IntervalBounded
  <2>4. TimeAccounted'
    BY <1>2, <1>3, <1>4, <1>5, <2>1 DEF FaderInv, TimeAccounted
  <2>5. QED
    BY <2>2, <2>3, <2>4 DEF FaderInv
<1>6. CASE ~is_fading
  <2>1. UNCHANGED history
    BY <1>6 DEF SetValue
  <2>2. MembersOK'
    BY <1>1, <1>3, <2>1 DEF FaderInv, MembersOK, history
  <2>3. IntervalBounded' /\ TimeAccounted'
    BY <1>3, <1>4, <1>6 DEF FaderInv, IntervalBounded, TimeAccounted
  <2>4. QED
    BY <2>2, <2>3 DEF FaderInv
<1>7. QED
  BY <1>5, <1>6

(* Every call of the sketch. *)
LEMMA CommandKeeps ==
  ASSUME FaderInv, Command
  PROVE  FaderInv'
<1>1. CASE \E value \in Color : SetValue(value)
  BY <1>1, SetValueKeeps
<1>2. CASE \E value \in Color, time \in FadeTimes : Fade(value, time)
  <2>1. PICK value \in Color, time \in FadeTimes : Fade(value, time)
    BY <1>2
  <2>2. time \in Nat /\ time <= MaxTime
    BY FaderAssumption, FaderConstants
  <2>3. QED
    BY <2>1, <2>2, FadeKeeps
<1>3. CASE \E by \in Steps : duration + by <= MaxTime /\ Slower(by)
  <2>1. PICK by \in Steps : duration + by <= MaxTime /\ Slower(by)
    BY <1>3
  <2>2. by \in Nat
    BY FaderAssumption
  <2>3. to_color \in Color /\ duration + by \in Nat /\ duration + by <= MaxTime
    BY <2>1, <2>2, FaderConstants DEF FaderInv, MembersOK
  <2>4. QED
    BY <2>1, <2>3, FadeKeeps DEF Slower
<1>4. CASE \E by \in Steps : Faster(by)
  <2>1. PICK by \in Steps : Faster(by)
    BY <1>4
  <2>2. by \in Nat /\ to_color \in Color
    BY FaderAssumption DEF FaderInv, MembersOK
  <2>3. CASE duration <= by /\ stop_fade
    <3>1. /\ color' = to_color
          /\ UNCHANGED <<clock, to_color, last_step_time, interval, since_update>>
      BY <2>1, <2>2, <2>3, FaderConstants DEF Faster, FaderInv, MembersOK
    <3>2. QED
      BY <2>2, <2>3, <3>1, StopKeeps
  <2>4. CASE duration > by /\ Fade(to_color, duration - by)
    <3>1. duration - by \in Nat /\ duration - by <= MaxTime
      BY <2>2, <2>4, FaderConstants DEF FaderInv, MembersOK
    <3>2. QED
      BY <2>2, <2>4, <3>1, FadeKeeps
  <2>5. QED
    BY <2>1, <2>3, <2>4 DEF Faster
<1>5. CASE StopFade
  <2>1. color' \in Color
    BY <1>5 DEF StopFade, FaderInv, MembersOK
  <2>2. QED
    BY <1>5, <2>1, StopKeeps DEF StopFade
<1>6. QED
  BY <1>1, <1>2, <1>3, <1>4, <1>5 DEF Command

(* Time passes: the last step stays within one interval and one poll gap,  *)
(* so the clock never gets round to it.                                    *)
LEMMA TickKeeps ==
  ASSUME FaderInv, Tick
  PROVE  FaderInv'
<1>1. clock \in Clock /\ last_step_time \in Clock
  BY DEF FaderInv, MembersOK
<1>2. /\ clock' = NextTick(clock) /\ since_update < PollGap
      /\ since_update' = since_update + 1
      /\ age' = (IF is_fading THEN age + 1 ELSE age)
      /\ UNCHANGED members /\ UNCHANGED <<start, requested>>
  BY DEF Tick
<1>3. is_fading' = is_fading
  BY <1>2 DEF is_fading, members
<1>4. MembersOK'
  <2>1. clock' \in Clock
    BY <1>1, <1>2, ElapsedTick
  <2>2. since_update' \in 0 .. PollGap /\ age' \in Nat
    BY <1>2, FaderConstants DEF FaderInv, MembersOK
  <2>3. QED
    BY <1>2, <2>1, <2>2 DEF FaderInv, MembersOK, members
<1>5. IntervalBounded'
  BY <1>2, <1>3 DEF FaderInv, IntervalBounded, members
<1>6. TimeAccounted'
  <2>1. SUFFICES ASSUME is_fading
                 PROVE  /\ duration' + age' = requested' + time_diff'
                        /\ time_diff' < interval' + PollGap
                        /\ time_diff' > since_update' =>
                             time_diff' - since_update' < interval'
    BY <1>3 DEF TimeAccounted
  <2>2. /\ duration \in Nat /\ age \in Nat /\ requested \in Nat
        /\ interval \in Nat /\ interval >= 1 /\ interval <= MaxTime + MIN_INTERVAL
        /\ since_update \in Nat
    BY <2>1, FaderConstants DEF FaderInv, MembersOK, IntervalBounded
  <2>3. /\ duration + age = requested + time_diff
        /\ time_diff < interval + PollGap
        /\ time_diff > since_update => time_diff - since_update < interval
    BY <2>1 DEF FaderInv, TimeAccounted
  <2>4. time_diff \in Nat
    BY <1>1, ElapsedTick DEF time_diff, Clock
  <2>5. time_diff + 1 < ClockWrap
    BY <2>2, <2>3, <2>4, FaderConstants
  <2>6. time_diff' = time_diff + 1
    BY <1>1, <1>2, <2>5, ElapsedTick DEF time_diff, members
  <2>7. /\ duration' = duration /\ requested' = requested /\ interval' = interval
        /\ age' = age + 1
    BY <1>2, <2>1 DEF members
  <2>8. QED
    BY <1>2, <2>2, <2>3, <2>4, <2>6, <2>7, FaderConstants
<1>7. QED
  BY <1>4, <1>5, <1>6 DEF FaderInv

(* A step of a fade moves what has passed from the time left.              *)
LEMMA UpdateKeeps ==
  ASSUME FaderInv, Update
  PROVE  FaderInv'
<1> DEFINE t == time_diff
<1>1. t \in Nat
  BY ElapsedTick DEF FaderInv, MembersOK, time_diff, Clock
<1>2. since_update' = 0 /\ clock' = clock
  BY DEF Update
<1>3. since_update' \in 0 .. PollGap
  BY <1>2, FaderConstants
<1>4. CASE UpdateIdle
  <2>1. UNCHANGED members /\ UNCHANGED history
    BY <1>4 DEF UpdateIdle
  <2>2. is_fading' = is_fading /\ time_diff' = t
    BY <1>2, <2>1 DEF is_fading, time_diff, members
  <2>3. MembersOK'
    BY <1>2, <1>3, <2>1 DEF FaderInv, MembersOK, members, history
  <2>4. IntervalBounded'
    BY <2>1, <2>2 DEF FaderInv, IntervalBounded, members
  <2>5. is_fading => t < interval
    BY <1>4 DEF UpdateIdle
  <2>6. TimeAccounted'
    <3>1. UNCHANGED <<interval, duration, requested, age>>
      BY <2>1 DEF members, history
    <3>2. interval \in Nat
      BY DEF FaderInv, MembersOK
    <3> HIDE DEF t
    <3>3. is_fading => duration + age = requested + t
      BY DEF FaderInv, TimeAccounted, t
    <3>4. QED
      BY <1>1, <1>2, <2>2, <2>5, <3>1, <3>2, <3>3, FaderConstants DEF TimeAccounted
  <2>7. QED
    BY <2>3, <2>4, <2>6 DEF FaderInv
<1>5. CASE UpdateFinish
  <2>1. /\ stop_fade /\ color' = to_color
        /\ UNCHANGED <<clock, to_color, last_step_time, interval>>
    BY <1>2, <1>5 DEF UpdateFinish
  <2>2. duration' = 0 /\ start' = 0 /\ requested' = 0 /\ age' = 0
    BY <2>1 DEF stop_fade, NoFade
  <2>3. MembersOK'
    BY <1>3, <2>1, <2>2, FaderConstants DEF FaderInv, MembersOK, Color
  <2>4. ~is_fading'
    BY <2>2 DEF is_fading
  <2>5. IntervalBounded' /\ TimeAccounted'
    BY <2>1, <2>4 DEF FaderInv, IntervalBounded, TimeAccounted
  <2>6. QED
    BY <2>3, <2>5 DEF FaderInv
<1>6. CASE UpdateMove
  <2>1. /\ is_fading /\ t < duration
        /\ duration' = duration - t /\ last_step_time' = clock
        /\ color' = Constrain(color + Increment, 0, MaxColor)
        /\ UNCHANGED <<to_color, interval>> /\ UNCHANGED history
    BY <1>6 DEF UpdateMove
  <2>2. duration' \in 0 .. MaxTime /\ is_fading'
    <3> HIDE DEF t
    <3>1. QED
      BY <1>1, <2>1, FaderConstants DEF FaderInv, MembersOK, is_fading
  <2>3. color' \in Color
    <3>1. /\ color \in Int /\ to_color \in Int
          /\ duration \in Nat /\ duration >= 1
      BY <2>1, FaderConstants DEF FaderInv, MembersOK, Color, is_fading
    <3> HIDE DEF t
    <3>2. (to_color - color) * t \in Int /\ (color - to_color) * t \in Int
      BY <1>1, <3>1
    <3>3. /\ Round((to_color - color) * t, duration) \in Int
          /\ Round((color - to_color) * t, duration) \in Int
      BY <3>1, <3>2, RoundInt
    <3>4. Increment \in Int
      BY <3>3 DEF Increment, t
    <3>5. QED
      BY <2>1, <3>1, <3>4, ConstrainColor
  <2>4. MembersOK'
    BY <1>2, <1>3, <2>1, <2>2, <2>3 DEF FaderInv, MembersOK, history
  <2>5. IntervalBounded'
    BY <2>1 DEF FaderInv, IntervalBounded
  <2>6. TimeAccounted'
    <3>1. time_diff' = 0
      BY <1>2, <2>1, ElapsedTick DEF time_diff, FaderInv, MembersOK
    <3>2. /\ duration \in Nat /\ age \in Nat /\ requested \in Nat
          /\ interval \in Nat /\ interval >= 1
      BY <2>1, FaderConstants DEF FaderInv, MembersOK, IntervalBounded
    <3>3. duration + age = requested + t
      BY <2>1 DEF FaderInv, TimeAccounted
    <3>4. requested' = requested /\ age' = age
      BY <2>1 DEF history
    <3> HIDE DEF t
    <3>5. QED
      BY <1>1, <1>2, <2>1, <3>1, <3>2, <3>3, <3>4, FaderConstants DEF TimeAccounted
  <2>7. QED
    BY <2>4, <2>5, <2>6 DEF FaderInv
<1>7. QED
  BY <1>4, <1>5, <1>6 DEF Update

(* What every step of the fader preserves.                                 *)
LEMMA FaderInvariant == Spec => []FaderInv
<1>1. Init => FaderInv
  <2> SUFFICES ASSUME Init PROVE FaderInv
    OBVIOUS
  <2>1. MembersOK
    BY FaderConstants DEF Init, MembersOK, Clock, Color
  <2>2. ~is_fading
    BY DEF Init, is_fading
  <2>3. IntervalBounded /\ TimeAccounted
    BY <2>2, FaderConstants DEF Init, IntervalBounded, TimeAccounted
  <2>4. QED
    BY <2>1, <2>3 DEF FaderInv
<1>2. FaderInv /\ [Next]_vars => FaderInv'
  <2> SUFFICES ASSUME FaderInv, [Next]_vars PROVE FaderInv'
    OBVIOUS
  <2>1. CASE Tick
    BY <2>1, TickKeeps
  <2>2. CASE Update
    BY <2>2, UpdateKeeps
  <2>3. CASE Command
    BY <2>3, CommandKeeps
  <2>4. CASE UNCHANGED vars
    <3>1. UNCHANGED <<clock, members, history, since_update>>
      BY <2>4 DEF vars
    <3>2. is_fading' = is_fading /\ time_diff' = time_diff
      BY <3>1 DEF is_fading, time_diff, members
    <3>3. QED
      BY <3>1, <3>2 DEF FaderInv, MembersOK, IntervalBounded, TimeAccounted, members, history
  <2>5. QED
    BY <2>1, <2>2, <2>3, <2>4 DEF Next
<1>3. QED
  BY <1>1, <1>2, PTL DEF Spec

(* Every member of the fader keeps its type: the colour never leaves the   *)
(* range of the output and the duration never goes below zero              *)
(* (LEDFader.cpp:56-169).                                                  *)
THEOREM FaderTypeOK == Spec => []TypeOK
<1>1. Init => UpdatedOK
  BY DEF Init, UpdatedOK
<1>2. UpdatedOK /\ [Next]_vars => UpdatedOK'
  <2> SUFFICES ASSUME UpdatedOK, [Next]_vars PROVE updated' \in BOOLEAN
    BY DEF UpdatedOK
  <2>1. updated' \in {updated, TRUE, FALSE}
    BY DEF Next, Tick, Update, Command, vars
  <2>2. QED
    BY <2>1, Zenon DEF UpdatedOK
<1>3. FaderInv /\ UpdatedOK => TypeOK
  BY DEF FaderInv, MembersOK, UpdatedOK, TypeOK
<1>4. QED
  BY <1>1, <1>2, <1>3, FaderInvariant, PTL DEF Spec

(* What is left of a fade and what has passed make up what was asked for,  *)
(* wherever the clock wrapped (LEDFader.cpp:97-106,140-167).               *)
THEOREM FaderTimeAccounted == Spec => []TimeAccounted
<1>1. FaderInv => TimeAccounted
  BY DEF FaderInv
<1>2. QED
  BY <1>1, FaderInvariant, PTL

(* The last step of a fade is never taken early, and at most one interval  *)
(* and one poll late (LEDFader.cpp:140-157).                               *)
THEOREM FaderKeepsTime == Spec => FadeKeepsTime
<1>1. FaderInv /\ [Next]_vars =>
        [UpdateFinish => /\ age >= requested
                         /\ age < requested + interval + PollGap]_vars
  <2> SUFFICES ASSUME FaderInv, UpdateFinish
               PROVE  age >= requested /\ age < requested + interval + PollGap
    OBVIOUS
  <2>1. is_fading /\ time_diff >= duration
    BY DEF UpdateFinish
  <2>2. duration + age = requested + time_diff /\ time_diff < interval + PollGap
    BY <2>1 DEF FaderInv, TimeAccounted
  <2>3. /\ duration \in Nat /\ duration >= 1 /\ age \in Nat
        /\ requested \in Nat /\ interval \in Nat
    BY <2>1, FaderConstants DEF FaderInv, MembersOK, is_fading
  <2>4. time_diff \in Nat
    BY ElapsedTick DEF FaderInv, MembersOK, time_diff, Clock
  <2>5. QED
    BY <2>1, <2>2, <2>3, <2>4, FaderConstants
<1>2. QED
  BY <1>1, FaderInvariant, PTL DEF Spec, FadeKeepsTime

-----------------------------------------------------------------------------
(* The colours of a fade.                                                  *)

(* A rounded quotient is within one half of the quotient. *)
LEMMA RoundNearest ==
  ASSUME NEW n \in Nat, NEW d \in Nat, d >= 1
  PROVE  /\ Round(n, d) \in Nat
         /\ 2 * (d * Round(n, d)) <= 2 * n + d
         /\ 2 * (d * Round(n, d)) > 2 * n - d
<1> DEFINE q == (2 * n + d) \div (2 * d)
           w == (2 * n + d) % (2 * d)
<1>1. 2 * n + d \in Nat /\ 2 * d \in Nat /\ 2 * d > 0
  OBVIOUS
<1>2. /\ q \in Int /\ w \in Int /\ 0 <= w /\ w < 2 * d
      /\ 2 * n + d = (2 * d) * q + w
  BY <1>1
<1>3. q >= 0
  BY <1>1
<1>4. Round(n, d) = q
  BY DEF Round
<1> HIDE DEF q, w
<1>5. (2 * d) * q = 2 * (d * q)
  BY <1>2
<1>6. QED
  BY <1>2, <1>3, <1>4, <1>5

(* A share of the way goes no further than the way. *)
LEMMA RoundShare ==
  ASSUME NEW c \in Nat, NEW t \in Nat, NEW d \in Nat, t <= d, d >= 1
  PROVE  Round(c * t, d) <= c
<1> DEFINE q == Round(c * t, d)
<1>1. c * t \in Nat
  OBVIOUS
<1>2. q \in Nat /\ 2 * (d * q) <= 2 * (c * t) + d
  BY <1>1, RoundNearest
<1>3. c * t <= c * d
  OBVIOUS
<1>4. SUFFICES ASSUME q >= c + 1 PROVE FALSE
  BY <1>2
<1> HIDE DEF q
<1>5. d * q >= d * (c + 1)
  BY <1>2, <1>4
<1>6. d * (c + 1) = c * d + d
  OBVIOUS
<1>7. QED
  BY <1>1, <1>2, <1>3, <1>5, <1>6
(* Products keep the order of their factors. *)
LEMMA TimesLe ==
  ASSUME NEW k \in Nat, NEW a \in Int, NEW b \in Int, a <= b
  PROVE  k * a <= k * b
OBVIOUS

(* A positive factor on both sides cancels.                                 *)
LEMMA TimesCancel ==
  ASSUME NEW k \in Nat, k >= 1, NEW a \in Int, NEW b \in Int, k * a <= k * b
  PROVE  a <= b
OBVIOUS

(* How a step of t changes the distance e of a fade to its line, when d is left *)
(* of R, g is gone, and r comes of rounding: what is left of e shrinks with d,  *)
(* and the step adds half a unit at most.                                       *)
LEMMA ErrorStep ==
  ASSUME NEW d \in Nat, NEW t \in Nat, t < d, NEW m \in Nat, m >= 1, m <= t,
         NEW R \in Nat, NEW g \in Nat, NEW e \in Int, NEW e1 \in Int, NEW r \in Int,
         2 * m * e <= R * g, r <= d,
         2 * (d * e1) = 2 * ((d - t) * e) + R * r
  PROVE  2 * m * e1 <= R * (g + t)
<1>1. d * (2 * m * e1) = m * (2 * (d * e1))
  OBVIOUS
<1>2. m * (2 * (d * e1)) = (d - t) * (2 * m * e) + m * (R * r)
  OBVIOUS
<1>3. (d - t) * (2 * m * e) <= (d - t) * (R * g)
  BY TimesLe
<1>4. (d - t) * (R * g) <= d * (R * g)
  OBVIOUS
<1>5. m * (R * r) <= d * (R * t)
  <2>1. R * r <= R * d
    BY TimesLe
  <2>2. m * (R * r) <= m * (R * d)
    BY <2>1, TimesLe
  <2>3. m * (R * d) <= t * (R * d)
    OBVIOUS
  <2>4. t * (R * d) = d * (R * t)
    OBVIOUS
  <2>5. QED
    BY <2>2, <2>3, <2>4
<1>6. d * (R * g) + d * (R * t) = d * (R * (g + t))
  OBVIOUS
<1>7. d * (2 * m * e1) <= d * (R * (g + t))
  BY <1>1, <1>2, <1>3, <1>4, <1>5, <1>6
<1>8. QED
  BY <1>7, TimesCancel

(* The step of a fade goes towards the target, no further than it, and is  *)
(* off by half a unit at most.                                             *)
LEMMA IncrementNear ==
  ASSUME FaderInv, is_fading, time_diff < duration
  PROVE  /\ Increment \in Int
         /\ to_color >= color => color <= color + Increment /\ color + Increment <= to_color
         /\ to_color < color => to_color <= color + Increment /\ color + Increment <= color
         /\ \E r \in Int : /\ - duration <= r /\ r <= duration
                           /\ 2 * (duration * Increment) = 2 * ((to_color - color) * time_diff) + r
<1> DEFINE t == time_diff
           d == duration
           c == IF to_color >= color THEN to_color - color ELSE color - to_color
           q == Round(c * t, d)
<1>1. /\ t \in Nat /\ d \in Nat /\ d >= 1 /\ t < d
      /\ color \in Int /\ to_color \in Int
  BY ElapsedTick, FaderConstants DEF FaderInv, MembersOK, time_diff, Clock, Color, is_fading
<1>2. c \in Nat
  BY <1>1
<1>3. Increment = IF to_color >= color THEN q ELSE - q
  BY DEF Increment
<1> HIDE DEF t, d
<1>4. c * t \in Nat
  BY <1>1, <1>2
<1>5. q \in Nat /\ 2 * (d * q) <= 2 * (c * t) + d /\ 2 * (d * q) > 2 * (c * t) - d
  <2> HIDE DEF c
  <2> QED
    BY <1>1, <1>4, RoundNearest
<1>6. q <= c
  <2> HIDE DEF c
  <2> QED
    BY <1>1, <1>2, RoundShare
<1> HIDE DEF q
<1>7. CASE to_color >= color
  <2>1. Increment = q /\ c = to_color - color
    BY <1>3, <1>7
  <2> DEFINE r == 2 * (d * q) - 2 * (c * t)
  <2>2. r \in Int /\ - d <= r /\ r <= d
    BY <1>1, <1>2, <1>4, <1>5
  <2>3. 2 * (d * q) = 2 * ((to_color - color) * t) + r
    BY <1>1, <1>4, <1>5, <2>1
  <2> HIDE DEF r
  <2>4. \E x \in Int : /\ - d <= x /\ x <= d
                       /\ 2 * (d * Increment) = 2 * ((to_color - color) * t) + x
    BY <2>1, <2>2, <2>3
  <2>5. QED
    BY <1>1, <1>5, <1>6, <1>7, <2>1, <2>4 DEF t, d
<1>8. CASE to_color < color
  <2>1. Increment = - q /\ c = color - to_color
    BY <1>1, <1>3, <1>8
  <2> DEFINE r == 2 * (c * t) - 2 * (d * q)
  <2>2. r \in Int /\ - d <= r /\ r <= d
    BY <1>1, <1>2, <1>4, <1>5
  <2>3. (to_color - color) * t = - (c * t) /\ d * (- q) = - (d * q)
    BY <1>1, <1>5, <2>1
  <2>4. 2 * (d * (- q)) = 2 * ((to_color - color) * t) + r
    BY <1>1, <1>4, <1>5, <2>3
  <2> HIDE DEF r
  <2>5. \E x \in Int : /\ - d <= x /\ x <= d
                       /\ 2 * (d * Increment) = 2 * ((to_color - color) * t) + x
    BY <2>1, <2>2, <2>4
  <2>6. QED
    BY <1>1, <1>5, <1>6, <1>8, <2>1, <2>5 DEF t, d
<1>9. QED
  BY <1>1, <1>7, <1>8

(* So set_value() has nothing to constrain: the step stays on the way.     *)
LEMMA MoveOnWay ==
  ASSUME FaderInv, UpdateMove
  PROVE  color' = color + Increment /\ color' \in Fader!Between(color, to_color)
<1>1. is_fading /\ time_diff < duration /\ color' = Constrain(color + Increment, 0, MaxColor)
  BY DEF UpdateMove
<1>2. /\ color \in 0 .. MaxColor /\ to_color \in 0 .. MaxColor /\ MaxColor \in Nat
  BY FaderConstants DEF FaderInv, MembersOK, Color
<1>3. color + Increment \in 0 .. MaxColor
  BY <1>1, <1>2, IncrementNear
<1>4. color' = color + Increment
  BY <1>1, <1>2, <1>3 DEF Constrain
<1>5. QED
  BY <1>1, <1>2, <1>3, <1>4, IncrementNear DEF Fader!Between, Fader!Color


\* What is gone of a fade was asked for.
LineInv == FollowsTheLine /\ (is_fading => duration <= requested)

\* A distance is bounded on both sides.
LEMMA DistanceBound ==
  ASSUME NEW k \in Nat, NEW x \in Int, NEW y \in Int, NEW b \in Int
  PROVE  2 * k * Distance(x, y) <= b <=> 2 * k * (x - y) <= b /\ 2 * k * (y - x) <= b
<1>1. CASE x >= y
  <2>1. Distance(x, y) = x - y /\ 2 * k * (y - x) <= 0 /\ 2 * k * (x - y) >= 0
    BY <1>1 DEF Distance
  <2>2. QED
    BY <2>1
<1>2. CASE x < y
  <2>1. Distance(x, y) = y - x /\ 2 * k * (x - y) <= 0 /\ 2 * k * (y - x) >= 0
    BY <1>2 DEF Distance
  <2>2. QED
    BY <2>1
<1>3. QED
  BY <1>1, <1>2

\* A fade that starts is on its line.
LEMMA FreshOnLine ==
  ASSUME NEW R \in Nat, NEW c \in Int, NEW to \in Int, NEW m \in Nat
  PROVE  2 * m * Distance((c - c) * R, (to - c) * (R - R)) <= R * (R - R)
<1>1. (c - c) * R = 0 /\ (to - c) * (R - R) = 0 /\ R * (R - R) = 0
  OBVIOUS
<1>2. 2 * m * Distance(0, 0) = 0
  BY DEF Distance
<1>3. QED
  BY <1>1, <1>2

\* Every call ends the fade or starts one of its own.
LEMMA CommandFresh ==
  ASSUME FaderInv, Command
  PROVE  ~is_fading' \/ (requested' = duration' /\ start' = color')
<1>1. stop_fade => ~is_fading'
  BY DEF stop_fade, is_fading
<1>2. ASSUME NEW value, NEW time, Fade(value, time)
      PROVE  ~is_fading' \/ (requested' = duration' /\ start' = color')
  BY <1>1, <1>2 DEF Fade, FadeToSame, FadeAtOnce, FadeStart
<1>3. ASSUME NEW value, SetValue(value)
      PROVE  ~is_fading' \/ (requested' = duration' /\ start' = color')
  BY <1>3 DEF SetValue, is_fading
<1>4. ASSUME NEW by, Faster(by)
      PROVE  ~is_fading' \/ (requested' = duration' /\ start' = color')
  BY <1>1, <1>2, <1>4 DEF Faster
<1>5. QED
  BY <1>1, <1>2, <1>3, <1>4 DEF Command, Slower, StopFade

(* A step of a fade adds at most the rounding of its own to the error, *)
(* and the error it had shrinks with the way that is left.             *)
LEMMA MoveOnLine ==
  ASSUME FaderInv, LineInv, UpdateMove
  PROVE  LineInv'
<1> DEFINE t == time_diff
           d == duration
           m == interval
           R == requested
           g == R - d
           x == color - start
           D == to_color - start
           e == x * R - D * g
<1>1. /\ is_fading /\ m <= t /\ t < d
      /\ duration' = d - t /\ to_color' = to_color /\ interval' = m
      /\ start' = start /\ requested' = R
  BY DEF UpdateMove, history
<1>2. /\ t \in Nat /\ d \in Nat /\ m \in Nat /\ m >= 1 /\ R \in Nat /\ d <= R
      /\ color \in Int /\ to_color \in Int /\ start \in Int
  BY <1>1, ElapsedTick, FaderConstants
  DEF FaderInv, MembersOK, IntervalBounded, LineInv, time_diff, Clock, Color, is_fading
<1>3. color' = color + Increment /\ Increment \in Int
  BY <1>1, MoveOnWay, IncrementNear
<1>4. PICK r \in Int : /\ - d <= r /\ r <= d
                       /\ 2 * (d * Increment) = 2 * ((to_color - color) * t) + r
  BY <1>1, IncrementNear
<1>5. 2 * m * Distance(x * R, D * g) <= R * g
  BY <1>1 DEF LineInv, FollowsTheLine
<1> HIDE DEF t, d, m, R
<1>6. /\ g \in Nat /\ x \in Int /\ D \in Int /\ x * R \in Int /\ D * g \in Int
      /\ e \in Int /\ R * g \in Int
  BY <1>2
<1> DEFINE e1 == (x + Increment) * R - D * (g + t)
<1>7. e1 \in Int /\ (x + Increment) * R \in Int /\ D * (g + t) \in Int
  BY <1>2, <1>3, <1>6
<1>8. 2 * (d * e1) = 2 * ((d - t) * e) + R * r
  <2> HIDE DEF g, x, D
  <2>1. to_color - color = D - x /\ g = R - d
    BY <1>2 DEF x, D, g
  <2>2. d * e1 = d * (x * R) + R * (d * Increment) - d * (D * g) - d * (D * t)
    BY <1>2, <1>3, <1>6
  <2>3. R * (2 * (d * Increment)) = 2 * (R * ((D - x) * t)) + R * r
    BY <1>2, <1>3, <1>4, <1>6, <2>1
  <2>4. R * ((D - x) * t) = t * (D * R) - t * (x * R)
    BY <1>2, <1>6
  <2>5. (d - t) * e = d * (x * R) - d * (D * g) - t * (x * R) + t * (D * g)
    BY <1>2, <1>6
  <2>6. t * (D * R) - d * (D * t) = t * (D * g)
    BY <1>2, <1>6, <2>1
  <2>7. QED
    BY <1>2, <1>3, <1>4, <1>6, <1>7, <2>2, <2>3, <2>4, <2>5, <2>6
<1>9. 2 * m * e <= R * g /\ 2 * m * (- e) <= R * g
  BY <1>2, <1>5, <1>6, DistanceBound
<1> HIDE DEF g, e, e1
<1>10. 2 * m * e1 <= R * (g + t)
  BY <1>1, <1>2, <1>4, <1>6, <1>7, <1>8, <1>9, ErrorStep
<1>11. 2 * m * (- e1) <= R * (g + t)
  <2>1. 2 * (d * (- e1)) = 2 * ((d - t) * (- e)) + R * (- r)
    BY <1>2, <1>4, <1>6, <1>7, <1>8
  <2>2. - e \in Int /\ - e1 \in Int /\ - r \in Int /\ - r <= d
    BY <1>2, <1>4, <1>6, <1>7
  <2>3. QED
    BY <1>1, <1>2, <1>6, <1>9, <2>1, <2>2, ErrorStep
<1>12. 2 * m * Distance((x + Increment) * R, D * (g + t)) <= R * (g + t)
  <2>1. /\ e1 = (x + Increment) * R - D * (g + t)
        /\ - e1 = D * (g + t) - (x + Increment) * R
        /\ R * (g + t) \in Int
    BY <1>2, <1>6, <1>7 DEF e1
  <2>2. QED
    BY <1>2, <1>7, <1>10, <1>11, <2>1, DistanceBound
<1>13. color' - start' = x + Increment /\ to_color' - start' = D
       /\ requested' - duration' = g + t /\ duration' <= requested'
  BY <1>1, <1>2, <1>3 DEF g
<1>14. QED
  BY <1>1, <1>12, <1>13 DEF LineInv, FollowsTheLine, m, R

(* A fade is off its straight line by half a unit at most for every        *)
(* interval that is gone, for every range of colours, fade time and delay  *)
(* of the polls (LEDFader.cpp:149-167).                                    *)
THEOREM FaderFollowsTheLine == Spec => []FollowsTheLine
<1>1. Init => LineInv
  BY DEF Init, LineInv, FollowsTheLine, is_fading
<1>2. FaderInv /\ FaderInv' /\ LineInv /\ [Next]_vars => LineInv'
  <2> SUFFICES ASSUME FaderInv, FaderInv', LineInv, [Next]_vars PROVE LineInv'
    OBVIOUS
  <2>1. ~is_fading' => LineInv'
    BY DEF LineInv, FollowsTheLine
  <2>2. CASE UNCHANGED <<members, start, requested>>
    BY <2>2 DEF LineInv, FollowsTheLine, is_fading, members
  <2>3. CASE Command
    <3>1. /\ duration' \in Nat /\ color' \in Int /\ to_color' \in Int /\ interval' \in Nat
      BY FaderConstants DEF FaderInv, MembersOK, Color
    <3>2. CASE requested' = duration' /\ start' = color'
      <4>1. FollowsTheLine'
        BY <3>1, <3>2, FreshOnLine DEF FollowsTheLine
      <4>2. duration' <= requested'
        BY <3>1, <3>2
      <4>3. QED
        BY <4>1, <4>2 DEF LineInv
    <3>3. QED
      BY <2>1, <2>3, <3>2, CommandFresh
  <2>4. CASE Update
    <3>1. CASE UpdateIdle
      BY <2>2, <3>1 DEF UpdateIdle, history
    <3>2. CASE UpdateFinish
      BY <2>1, <3>2 DEF UpdateFinish, stop_fade, is_fading
    <3>3. CASE UpdateMove
      BY <3>3, MoveOnLine
    <3>4. QED
      BY <2>4, <3>1, <3>2, <3>3 DEF Update
  <2>5. QED
    BY <2>2, <2>3, <2>4 DEF Next, Tick, vars, history
<1>3. LineInv => FollowsTheLine
  BY DEF LineInv
<1>4. QED
  BY <1>1, <1>2, <1>3, FaderInvariant, PTL DEF Spec

-----------------------------------------------------------------------------
\* The channel of FaderSpec that a fader shows.
Shown ==
  [color |-> color, target |-> IF is_fading THEN to_color ELSE color, fading |-> is_fading]

\* A channel on its way.
OnTheWay(c, to) == [color |-> c, target |-> to, fading |-> TRUE]

\* A fader that is not fading shows a channel at rest.
LEMMA ShownResting ==
  /\ ~is_fading => Shown = Fader!AtRest(color)
  /\ ~is_fading' => Shown' = Fader!AtRest(color')
<1>1. /\ ~is_fading => is_fading = FALSE
      /\ ~is_fading' => is_fading' = FALSE
  BY DEF is_fading
<1>2. QED
  BY <1>1 DEF Shown, Fader!AtRest

\* A fader that is fading shows a channel on its way.
LEMMA ShownFading ==
  /\ is_fading => Shown = OnTheWay(color, to_color)
  /\ is_fading' => Shown' = OnTheWay(color', to_color')
BY DEF Shown, OnTheWay

\* What the operations of a channel do to one at rest, and to one on its way.
LEMMA ChannelAtRest ==
  ASSUME NEW c, NEW v
  PROVE  /\ Fader!SetTo(Fader!AtRest(c), v) = Fader!AtRest(v)
         /\ v # c => Fader!FadeTo(Fader!AtRest(c), v) = OnTheWay(c, v)
         /\ Fader!AtRest(c) \in Fader!Updated(Fader!AtRest(c))
BY DEF Fader!SetTo, Fader!FadeTo, Fader!Updated, Fader!AtRest, OnTheWay

(* What the operations of the channel make of one that is on its way.       *)
LEMMA ChannelOnTheWay ==
  ASSUME NEW c, NEW to, NEW v
  PROVE  /\ Fader!SetTo(OnTheWay(c, to), v) = OnTheWay(v, to)
         /\ v # c => Fader!FadeTo(OnTheWay(c, to), v) = OnTheWay(c, v)
         /\ Fader!AtRest(to) \in Fader!Updated(OnTheWay(c, to))
         /\ v \in Fader!Between(c, to) => OnTheWay(v, to) \in Fader!Updated(OnTheWay(c, to))
<1>1. Fader!SetTo(OnTheWay(c, to), v) = OnTheWay(v, to)
  BY DEF Fader!SetTo, OnTheWay
<1>2. v # c => Fader!FadeTo(OnTheWay(c, to), v) = OnTheWay(c, v)
  BY DEF Fader!FadeTo, OnTheWay
<1>3. /\ OnTheWay(c, to).fading = TRUE
      /\ OnTheWay(c, to).color = c
      /\ OnTheWay(c, to).target = to
  BY DEF OnTheWay
<1>4. [OnTheWay(c, to) EXCEPT !.color = v] = OnTheWay(v, to)
  BY <1>1, <1>3 DEF Fader!SetTo
<1>5. v \in Fader!Between(c, to) =>
        OnTheWay(v, to) \in {[OnTheWay(c, to) EXCEPT !.color = x] : x \in Fader!Between(c, to)}
  BY <1>4
<1>6. Fader!Updated(OnTheWay(c, to)) =
        {[OnTheWay(c, to) EXCEPT !.color = x] : x \in Fader!Between(c, to)}
          \cup {Fader!AtRest(to)}
  BY <1>3 DEF Fader!Updated
<1>7. QED
  BY <1>1, <1>2, <1>5, <1>6

\* What fade() does is a command of the abstract fader.
LEMMA FadeShown ==
  ASSUME FaderInv, NEW value \in Color, NEW time \in Nat, Fade(value, time), updated' = FALSE
  PROVE  Fader!Command
<1>0. color \in Color /\ value \in Fader!Color /\ Shown.color = color
  BY DEF FaderInv, MembersOK, Color, Fader!Color, Shown
<1>1. CASE FadeToSame(value)
  <2>1. ~is_fading' /\ color' = color
    BY <1>1 DEF FadeToSame, stop_fade, is_fading
  <2>2. Shown' = Fader!AtRest(Shown.color)
    BY <1>0, <2>1, ShownResting
  <2>3. QED
    BY <2>2 DEF Fader!Command, Fader!Stop, Shown
<1>2. CASE FadeAtOnce(value, time)
  <2>1. ~is_fading' /\ color' = value
    BY <1>2 DEF FadeAtOnce, stop_fade, is_fading
  <2>2. Shown' = Fader!AtRest(value)
    BY <2>1, ShownResting
  <2>3. QED
    BY <1>0, <2>2 DEF Fader!Command, Fader!Start, Shown
<1>3. CASE FadeStart(value, time)
  <2>1. is_fading' /\ color' = color /\ to_color' = value /\ value # color
    BY <1>3, FaderConstants DEF FadeStart, is_fading
  <2>2. Shown' = OnTheWay(color, value)
    BY <2>1, ShownFading
  <2>3. Shown' = Fader!FadeTo(Shown, value)
    BY <2>1, <2>2, ShownFading, ShownResting, ChannelAtRest, ChannelOnTheWay
  <2>4. QED
    BY <1>0, <2>3 DEF Fader!Command, Fader!Start, Shown
<1>4. QED
  BY <1>1, <1>2, <1>3 DEF Fade

\* So is every call of the sketch.
LEMMA CommandShown ==
  ASSUME FaderInv, Command
  PROVE  Fader!Command
<1>0. /\ color \in Color /\ to_color \in Color /\ duration \in Nat
      /\ updated' = FALSE /\ Shown.color = color /\ Fader!Color = Color
  BY FaderConstants DEF FaderInv, MembersOK, Command, Shown, Color, Fader!Color
<1>1. ASSUME NEW value \in Color, SetValue(value)
      PROVE  Fader!Command
  <2>1. color' = value /\ to_color' = to_color /\ duration' = duration
    BY <1>1, FaderConstants DEF SetValue, Constrain, Color
  <2>2. Shown' = Fader!SetTo(Shown, value)
    <3>1. CASE is_fading
      <4>1. is_fading'
        BY <2>1, <3>1 DEF is_fading
      <4>2. QED
        BY <2>1, <3>1, <4>1, ShownFading, ChannelOnTheWay
    <3>2. CASE ~is_fading
      <4>1. ~is_fading'
        BY <2>1, <3>2 DEF is_fading
      <4>2. QED
        BY <2>1, <3>2, <4>1, ShownResting, ChannelAtRest
    <3>3. QED
      BY <3>1, <3>2
  <2>3. QED
    BY <1>0, <2>2 DEF Fader!Command, Fader!Jump, Shown
<1>2. ASSUME NEW by \in Steps, duration + by <= MaxTime, Slower(by)
      PROVE  Fader!Command
  <2>1. duration + by \in Nat
    BY <1>0, FaderAssumption
  <2>2. QED
    BY <1>0, <1>2, <2>1, FadeShown DEF Slower
<1>3. ASSUME NEW by \in Steps, Faster(by)
      PROVE  Fader!Command
  <2>1. CASE stop_fade /\ color' = to_color
    <3>1. Shown' = Fader!AtRest(to_color)
      BY <2>1, ShownResting DEF stop_fade, is_fading
    <3>2. QED
      BY <1>0, <3>1 DEF Fader!Command, Fader!Start, Shown
  <2>2. CASE duration > by /\ Fade(to_color, duration - by)
    <3>1. duration - by \in Nat
      BY <1>0, <2>2, FaderAssumption
    <3>2. QED
      BY <1>0, <2>2, <3>1, FadeShown
  <2>3. QED
    BY <1>3, <2>1, <2>2 DEF Faster
<1>4. CASE StopFade
  <2>1. Shown' = Fader!AtRest(Shown.color)
    BY <1>0, <1>4, ShownResting DEF StopFade, stop_fade, is_fading
  <2>2. QED
    BY <1>0, <2>1 DEF Fader!Command, Fader!Stop, Shown
<1>5. ASSUME NEW value \in Color, NEW time \in FadeTimes, Fade(value, time)
      PROVE  Fader!Command
  <2>1. time \in Nat
    BY FaderAssumption
  <2>2. QED
    BY <1>0, <1>5, <2>1, FadeShown
<1>6. QED
  BY <1>1, <1>2, <1>3, <1>4, <1>5 DEF Command

\* A step of a fade moves the channel towards its target, and stops it only there.
LEMMA UpdateShown ==
  ASSUME FaderInv, Update
  PROVE  Fader!Update
<1>1. updated' = TRUE
  BY DEF Update
<1>2. SUFFICES Shown' \in Fader!Updated(Shown)
  BY <1>1 DEF Fader!Update, Shown
<1>3. color \in Fader!Between(color, to_color)
  BY FaderConstants DEF FaderInv, MembersOK, Color, Fader!Color, Fader!Between
<1>4. CASE UpdateIdle
  <2>1. Shown' = Shown
    BY <1>4 DEF UpdateIdle, members, Shown, is_fading
  <2>2. Shown \in Fader!Updated(Shown)
    BY <1>3, ShownFading, ShownResting, ChannelAtRest, ChannelOnTheWay
  <2>3. QED
    BY <2>1, <2>2
<1>5. CASE UpdateFinish
  <2>1. is_fading /\ ~is_fading' /\ color' = to_color
    BY <1>5 DEF UpdateFinish, stop_fade, is_fading
  <2>2. QED
    BY <2>1, ShownFading, ShownResting, ChannelOnTheWay
<1>6. CASE UpdateMove
  <2>1. is_fading /\ to_color' = to_color
    BY <1>6 DEF UpdateMove
  <2>2. is_fading'
    <3>1. /\ time_diff \in Nat /\ duration \in Nat
          /\ time_diff < duration /\ duration' = duration - time_diff
      BY <1>6, ElapsedTick, FaderConstants
      DEF UpdateMove, FaderInv, MembersOK, time_diff, Clock
    <3>2. QED
      BY <3>1 DEF is_fading
  <2>3. color' \in Fader!Between(color, to_color)
    BY <1>6, MoveOnWay
  <2>4. QED
    BY <2>1, <2>2, <2>3, ShownFading, ChannelOnTheWay
<1>7. QED
  BY <1>4, <1>5, <1>6 DEF Update

(* An LED channel never leaves its way to the target and stops only there: *)
(* every step of the fader is one of the abstract fader                    *)
(* (LEDFader.cpp:56-169).                                                  *)
THEOREM FaderImplements == Spec => ImplementsFader
<1>1. Init => Fader!Init
  <2> SUFFICES ASSUME Init PROVE Fader!Init
    OBVIOUS
  <2>1. Shown = Fader!AtRest(0)
    BY ShownResting DEF Init, is_fading
  <2>2. QED
    BY <2>1 DEF Init, Fader!Init, Shown
<1>2. FaderInv /\ [Next]_vars => [Fader!Next]_(Fader!faderVars)
  <2> SUFFICES ASSUME FaderInv, [Next]_vars
               PROVE  Fader!Next \/ UNCHANGED Fader!faderVars
    OBVIOUS
  <2>1. CASE Tick
    BY <2>1 DEF Tick, members, is_fading, Fader!Next, Fader!Wait
  <2>2. CASE Command
    BY <2>2, CommandShown DEF Fader!Next
  <2>3. CASE Update
    BY <2>3, UpdateShown DEF Fader!Next
  <2>4. CASE UNCHANGED vars
    BY <2>4 DEF vars, members, is_fading, Fader!faderVars
  <2>5. QED
    BY <2>1, <2>2, <2>3, <2>4 DEF Next
<1>3. QED
  BY <1>1, <1>2, FaderInvariant, PTL DEF Spec, ImplementsFader, Fader!Spec
=============================================================================
