----------------------------- MODULE NewButton -----------------------------
(***************************************************************************)
(* libraries/NewButton: a push button that is polled by the main loop.     *)
(* process() samples the pin, notes the time of the press edge and turns   *)
(* the time held so far into at most one callback per poll.                *)
(*                                                                         *)
(* The pin moves at any time, several times between two polls if it        *)
(* bounces; the clock advances between polls, at most PollGap ms because   *)
(* the main loop calls process() once per iteration.                       *)
(***************************************************************************)
EXTENDS Millis, ButtonCallbacks

CONSTANTS
  ShortTime,   \* m_short_press_time
  LongTime,    \* m_long_press_time
  PollGap      \* the longest time between two polls, in ms

ASSUME ButtonAssumption ==
  /\ ShortTime \in Nat \ {0}
  /\ LongTime \in Nat
  /\ PollGap \in Nat \ {0}
  /\ ShortTime < LongTime
  /\ LongTime + PollGap < ClockWrap

VARIABLES
  level,                 \* the pin: TRUE when it reads HIGH
  clock,                 \* millis()
  m_prev_status,
  m_pressed_time,
  m_prev_press_status,
  m_press_status,
  event,                 \* the callback made by the last poll
  odd_calls,             \* history: an odd number of callbacks has been made
  hold,                  \* history: ms since the poll that saw the press, up to ClockWrap
  since_poll             \* ms since the last poll

members == <<m_prev_status, m_pressed_time, m_prev_press_status, m_press_status>>
vars == <<level, clock, members, event, odd_calls, hold, since_poll>>

TypeOK ==
  /\ level \in BOOLEAN
  /\ clock \in Clock
  /\ m_prev_status \in BOOLEAN
  /\ m_pressed_time \in Clock
  /\ m_prev_press_status \in Status
  /\ m_press_status \in Status
  /\ event \in Event
  /\ odd_calls \in BOOLEAN
  /\ hold \in 0 .. ClockWrap
  /\ since_poll \in 0 .. PollGap

-----------------------------------------------------------------------------

Init ==
  /\ level \in BOOLEAN
  /\ clock = 0
  /\ m_prev_status = FALSE
  /\ m_pressed_time = 0
  /\ m_prev_press_status = "NONE"
  /\ m_press_status = "NONE"
  /\ event = "none"
  /\ odd_calls = FALSE
  /\ hold = 0
  /\ since_poll = 0

PinChange ==
  /\ level' = ~level
  /\ UNCHANGED <<clock, members, event, odd_calls, hold, since_poll>>

Tick ==
  /\ since_poll < PollGap
  /\ clock' = NextTick(clock)
  /\ since_poll' = since_poll + 1
  /\ hold' = IF m_prev_status /\ hold < ClockWrap THEN hold + 1 ELSE hold
  /\ UNCHANGED <<level, members, event, odd_calls>>

\* Faulty: the boundary of the long press off by one.
ClassifyLate(pressed_time, status) ==
  IF pressed_time = 0 THEN status
  ELSE IF Elapsed(clock, pressed_time) > LongTime THEN "LONG"
  ELSE IF Elapsed(clock, pressed_time) >= ShortTime THEN "SHORT"
  ELSE status

\* Faulty: the short press is looked for first.
ClassifyShortFirst(pressed_time, status) ==
  IF pressed_time = 0 THEN status
  ELSE IF Elapsed(clock, pressed_time) >= ShortTime THEN "SHORT"
  ELSE status

\* The status after looking at the time held; a press time of 0 means "not pressed".
Classify(pressed_time, status) ==
  IF pressed_time = 0 THEN status
  ELSE IF Elapsed(clock, pressed_time) >= LongTime THEN "LONG"
  ELSE IF Elapsed(clock, pressed_time) >= ShortTime THEN "SHORT"
  ELSE status

ReleaseEvent(status) ==
  CASE status = "SHORT" -> "SHORT_RELEASE"
    [] status = "LONG" -> "LONG_RELEASE"
    [] OTHER -> "none"

\* Faulty: the press is reported at every poll.
PressEventRepeated(prev_status, status) ==
  CASE status = "SHORT" -> "SHORT_PRESS"
    [] status = "LONG" -> "LONG_PRESS"
    [] OTHER -> "none"

PressEvent(prev_status, status) ==
  CASE prev_status # status /\ status = "SHORT" -> "SHORT_PRESS"
    [] prev_status # status /\ status = "LONG" -> "LONG_PRESS"
    [] OTHER -> "none"

\* The part of process() every poll runs, after the edges.
Poll(pressed_time, status) ==
  /\ m_pressed_time' = pressed_time
  /\ m_press_status' = Classify(pressed_time, status)
  /\ m_prev_press_status' = m_press_status'
  /\ m_prev_status' = level
  /\ since_poll' = 0
  /\ UNCHANGED <<level, clock>>

ProcessPressEdge ==
  /\ level /\ ~m_prev_status
  /\ Poll(clock, m_press_status)
  /\ event' = PressEvent(m_prev_press_status, m_press_status')
  /\ hold' = 0

\* Faulty: the press time is kept after the release.
ReleaseKeepsTime ==
  /\ ~level /\ m_prev_status
  /\ Poll(m_pressed_time, "NONE")
  /\ event' = ReleaseEvent(m_press_status)
  /\ hold' = 0

ProcessReleaseEdge ==
  /\ ~level /\ m_prev_status
  /\ Poll(0, "NONE")
  /\ event' = ReleaseEvent(m_press_status)
  /\ hold' = 0

ProcessSteady ==
  /\ level = m_prev_status
  /\ Poll(m_pressed_time, m_press_status)
  /\ event' = PressEvent(m_prev_press_status, m_press_status')
  /\ UNCHANGED hold

Process ==
  /\ ProcessPressEdge \/ ProcessReleaseEdge \/ ProcessSteady
  /\ odd_calls' = IF event' = "none" THEN odd_calls ELSE ~odd_calls

Next == PinChange \/ Tick \/ Process

Spec == Init /\ [][Next]_vars

\* The main loop never stops calling process() and time never stops.
FairSpec == Spec /\ WF_vars(Tick) /\ WF_vars(Process)

-----------------------------------------------------------------------------

\* The time the button had been seen down at the last poll.
HoldAtPoll == hold - since_poll

(* A callback reports the time the button was really held: a press is      *)
(* called short or long by the time since its edge was seen, a release by  *)
(* the time at the last poll before it, whenever the hold is shorter than  *)
(* the clock's period (NewButton.cpp:50-76, across the wrap of millis()).  *)
(* A press first seen in the millisecond where millis() is 0 has no time   *)
(* and is not reported at all (line 68).                                   *)
EventMatchesHold ==
  [][Process /\ hold < ClockWrap =>
       /\ event' = "SHORT_PRESS" => hold \in ShortTime .. (LongTime - 1)
       /\ event' = "LONG_PRESS" => hold >= LongTime
       /\ event' = "SHORT_RELEASE" => HoldAtPoll \in ShortTime .. (LongTime - 1)
       /\ event' = "LONG_RELEASE" => HoldAtPoll >= LongTime
       /\ ProcessReleaseEdge /\ event' = "none" =>
            HoldAtPoll < ShortTime \/ m_pressed_time = 0]_vars

(* The callbacks come in the order a sketch relies on: no release without  *)
(* its press, each callback made once, long after short and never short    *)
(* after long within one press (NewButton.cpp:43-95).                      *)
Protocol == INSTANCE ButtonProtocol WITH status <- m_press_status, overheld <- hold = ClockWrap

ImplementsProtocol == Protocol!Spec

(* A button kept down is reported as a long press in the end, without      *)
(* waiting for its release, unless the press was seen at millis() = 0      *)
(* (NewButton.cpp:68-89).                                                  *)
LongPressReported ==
  (level /\ m_prev_status /\ m_pressed_time # 0 /\ m_press_status # "LONG")
     ~> (~level \/ event = "LONG_PRESS")

(* The invariant the proofs rest on: the press time and the status agree   *)
(* with the time the button has been held (NewButton.cpp:47-76).           *)
TimeKept ==
  /\ m_prev_press_status = m_press_status
  /\ m_pressed_time = 0 => m_press_status = "NONE"
  /\ ~m_prev_status => m_pressed_time = 0 /\ hold = 0
  /\ m_prev_status => since_poll <= hold
  /\ m_pressed_time # 0 /\ hold < ClockWrap =>
       /\ Elapsed(clock, m_pressed_time) = hold
       /\ m_press_status = IF HoldAtPoll >= LongTime THEN "LONG"
                           ELSE IF HoldAtPoll >= ShortTime THEN "SHORT" ELSE "NONE"
=============================================================================
