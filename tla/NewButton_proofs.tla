-------------------------- MODULE NewButton_proofs --------------------------
(***************************************************************************)
(* Proofs about the polled button, for every clock period, every pair of   *)
(* press times and every poll gap that ButtonAssumption allows.            *)
(***************************************************************************)
EXTENDS NewButton, TLAPS

(* One millisecond later the time elapsed since t is one more, also when   *)
(* the clock wraps in between (the subtraction in NewButton.cpp:69).       *)
LEMMA ElapsedTick ==
  ASSUME NEW c \in Clock, NEW t \in Clock, Elapsed(c, t) < ClockWrap - 1
  PROVE  Elapsed(NextTick(c), t) = Elapsed(c, t) + 1
BY ClockWrapAssumption DEF Clock, Elapsed, NextTick

(* TypeOK without the count of the callbacks.                              *)
MembersOK ==
  /\ level \in BOOLEAN
  /\ clock \in Clock
  /\ m_prev_status \in BOOLEAN
  /\ m_pressed_time \in Clock
  /\ m_prev_press_status \in Status
  /\ m_press_status \in Status
  /\ event \in Event
  /\ hold \in 0 .. ClockWrap
  /\ since_poll \in 0 .. PollGap

CallsOK == odd_calls \in BOOLEAN

(* Every member keeps its type (NewButton.h:41-50).                        *)
THEOREM ButtonTypeOK == Spec => []TypeOK
<1> USE ClockWrapAssumption, ButtonAssumption DEF MembersOK
<1>1. Init => MembersOK /\ CallsOK
  <2> SUFFICES ASSUME Init PROVE MembersOK /\ CallsOK
    OBVIOUS
  <2>1. /\ clock \in Clock /\ m_pressed_time \in Clock
        /\ hold \in 0 .. ClockWrap /\ since_poll \in 0 .. PollGap
    BY DEF Init, Clock
  <2>2. level \in BOOLEAN /\ m_prev_status \in BOOLEAN /\ CallsOK
    BY DEF Init, CallsOK
  <2>3. QED
    BY <2>1, <2>2 DEF Init, Status, Event
<1>2. MembersOK /\ [Next]_vars => MembersOK'
  <2> SUFFICES ASSUME MembersOK, [Next]_vars PROVE MembersOK'
    OBVIOUS
  <2>1. CASE PinChange
    BY <2>1 DEF PinChange, members
  <2>2. CASE Tick
    BY <2>2 DEF Tick, members, NextTick, Clock
  <2>3. CASE ProcessPressEdge
    BY <2>3 DEF ProcessPressEdge, PressEvent, Poll, Classify, Status, Event, Clock
  <2>4. CASE ProcessReleaseEdge
    BY <2>4 DEF ProcessReleaseEdge, ReleaseEvent, Poll, Classify, Status, Event, Clock
  <2>5. CASE ProcessSteady
    BY <2>5 DEF ProcessSteady, PressEvent, Poll, Classify, Status, Event, Clock
  <2>6. CASE UNCHANGED vars
    BY <2>6 DEF vars, members
  <2>7. QED
    BY <2>1, <2>2, <2>3, <2>4, <2>5, <2>6 DEF Next, Process
<1>3. CallsOK /\ [Next]_vars => CallsOK'
  <2> SUFFICES ASSUME CallsOK, [Next]_vars PROVE odd_calls' \in BOOLEAN
    BY DEF CallsOK
  <2>1. odd_calls' \in {odd_calls, ~odd_calls}
    BY DEF Next, PinChange, Tick, Process, vars
  <2>2. QED
    BY <2>1, Zenon DEF CallsOK
<1>4. MembersOK /\ CallsOK => TypeOK
  BY DEF TypeOK, CallsOK
<1>5. QED
  BY <1>1, <1>2, <1>3, <1>4, PTL DEF Spec

(* The press time and the status always agree with the time the button has *)
(* been held (NewButton.cpp:47-76).                                        *)
THEOREM ButtonTimeKept == Spec => []TimeKept
<1> USE ClockWrapAssumption, ButtonAssumption
<1>1. Init => TimeKept
  BY DEF Init, TimeKept, HoldAtPoll
<1>2. TypeOK /\ TimeKept /\ [Next]_vars => TimeKept'
  <2> SUFFICES ASSUME TypeOK, TimeKept, [Next]_vars PROVE TimeKept'
    OBVIOUS
  <2>1. CASE PinChange
    BY <2>1 DEF PinChange, members, TimeKept, HoldAtPoll
  <2>2. CASE Tick
    <3>1. m_prev_status /\ hold < ClockWrap => HoldAtPoll' = HoldAtPoll
      BY <2>2 DEF Tick, HoldAtPoll, TypeOK
    <3>2. ASSUME m_pressed_time # 0, hold' < ClockWrap
          PROVE  Elapsed(clock', m_pressed_time) = hold'
      <4>1. m_prev_status /\ hold < ClockWrap - 1 /\ hold' = hold + 1
        BY <2>2, <3>2 DEF Tick, TimeKept, TypeOK, Clock
      <4>2. Elapsed(clock, m_pressed_time) = hold
        BY <3>2, <4>1 DEF TimeKept, TypeOK
      <4>3. QED
        BY <2>2, <4>1, <4>2, ElapsedTick DEF Tick, TypeOK
    <3>3. m_prev_status => since_poll' <= hold'
      BY <2>2 DEF Tick, TimeKept, TypeOK
    <3>4. QED
      BY <2>2, <3>1, <3>2, <3>3 DEF Tick, members, TimeKept, TypeOK, Clock
  <2>3. CASE ProcessPressEdge
    BY <2>3 DEF ProcessPressEdge, Poll, Classify, TimeKept, HoldAtPoll, TypeOK, Clock, Elapsed
  <2>4. CASE ProcessReleaseEdge
    BY <2>4 DEF ProcessReleaseEdge, Poll, Classify, TimeKept, HoldAtPoll, TypeOK
  <2>5. CASE ProcessSteady
    BY <2>5 DEF ProcessSteady, Poll, Classify, TimeKept, HoldAtPoll, TypeOK, Clock
  <2>6. CASE UNCHANGED vars
    BY <2>6 DEF vars, members, TimeKept, HoldAtPoll
  <2>7. QED
    BY <2>1, <2>2, <2>3, <2>4, <2>5, <2>6 DEF Next, Process
<1>3. QED
  BY <1>1, <1>2, ButtonTypeOK, PTL DEF Spec

(* Every callback reports the time the button was really held              *)
(* (NewButton.cpp:50-91).                                                  *)
THEOREM ButtonEventMatchesHold == Spec => EventMatchesHold
<1> USE ClockWrapAssumption, ButtonAssumption
<1> DEFINE Matches ==
       /\ event' = "SHORT_PRESS" => hold \in ShortTime .. (LongTime - 1)
       /\ event' = "LONG_PRESS" => hold >= LongTime
       /\ event' = "SHORT_RELEASE" => HoldAtPoll \in ShortTime .. (LongTime - 1)
       /\ event' = "LONG_RELEASE" => HoldAtPoll >= LongTime
       /\ ProcessReleaseEdge /\ event' = "none" =>
            HoldAtPoll < ShortTime \/ m_pressed_time = 0
<1>1. ASSUME TypeOK, TimeKept, Process, hold < ClockWrap PROVE Matches
  <2>1. HoldAtPoll \in Int
    BY <1>1 DEF TypeOK, HoldAtPoll
  <2>2. CASE ProcessPressEdge
    <3>1. m_press_status = "NONE" /\ m_prev_press_status = "NONE"
      BY <1>1, <2>2 DEF TimeKept, ProcessPressEdge
    <3>2. m_press_status' = "NONE"
      BY <1>1, <2>2, <3>1 DEF ProcessPressEdge, Poll, Classify, TypeOK, Clock, Elapsed
    <3>3. QED
      BY <2>2, <3>1, <3>2 DEF ProcessPressEdge, ProcessReleaseEdge, PressEvent
  <2>3. CASE ProcessReleaseEdge
    BY <1>1, <2>1, <2>3 DEF ProcessReleaseEdge, ReleaseEvent, TimeKept, TypeOK, Status
  <2>4. CASE ProcessSteady
    BY <1>1, <2>4 DEF ProcessSteady, ProcessReleaseEdge, Poll, Classify, PressEvent,
                      TimeKept, TypeOK, Clock
  <2>5. QED
    BY <1>1, <2>2, <2>3, <2>4 DEF Process
<1>2. TypeOK /\ TimeKept => (Process /\ hold < ClockWrap => Matches)
  BY <1>1
<1>3. QED
  BY <1>2, ButtonTypeOK, ButtonTimeKept, PTL DEF EventMatchesHold

(* The polled button implements the callback protocol the sketches rely on *)
(* (NewButton.cpp:43-95).                                                  *)
THEOREM ButtonImplementsProtocol == Spec => ImplementsProtocol
<1> USE ClockWrapAssumption, ButtonAssumption
<1>1. Init => Protocol!Init
  BY DEF Init, Protocol!Init
<1>2. TypeOK /\ TimeKept /\ [Next]_vars => [Protocol!Next]_(Protocol!protocolVars)
  <2> SUFFICES ASSUME TypeOK, TimeKept, [Next]_vars
               PROVE  [Protocol!Next]_(Protocol!protocolVars)
    OBVIOUS
  <2> USE DEF Protocol!Next, Protocol!protocolVars
  <2> DEFINE Calls == odd_calls' = IF event' = "none" THEN odd_calls ELSE ~odd_calls
  <2>1. CASE PinChange \/ UNCHANGED vars
    BY <2>1 DEF PinChange, vars, members
  <2>2. CASE Tick
    BY <2>2 DEF Tick, members, TypeOK, Protocol!Overhold
  <2>3. CASE ProcessPressEdge /\ Calls
    <3>1. event' = "none" /\ m_press_status' = m_press_status
      BY <2>3 DEF ProcessPressEdge, Poll, Classify, PressEvent, TimeKept, TypeOK, Clock, Elapsed
    <3>2. (hold = ClockWrap)' = FALSE
      BY <2>3 DEF ProcessPressEdge
    <3>3. /\ m_press_status' \in Protocol!Polled(m_press_status)
          /\ event' = Protocol!Callback(m_press_status, m_press_status')
      BY <3>1 DEF TypeOK, Status, Protocol!Polled, Protocol!Callback
    <3>4. QED
      BY <2>3, <3>2, <3>3, Zenon DEF Protocol!Poll, Protocol!CallsAfter
  <2>4. CASE ProcessReleaseEdge /\ Calls
    <3>1. m_press_status' = "NONE" /\ event' = ReleaseEvent(m_press_status)
      BY <2>4 DEF ProcessReleaseEdge, Poll, Classify
    <3>2. (hold = ClockWrap)' = FALSE
      BY <2>4 DEF ProcessReleaseEdge
    <3>3. /\ m_press_status' \in Protocol!Polled(m_press_status)
          /\ event' = Protocol!Callback(m_press_status, m_press_status')
      BY <3>1 DEF TypeOK, Status, Protocol!Polled, Protocol!Callback, ReleaseEvent
    <3>4. QED
      BY <2>4, <3>2, <3>3, Zenon DEF Protocol!Poll, Protocol!CallsAfter
  <2>5. CASE ProcessSteady /\ Calls
    <3>1. UNCHANGED (hold = ClockWrap)
      BY <2>5 DEF ProcessSteady
    <3>2. event' = PressEvent(m_press_status, m_press_status')
      BY <2>5 DEF ProcessSteady, TimeKept
    <3>3. m_press_status' \in {m_press_status, "SHORT", "LONG"}
      BY <2>5 DEF ProcessSteady, Poll, Classify
    <3>4. CASE m_press_status = "LONG" /\ m_press_status' = "SHORT"
      <4>1. hold = ClockWrap
        BY <2>5, <3>4 DEF ProcessSteady, Poll, Classify, TimeKept, TypeOK, Clock, HoldAtPoll
      <4>2. event' = "SHORT_PRESS"
        BY <3>2, <3>4 DEF PressEvent
      <4>3. QED
        BY <2>5, <3>1, <3>4, <4>1, <4>2, Zenon DEF Protocol!PressAgain, Protocol!CallsAfter
    <3>5. CASE ~(m_press_status = "LONG" /\ m_press_status' = "SHORT")
      <4>1. /\ m_press_status' \in Protocol!Polled(m_press_status)
            /\ event' = Protocol!Callback(m_press_status, m_press_status')
        BY <3>2, <3>3, <3>5 DEF TypeOK, Status, Protocol!Polled, Protocol!Callback, PressEvent
      <4>2. QED
        BY <2>5, <3>1, <4>1, Zenon DEF Protocol!Poll, Protocol!CallsAfter
    <3>6. QED
      BY <3>4, <3>5
  <2>6. QED
    BY <2>1, <2>2, <2>3, <2>4, <2>5 DEF Next, Process
<1>3. QED
  BY <1>1, <1>2, ButtonTypeOK, ButtonTimeKept, PTL
     DEF Spec, ImplementsProtocol, Protocol!Spec
=============================================================================
