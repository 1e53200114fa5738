------------------------------ MODULE Kitchen ------------------------------
(***************************************************************************)
(* sketches/Kitchen: a node with a colour light (several channels) and a   *)
(* white light, a push button, the limits of both lights in EEPROM, and    *)
(* commands from the controller.                                           *)
(*                                                                         *)
(* One main loop runs it all: _process() delivers messages to receive(),   *)
(* then loop() polls the button and steps the LEDs. A channel is the one   *)
(* of FaderSpec, which LEDFader is checked to implement; the button makes  *)
(* the callbacks of ButtonProtocol, which NewButton implements (it is      *)
(* never held here for a whole period of the clock).                       *)
(* Every fade of the sketch is longer than LEDFader's MIN_INTERVAL.        *)
(***************************************************************************)
EXTENDS FaderChannel, ButtonCallbacks, Parsing, Sequences

CONSTANTS
  ColorOrder,       \* the colour channels in the order of struct RGBW
  WhiteChannel,     \* the white channel
  Payloads,         \* V_VAR1 payloads the controller sends, per light
  STORAGE_VERSION,  \* version byte of the stored record
  MY_NODE_ID        \* the radio node id the sketch is built with

ASSUME KitchenAssumption ==
  /\ ColorOrder \in Seq({ColorOrder[i] : i \in DOMAIN ColorOrder})
  /\ ColorOrder # <<>>
  /\ \A i, j \in DOMAIN ColorOrder : ColorOrder[i] = ColorOrder[j] => i = j
  /\ \A i \in DOMAIN ColorOrder : ColorOrder[i] # WhiteChannel
  /\ {STORAGE_VERSION, MY_NODE_ID} \subseteq Nat
  /\ STORAGE_VERSION # MY_NODE_ID

LedType == {"Color", "White"}
Source == {"External", "Button"}
ButtonMode == {"Both", "Color", "White"}

ChannelOrder == ColorOrder \o <<WhiteChannel>>
Channel == {ChannelOrder[i] : i \in DOMAIN ChannelOrder}
TypeOf(c) == IF c = WhiteChannel THEN "White" ELSE "Color"
Channels(t) == {c \in Channel : TypeOf(c) = t}

\* What a payload gives for every channel of its light is a colour.
ASSUME PayloadAssumption ==
  \A t \in LedType : \A p \in Payloads[t] :
    p.start.color \in [Channel -> Color] /\ p.stop.color \in [Channel -> Color]

VARIABLES
  pc,            \* where the main loop is: in _process() or before leds_process()
  leds,          \* the faders: ledR, ledG, ledB, ledW
  trans_run,     \* the transition of each light (LEDs.cpp:15-20)
  reported,      \* the last V_LIGHT status sent for each light
  storage,       \* the limits in RAM
  eeprom,        \* the bytes of the EEPROM the record occupies
  button_mode,
  errno,         \* errno # 0
  press,         \* m_press_status of the button
  saved,         \* history: a limit was saved since power on
  lit_by         \* history: whose limit a light was last switched on with

lights == <<leds, trans_run, reported, lit_by>>
vars == <<pc, lights, storage, eeprom, button_mode, errno, press, saved>>

\* The fields transition.start and transition.stop hold a value per channel.
Transition == [running : BOOLEAN, is_loop : BOOLEAN, direction : BOOLEAN,
               start : [Channel -> Color], stop : [Channel -> Color]]

-----------------------------------------------------------------------------
\* The EEPROM record: a version byte, then the channels of each source.

Size == Len(ChannelOrder)
Address == 0 .. (2 * Size)
SourceAt(a) == IF a <= Size THEN "External" ELSE "Button"
ChannelAt(a) == ChannelOrder[IF a <= Size THEN a ELSE a - Size]
AddressOf(s, c) == CHOOSE a \in Address \ {0} : SourceAt(a) = s /\ ChannelAt(a) = c

\* Faulty: the limits of one source are written for both.
ImageOfOneSource(st) ==
  [a \in Address |-> IF a = 0 THEN STORAGE_VERSION ELSE st["External"][ChannelAt(a)]]

\* eeprom.put(0, storage)
Image(st) ==
  [a \in Address |-> IF a = 0 THEN STORAGE_VERSION ELSE st[SourceAt(a)][ChannelAt(a)]]

\* Faulty: a record without a version byte, taken as it is.
LoadedUnversioned(cells) ==
  [s \in Source |-> [c \in Channel |-> cells[AddressOf(s, c) - 1]]]

\* load_storage(): the record is taken only with the right version byte.
Loaded(cells) ==
  IF cells[0] = STORAGE_VERSION
  THEN [s \in Source |-> [c \in Channel |-> cells[AddressOf(s, c)]]]
  ELSE [s \in Source |-> [c \in Channel |-> MaxColor]]

\* MySensors keeps its node id at address 0 and its parent's id (255, that
\* is AUTO, until it has found one) at address 1.
NodeIdAddress == 0
ParentIdAddress == 1
AfterBegin(cells) == [cells EXCEPT ![NodeIdAddress] = MY_NODE_ID, ![ParentIdAddress] = MaxColor]

TypeOK ==
  /\ pc \in {"process", "leds"}
  /\ leds \in [Channel -> ChannelState]
  /\ trans_run \in [LedType -> Transition]
  /\ reported \in [LedType -> BOOLEAN]
  /\ storage \in [Source -> [Channel -> Color]]
  /\ eeprom \in [Address -> Nat]
  /\ button_mode \in ButtonMode
  /\ errno \in BOOLEAN
  /\ press \in Status
  /\ saved \in BOOLEAN
  /\ lit_by \in [LedType -> Source]

-----------------------------------------------------------------------------
\* Power on and restart: MySensors' _begin() comes before setup().

\* lit_by of a light that is not lit by a limit.
Unlit == "External"

NoTransition ==
  [running |-> FALSE, is_loop |-> FALSE, direction |-> FALSE,
   start |-> [c \in Channel |-> 0], stop |-> [c \in Channel |-> 0]]

Erased == [a \in Address |-> MaxColor]

Init ==
  /\ pc = "process"
  /\ leds = [c \in Channel |-> AtRest(0)]
  /\ trans_run = [t \in LedType |-> NoTransition]
  /\ reported = [t \in LedType |-> FALSE]
  /\ lit_by = [t \in LedType |-> Unlit]
  /\ eeprom = AfterBegin(Erased)
  /\ storage = Loaded(AfterBegin(Erased))
  /\ button_mode = "Both"
  /\ errno = FALSE
  /\ press = "NONE"
  /\ saved = FALSE

Restart ==
  /\ pc' = "process"
  /\ leds' = [c \in Channel |-> AtRest(0)]
  /\ trans_run' = [t \in LedType |-> NoTransition]
  /\ reported' = [t \in LedType |-> FALSE]
  /\ lit_by' = [t \in LedType |-> Unlit]
  /\ eeprom' = AfterBegin(eeprom)
  /\ storage' = Loaded(AfterBegin(eeprom))
  /\ button_mode' = "Both"
  /\ errno' = FALSE
  /\ press' = "NONE"
  /\ saved' = FALSE

\* MySensors initialises its transport again when it has lost the gateway.
TransportInit ==
  /\ pc = "process"
  /\ eeprom' = [eeprom EXCEPT ![NodeIdAddress] = MY_NODE_ID]
  /\ UNCHANGED <<pc, lights, storage, button_mode, errno, press, saved>>

-----------------------------------------------------------------------------
\* LEDs.cpp

LitByAfter(types, status, source) ==
  [t \in LedType |-> IF t \notin types THEN lit_by[t] ELSE IF status[t] THEN source ELSE Unlit]

\* Faulty: a transition goes on after the light was switched.
SwitchLightsOnly(types, value, status, source) ==
  /\ UNCHANGED trans_run
  /\ leds' = [c \in Channel |->
       IF TypeOf(c) \in types THEN FadeTo(leds[c], value[c]) ELSE leds[c]]
  /\ reported' = [t \in LedType |-> IF t \in types THEN status[t] ELSE reported[t]]
  /\ lit_by' = LitByAfter(types, status, source)

\* The transitions of these lights end, their channels fade to these values
\* (those on to the limits of the source) and their status is sent: what
\* every switch of the sketch does.
SwitchLights(types, value, status, source) ==
  /\ trans_run' = [t \in LedType |->
       IF t \in types THEN [trans_run[t] EXCEPT !.running = FALSE] ELSE trans_run[t]]
  /\ leds' = [c \in Channel |->
       IF TypeOf(c) \in types THEN FadeTo(leds[c], value[c]) ELSE leds[c]]
  /\ reported' = [t \in LedType |-> IF t \in types THEN status[t] ELSE reported[t]]
  /\ lit_by' = LitByAfter(types, status, source)

\* Faulty: a transition goes on from the colour shown.
StartTransitionFromShown(t, start, stop, is_loop) ==
  /\ trans_run' = [trans_run EXCEPT ![t] =
       [running |-> TRUE, is_loop |-> is_loop, direction |-> TRUE,
        start |-> start, stop |-> stop]]
  /\ leds' = [c \in Channel |-> IF TypeOf(c) = t THEN FadeTo(leds[c], stop[c]) ELSE leds[c]]
  /\ reported' = [reported EXCEPT ![t] = TRUE]
  /\ lit_by' = [lit_by EXCEPT ![t] = Unlit]

StartTransition(t, start, stop, is_loop) ==
  /\ trans_run' = [trans_run EXCEPT ![t] =
       [running |-> TRUE, is_loop |-> is_loop, direction |-> TRUE,
        start |-> start, stop |-> stop]]
  /\ leds' = [c \in Channel |->
       IF TypeOf(c) = t THEN FadeTo(SetTo(leds[c], start[c]), stop[c]) ELSE leds[c]]
  /\ reported' = [reported EXCEPT ![t] = TRUE]
  /\ lit_by' = [lit_by EXCEPT ![t] = Unlit]

\* Faulty: the way back is not looked at.
DestinationForward(tr) == tr.stop

\* Where a running transition is going, and where it comes from.
Destination(tr) == IF tr.direction THEN tr.stop ELSE tr.start
Origin(tr) == IF tr.direction THEN tr.start ELSE tr.stop

\* The updates of all channels in one iteration.
Updates ==
  {u \in [Channel -> UNION {Updated(leds[c]) : c \in Channel}] :
     \A c \in Channel : u[c] \in Updated(leds[c])}

\* Faulty: the light turns back when one of its channels has arrived.
TurnsBackAtFirst(t, u) ==
  /\ trans_run[t].running
  /\ trans_run[t].is_loop
  /\ \E c \in Channels(t) : u[c].color = Destination(trans_run[t])[c]

\* Faulty: a loop that was stopped still turns back.
TurnsBackStopped(t, u) ==
  /\ trans_run[t].is_loop
  /\ \A c \in Channels(t) : u[c].color = Destination(trans_run[t])[c]

\* led_process_loop(): the light shows where the loop was going.
TurnsBack(t, u) ==
  /\ trans_run[t].running
  /\ trans_run[t].is_loop
  /\ \A c \in Channels(t) : u[c].color = Destination(trans_run[t])[c]

LedsProcess(u) ==
  /\ pc = "leds"
  /\ pc' = "process"
  /\ leds' = [c \in Channel |->
       LET tr == trans_run[TypeOf(c)]
       IN  IF TurnsBack(TypeOf(c), u)
           THEN FadeTo(SetTo(u[c], Destination(tr)[c]), Origin(tr)[c]) ELSE u[c]]
  /\ trans_run' = [t \in LedType |->
       IF TurnsBack(t, u) THEN [trans_run[t] EXCEPT !.direction = ~@] ELSE trans_run[t]]
  /\ UNCHANGED <<reported, lit_by, storage, eeprom, button_mode, errno, press, saved>>

-----------------------------------------------------------------------------
\* Networking.cpp: a message for one light.

AllOff == [c \in Channel |-> 0]
BothStatus(on) == [t \in LedType |-> on]

ReceiveLight(t, on) ==
  /\ pc = "process"
  /\ SwitchLights({t}, IF on THEN storage["External"] ELSE AllOff, BothStatus(on), "External")
  /\ UNCHANGED <<pc, storage, eeprom, button_mode, errno, press, saved>>

\* Faulty: the new limit is saved but not shown.
SetLimitUnshown(t, source, color) ==
  /\ storage' = [storage EXCEPT ![source] =
       [c \in Channel |-> IF TypeOf(c) = t THEN color[c] ELSE @[c]]]
  /\ eeprom' = Image(storage')
  /\ saved' = TRUE
  /\ UNCHANGED lights

\* A new limit is saved and shown at once.
SetLimit(t, source, color) ==
  /\ storage' = [storage EXCEPT ![source] =
       [c \in Channel |-> IF TypeOf(c) = t THEN color[c] ELSE @[c]]]
  /\ eeprom' = Image(storage')
  /\ saved' = TRUE
  /\ SwitchLights({t}, color, BothStatus(TRUE), source)

ReceiveVar1(t, p) ==
  LET command == parse_command(p, errno)
  IN  /\ pc = "process"
      /\ errno' = ErrnoAfter(p, errno)
      /\ \/ /\ command = "LIGHT_SET_EXT_LIMIT"
            /\ SetLimit(t, "External", p.start.color)
         \/ /\ command = "LIGHT_SET_BUTTON_LIMIT"
            /\ SetLimit(t, "Button", p.start.color)
         \/ /\ command \in TransitionCommands
            /\ StartTransition(t, p.start.color, p.stop.color, command = "TRANSITION_LOOP")
            /\ UNCHANGED <<storage, eeprom, saved>>
         \/ /\ command = "NONE"
            /\ UNCHANGED <<lights, storage, eeprom, saved>>
      /\ UNCHANGED <<pc, button_mode, press>>

-----------------------------------------------------------------------------
\* Kitchen.ino: the button, polled when _process() has no more messages.

is_stored_equal(source) == \A c \in Channel : storage[source][c] = leds[c].color

on_btn_short_release ==
  LET on == ~is_stored_equal("Button")
  IN  /\ SwitchLights(LedType, IF on THEN storage["Button"] ELSE AllOff, BothStatus(on), "Button")
      /\ UNCHANGED button_mode

\* The lights a long press switches on in each mode, and the mode after it.
LitIn(mode) == IF mode = "Both" THEN LedType ELSE {mode}
NextMode(mode) ==
  CASE mode = "Both" -> "Color" [] mode = "Color" -> "White" [] mode = "White" -> "Both"

on_btn_long_press ==
  /\ SwitchLights(LedType,
       [c \in Channel |-> IF TypeOf(c) \in LitIn(button_mode) THEN storage["Button"][c] ELSE 0],
       [t \in LedType |-> t \in LitIn(button_mode)], "Button")
  /\ button_mode' = NextMode(button_mode)

ButtonProcess ==
  /\ pc = "process"
  /\ pc' = "leds"
  /\ press' \in Polled(press)
  /\ CASE Callback(press, press') = "SHORT_RELEASE" -> on_btn_short_release
       [] Callback(press, press') = "LONG_PRESS" -> on_btn_long_press
       [] OTHER -> UNCHANGED <<lights, button_mode>>
  /\ UNCHANGED <<storage, eeprom, errno, saved>>

-----------------------------------------------------------------------------

Receive ==
  \E t \in LedType :
    \/ \E on \in BOOLEAN : ReceiveLight(t, on)
    \/ \E p \in Payloads[t] : ReceiveVar1(t, p)

LedsStep == \E u \in Updates : LedsProcess(u)

Next ==
  \/ Receive
  \/ ButtonProcess
  \/ LedsStep
  \/ TransportInit
  \/ Restart

Spec == Init /\ [][Next]_vars

\* The update with which a fade comes to its end (LEDFader.FadeEnds).
Arrival(c) ==
  \E u \in Updates : leds[c].fading /\ ~u[c].fading /\ LedsProcess(u)

FairSpec ==
  /\ Spec
  /\ WF_vars(ButtonProcess)
  /\ WF_vars(LedsStep)
  /\ \A c \in Channel : SF_vars(Arrival(c))

-----------------------------------------------------------------------------

(* A loop turns back without a jump: led_process_loop() sets all channels   *)
(* of the light to the end it has come to, which changes no colour that the *)
(* updates of this iteration have left, whichever channel arrives last      *)
(* (LEDs.cpp:40-67,143-168).                                                *)
NoJump ==
  [][pc = "leds" /\ trans_run' # trans_run =>
       \A u \in Updates : LedsProcess(u) =>
         \A c \in Channel : leds'[c].color = u[c].color]_vars

\* Every channel of the light is at this value or on its way to it.
Heads(t, value) == \A c \in Channels(t) : leds[c].target = value[c]

(* A light last reported off is dark or fading to dark and has no           *)
(* transition that could light it again: whichever of the button, V_LIGHT   *)
(* and V_VAR1 came last (LEDs.cpp:83-99,116-131, Networking.cpp:65-77,      *)
(* Kitchen.ino:70-113).                                                     *)
OffMeansDark ==
  \A t \in LedType : ~reported[t] => ~trans_run[t].running /\ Heads(t, AllOff)

(* A running transition is on its course: all channels of the light head    *)
(* for the end it is going to, from between its two ends, also when they    *)
(* arrive one after the other (LEDs.cpp:116-168).                           *)
TransitionOnCourse ==
  \A t \in LedType : LET tr == trans_run[t] IN
    tr.running =>
      /\ Heads(t, Destination(tr))
      /\ \A c \in Channels(t) : leds[c].color \in Between(tr.start[c], tr.stop[c])
      /\ ~tr.is_loop => tr.direction

(* A light that is reported on and runs no transition goes to the limit of  *)
(* whoever lit it, the controller or the button, as that limit is now: no   *)
(* new limit leaves a light at the old one, or at the other one's           *)
(* (Networking.cpp:33-49,79-89, Storage.cpp:30-42,64-74, Kitchen.ino:62-99).*)
LitAtLimit ==
  \A t \in LedType :
    reported[t] /\ ~trans_run[t].running => Heads(t, storage[lit_by[t]])

(* What was saved since power on is in the EEPROM for every channel of both *)
(* lights (Storage.cpp:30-42).                                              *)
EepromHoldsLimits ==
  saved => \A s \in Source, c \in Channel : eeprom[AddressOf(s, c)] = storage[s][c]

\* A step in which nobody touches the node.
Undisturbed == LedsStep \/ (ButtonProcess /\ UNCHANGED <<lights, button_mode>>)

LeftAlone == <>[][Undisturbed]_vars

(* A light switched off and left alone becomes dark (LEDs.cpp:40-48).       *)
SettlesDark ==
  LeftAlone => \A t \in LedType :
    (~reported[t]) ~> (reported[t] \/ \A c \in Channels(t) : leds[c] = AtRest(0))

Pulsing(t, forth) ==
  trans_run[t].running /\ trans_run[t].is_loop /\ trans_run[t].direction = forth

(* A loop left alone never stops pulsing: it turns back at both ends again  *)
(* and again (LEDs.cpp:143-168).                                            *)
KeepsPulsing ==
  LeftAlone => \A t \in LedType, forth \in BOOLEAN :
    <>[](trans_run[t].running /\ trans_run[t].is_loop) =>
      Pulsing(t, forth) ~> Pulsing(t, ~forth)

(* A payload that follows the README is carried out whatever was received  *)
(* before it (README.md:12-21); the code refuses every one of them after   *)
(* an overflow of strtoul(), whose errno it never clears                   *)
(* (Parsing.cpp:26-29,51-54).                                              *)
WellFormedObeyed ==
  \A t \in LedType : \A p \in Payloads[t] :
    WellFormed(p) => parse_command(p, errno) = p.mode

(* A limit is saved, says the README (README.md:13-14): it is still there  *)
(* after a restart. MySensors keeps its node id in the first byte of the   *)
(* record (Storage.cpp:30-62).                                             *)
LimitsSurviveRestart ==
  [][Restart => storage' = storage]_vars
=============================================================================
