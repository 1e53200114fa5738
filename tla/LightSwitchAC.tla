--------------------------- MODULE LightSwitchAC ---------------------------
(***************************************************************************)
(* sketches/LightSwitchAC: the control of a phase-cut lamp. The level      *)
(* counts the delay of the triac: DIMMER_LOW is the brightest, from        *)
(* DIMMER_MAX on there is next to no light, DIMMER_HIGH is off. The main   *)
(* loop delivers messages, moves the lamp one unit towards its target      *)
(* (dimmer_process) and polls the button.                                  *)
(*                                                                         *)
(* The button makes the callbacks of ButtonProtocol (it is never held for  *)
(* a whole period of the clock). dimmer.delay only sets the pace: a pass   *)
(* of the loop may or may not find that it is over. A message that cannot  *)
(* be sent is only logged, as is an EEPROM cell that cannot be written.    *)
(***************************************************************************)
EXTENDS ButtonCallbacks, DimmerLevels

Byte == 0 .. (ByteSize - 1)

VARIABLES
  pc,                \* "process": messages, dimmer_process; "button": button.process()
  actual, limit, target,
  button_direction,
  eeprom,            \* the cell at EEPROM_OFFSET
  press,             \* m_press_status of the button
  status,            \* the last V_LIGHT sent: "on", "off" or none yet
  level              \* the last V_LIGHT_LEVEL sent, ByteSize when none yet

dimmer == <<actual, limit, target>>
vars == <<pc, dimmer, button_direction, eeprom, press, status, level>>

TypeOK ==
  /\ pc \in {"process", "button"}
  /\ actual \in Level /\ limit \in Level /\ target \in Level
  /\ button_direction \in BOOLEAN
  /\ eeprom \in Byte
  /\ press \in Status
  /\ status \in {"none", "on", "off"}
  /\ level \in Byte \cup {ByteSize}

-----------------------------------------------------------------------------
\* reset() and eeprom_restore(): a stored limit out of range is the dimmest one.

Restored(cell) == IF cell > DIMMER_MAX THEN DIMMER_MAX ELSE cell

Init ==
  /\ pc = "process"
  /\ eeprom = ByteSize - 1
  /\ limit = Restored(eeprom)
  /\ actual = DIMMER_HIGH /\ target = DIMMER_HIGH
  /\ button_direction = TRUE
  /\ press = "NONE"
  /\ status = "none" /\ level = ByteSize

Restart ==
  /\ pc' = "process"
  /\ limit' = Restored(eeprom)
  /\ actual' = DIMMER_HIGH /\ target' = DIMMER_HIGH
  /\ button_direction' = TRUE
  /\ press' = "NONE"
  /\ status' = "none" /\ level' = ByteSize
  /\ UNCHANGED eeprom

\* light_dimmer_convert() on a byte
light_dimmer_convert(l) == (DIMMER_MAX - l) % ByteSize

\* Faulty: the new limit is not saved.
dimmer_level_unsaved(l) ==
  /\ limit' = l
  /\ target' = l
  /\ level' = light_dimmer_convert(l)
  /\ status' = "on"
  /\ UNCHANGED eeprom

\* A new limit is shown, saved and reported, and the lamp is reported on.
dimmer_level(l) ==
  /\ limit' = l
  /\ target' = l
  /\ eeprom' = l
  /\ level' = light_dimmer_convert(l)
  /\ status' = "on"

\* Faulty: switching on goes to the brightest level.
dimmer_switch_full(off) ==
  /\ target' = IF off THEN DIMMER_HIGH ELSE DIMMER_LOW
  /\ status' = IF off THEN "off" ELSE "on"
  /\ UNCHANGED <<limit, eeprom, level>>

\* dimmer_switch(): TRUE switches the lamp off.
dimmer_switch(off) ==
  /\ target' = IF off THEN DIMMER_HIGH ELSE limit
  /\ status' = IF off THEN "off" ELSE "on"
  /\ UNCHANGED <<limit, eeprom, level>>

\* A level outside 0 .. DIMMER_MAX is constrained to it.
ReceiveLevel(l) ==
  /\ pc = "process"
  /\ l \in 0 .. DIMMER_MAX
  /\ dimmer_level(light_dimmer_convert(l))
  /\ UNCHANGED <<pc, actual, button_direction, press>>

ReceiveLight(on) ==
  /\ pc = "process"
  /\ dimmer_switch(~on)
  /\ UNCHANGED <<pc, actual, button_direction, press>>

\* Faulty: the lamp moves on when it has arrived.
DimmerStepUnguarded ==
  /\ pc = "process"
  /\ pc' = "button"
  /\ actual' = IF target > actual THEN actual + 1 ELSE actual - 1
  /\ UNCHANGED <<limit, target, button_direction, eeprom, press, status, level>>

\* Faulty: the lamp moves by two units within its range.
DimmerStepByTwo ==
  /\ pc = "process"
  /\ pc' = "button"
  /\ actual # target
  /\ actual' = IF target > actual THEN IF actual + 2 > DIMMER_HIGH THEN DIMMER_HIGH ELSE actual + 2
               ELSE IF actual - 2 < DIMMER_LOW THEN DIMMER_LOW ELSE actual - 2
  /\ UNCHANGED <<limit, target, button_direction, eeprom, press, status, level>>

\* One unit towards the target when the delay is over.
DimmerStep ==
  /\ pc = "process"
  /\ pc' = "button"
  /\ actual # target
  /\ actual' = IF target > actual THEN actual + 1 ELSE actual - 1
  /\ UNCHANGED <<limit, target, button_direction, eeprom, press, status, level>>

DimmerWait ==
  /\ pc = "process"
  /\ pc' = "button"
  /\ UNCHANGED <<dimmer, button_direction, eeprom, press, status, level>>

-----------------------------------------------------------------------------
\* The button. TRUE is up, to more delay and less light.

\* Faulty: the direction alternates, whoever moved the lamp in between.
alternate_direction(min, max) == ~button_direction

change_button_direction(min, max) ==
  IF actual >= max THEN FALSE
  ELSE IF actual <= min THEN TRUE
  ELSE ~button_direction

on_btn_long_press ==
  /\ button_direction' = change_button_direction(DIMMER_LOW, DIMMER_MAX)
  /\ target' = IF button_direction' THEN DIMMER_MAX ELSE DIMMER_LOW
  /\ UNCHANGED <<limit, eeprom, status, level>>

on_btn_short_release ==
  /\ button_direction' = change_button_direction(limit, DIMMER_HIGH)
  /\ dimmer_switch(button_direction')

\* Faulty: nothing happens at the end of a long press.
on_btn_long_release_ignored ==
  UNCHANGED <<limit, target, button_direction, eeprom, status, level>>

\* The lamp stays where the long press brought it.
on_btn_long_release ==
  /\ dimmer_level(actual)
  /\ UNCHANGED button_direction

ButtonProcess ==
  /\ pc = "button"
  /\ pc' = "process"
  /\ press' \in Polled(press)
  /\ CASE Callback(press, press') = "LONG_PRESS" -> on_btn_long_press
       [] Callback(press, press') = "SHORT_RELEASE" -> on_btn_short_release
       [] Callback(press, press') = "LONG_RELEASE" -> on_btn_long_release
       [] OTHER -> UNCHANGED <<limit, target, button_direction, eeprom, status, level>>
  /\ UNCHANGED actual

Receive ==
  \/ \E l \in 0 .. DIMMER_MAX : ReceiveLevel(l)
  \/ \E on \in BOOLEAN : ReceiveLight(on)

Next == Receive \/ DimmerStep \/ DimmerWait \/ ButtonProcess \/ Restart

Spec == Init /\ [][Next]_vars

-----------------------------------------------------------------------------

(* What the controller was told last is what the lamp is doing: on is at   *)
(* the limit or on the way there, off is on the way to off, unless the     *)
(* user holds the button and moves the lamp himself                        *)
(* (LightSwitchAC.ino:160-183,228-240,305-324).                            *)
StatusTold ==
  /\ status = "on" => target = limit \/ press = "LONG"
  /\ status # "on" => target = DIMMER_HIGH \/ press = "LONG"

(* The lamp grows brighter than its limit only under a long press, which   *)
(* sets a new limit when it ends (LightSwitchAC.ino:160-183,243-261).      *)
LimitKept ==
  [][DimmerStep /\ actual' < actual => actual' >= limit \/ press = "LONG"]_vars

(* Whenever the power goes, the lamp comes back with the limit it had,     *)
(* brought into range (LightSwitchAC.ino:206-226,305-311).                 *)
LimitSurvives ==
  [][Restart => limit' = Restored(limit)]_vars

(* A short press on a lamp that is not moving toggles it, whoever brought  *)
(* it there, the controller or the button, unless the limit itself is off  *)
(* (LightSwitchAC.ino:142-158,172-177).                                    *)
ShortPressToggles ==
  [][/\ ButtonProcess
     /\ Callback(press, press') = "SHORT_RELEASE"
     /\ actual = target
     /\ limit # DIMMER_HIGH
     => status' = IF status = "on" THEN "off" ELSE "on"]_vars

\* A step in which neither the controller nor the user touches the lamp.
Undisturbed ==
  \/ DimmerStep \/ DimmerWait
  \/ ButtonProcess /\ UNCHANGED <<limit, target, button_direction, eeprom, status, level>>

(* A lamp left alone comes to its target and stays there                   *)
(* (LightSwitchAC.ino:243-261).                                            *)
LampSettles ==
  <>[][Undisturbed]_vars => <>[](actual = target)

(* The level told to the controller is one of the levels the README names, *)
(* 0 - 100 (README.md:4); the long release reports whatever level the lamp *)
(* is at (LightSwitchAC.ino:179-183,313-314).                              *)
LevelInRange == level # ByteSize => level <= DIMMER_MAX
=============================================================================
