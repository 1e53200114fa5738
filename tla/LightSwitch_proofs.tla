-------------------------- MODULE LightSwitch_proofs --------------------------
(***************************************************************************)
(* Proofs about the light switch, for every range of levels and every      *)
(* width of the EEPROM cell that DimmerAssumption allows: of the control   *)
(* alone, and of the control under the interrupts. The interrupts do not   *)
(* touch what the control keeps, and the control moves the level as the    *)
(* proofs about the triac assume, so that each part keeps in the whole     *)
(* what is proved of it alone.                                             *)
(***************************************************************************)
EXTENDS LightSwitch, TLAPS

(* A level the controller may send is converted to a level again; the      *)
(* subtraction does not wrap (LightSwitchAC.ino:296-303,350-353).          *)
LEMMA ConvertedLevel ==
  ASSUME NEW l \in 0 .. DIMMER_MAX
  PROVE  light_dimmer_convert(l) \in 0 .. DIMMER_MAX
BY DimmerAssumption DEF light_dimmer_convert

(* The invariant behind the theorems: the target is never brighter than    *)
(* the limit, unless the user holds the button, and the cell in EEPROM     *)
(* holds the limit in use, up to the range it is brought into.             *)
DimmerInv ==
  /\ actual \in Level /\ limit \in Level /\ target \in Level
  /\ eeprom \in Byte
  /\ press \in Status
  /\ target >= limit \/ press = "LONG"
  /\ Restored(eeprom) = Restored(limit)
  /\ status = "on" => target = limit \/ press = "LONG"
  /\ status # "on" => target = DIMMER_HIGH \/ press = "LONG"

LEMMA DimmerInvariant == Spec => []DimmerInv
<1> USE DimmerAssumption DEF DimmerInv, Level, Byte, DIMMER_LOW
<1>1. Init => DimmerInv
  BY DEF Init, Restored, Status
<1>2. DimmerInv /\ [Next]_vars => DimmerInv'
  <2> SUFFICES ASSUME DimmerInv, [Next]_vars PROVE DimmerInv'
    OBVIOUS
  <2>1. ASSUME NEW l \in 0 .. DIMMER_MAX, ReceiveLevel(l) PROVE DimmerInv'
    BY <2>1, ConvertedLevel DEF ReceiveLevel, dimmer_level, Restored
  <2>2. ASSUME NEW on \in BOOLEAN, ReceiveLight(on) PROVE DimmerInv'
    BY <2>2 DEF ReceiveLight, dimmer_switch
  <2>3. CASE DimmerStep
    BY <2>3 DEF DimmerStep
  <2>4. CASE DimmerWait
    BY <2>4 DEF DimmerWait, dimmer
  <2>5. CASE ButtonProcess
    <3>1. press' \in Status /\ actual' = actual
      BY <2>5 DEF ButtonProcess, Polled, Status
    <3>2. CASE Callback(press, press') = "LONG_PRESS"
      <4>1. press' = "LONG"
        BY <2>5, <3>2 DEF ButtonProcess, Polled, Callback, Status
      <4>2. QED
        BY <2>5, <3>1, <3>2, <4>1 DEF ButtonProcess, on_btn_long_press
    <3>3. CASE Callback(press, press') = "SHORT_RELEASE"
      BY <2>5, <3>1, <3>3 DEF ButtonProcess, on_btn_short_release, dimmer_switch
    <3>4. CASE Callback(press, press') = "LONG_RELEASE"
      BY <2>5, <3>1, <3>4 DEF ButtonProcess, on_btn_long_release, dimmer_level, Restored
    <3>5. CASE Callback(press, press') \notin {"LONG_PRESS", "SHORT_RELEASE", "LONG_RELEASE"}
      <4>1. press = "LONG" => press' = "LONG"
        BY <2>5, <3>5 DEF ButtonProcess, Polled, Callback
      <4>2. QED
        BY <2>5, <3>1, <3>5, <4>1 DEF ButtonProcess
    <3>6. QED
      BY <3>2, <3>3, <3>4, <3>5
  <2>6. CASE Restart
    BY <2>6 DEF Restart, Restored, Status
  <2>7. CASE UNCHANGED vars
    BY <2>7 DEF vars, dimmer
  <2>8. QED
    BY <2>1, <2>2, <2>3, <2>4, <2>5, <2>6, <2>7 DEF Next, Receive
<1>3. QED
  BY <1>1, <1>2, PTL DEF Spec

(* Levels stay in range and what is sent and saved fits a byte, whatever   *)
(* wraps in the conversion (LightSwitchAC.ino:228-261,305-316,350-353).    *)
THEOREM DimmerTypeOK == Spec => []TypeOK
<1> USE DimmerAssumption DEF TypeOK, Level, Byte, DIMMER_LOW
<1>1. Init => TypeOK
  BY DEF Init, Restored, Status
<1>2. DimmerInv /\ TypeOK /\ [Next]_vars => TypeOK'
  <2> SUFFICES ASSUME DimmerInv, TypeOK, [Next]_vars PROVE TypeOK'
    OBVIOUS
  <2>1. \A l \in Level : light_dimmer_convert(l) \in Byte
    BY DEF light_dimmer_convert
  <2>2. ASSUME NEW l \in 0 .. DIMMER_MAX, ReceiveLevel(l) PROVE TypeOK'
    <3>1. light_dimmer_convert(l) \in Level /\ light_dimmer_convert(l) \in Byte
      BY ConvertedLevel
    <3>2. QED
      BY <2>2, <3>1, <2>1 DEF ReceiveLevel, dimmer_level
  <2>3. ASSUME NEW on \in BOOLEAN, ReceiveLight(on) PROVE TypeOK'
    BY <2>3 DEF ReceiveLight, dimmer_switch
  <2>4. CASE DimmerStep \/ DimmerWait
    BY <2>4 DEF DimmerStep, DimmerWait, dimmer
  <2>5. CASE ButtonProcess
    <3>1. press' \in Status /\ pc' = "process" /\ actual' = actual
      BY <2>5 DEF ButtonProcess, Polled, Status
    <3>2. \A min, max \in Level : change_button_direction(min, max) \in BOOLEAN
      BY Zenon DEF change_button_direction
    <3>3. CASE Callback(press, press') = "LONG_PRESS"
      BY <2>5, <3>1, <3>2, <3>3 DEF ButtonProcess, on_btn_long_press
    <3>4. CASE Callback(press, press') = "SHORT_RELEASE"
      BY <2>5, <3>1, <3>2, <3>4 DEF ButtonProcess, on_btn_short_release, dimmer_switch
    <3>5. CASE Callback(press, press') = "LONG_RELEASE"
      BY <2>5, <3>1, <3>5, <2>1 DEF ButtonProcess, on_btn_long_release, dimmer_level
    <3>6. CASE Callback(press, press') \notin {"LONG_PRESS", "SHORT_RELEASE", "LONG_RELEASE"}
      BY <2>5, <3>1, <3>6 DEF ButtonProcess
    <3>7. QED
      BY <3>3, <3>4, <3>5, <3>6
  <2>6. CASE Restart
    BY <2>6 DEF Restart, Restored, Status
  <2>7. CASE UNCHANGED vars
    BY <2>7 DEF vars, dimmer
  <2>8. QED
    BY <2>2, <2>3, <2>4, <2>5, <2>6, <2>7 DEF Next, Receive
<1>3. QED
  BY <1>1, <1>2, DimmerInvariant, PTL DEF Spec

(* The lamp does what the controller was told last, unless the user holds  *)
(* the button (LightSwitchAC.ino:160-183,228-240,305-324).                 *)
THEOREM DimmerStatusTold == Spec => []StatusTold
<1>1. DimmerInv => StatusTold
  BY DEF DimmerInv, StatusTold
<1>2. QED
  BY <1>1, DimmerInvariant, PTL

(* The lamp grows brighter than its limit only under a long press          *)
(* (LightSwitchAC.ino:160-183,243-261).                                    *)
THEOREM DimmerLimitKept == Spec => LimitKept
<1>1. DimmerInv => (DimmerStep /\ actual' < actual => actual' >= limit \/ press = "LONG")
  BY DEF DimmerInv, DimmerStep, Level, DIMMER_LOW
<1>2. QED
  BY <1>1, DimmerInvariant, PTL DEF LimitKept

(* The limit survives a restart, brought into range                        *)
(* (LightSwitchAC.ino:206-226,305-311).                                    *)
THEOREM DimmerLimitSurvives == Spec => LimitSurvives
<1>1. DimmerInv => (Restart => limit' = Restored(limit))
  BY DEF DimmerInv, Restart
<1>2. QED
  BY <1>1, DimmerInvariant, PTL DEF LimitSurvives

(* A short press on a lamp at rest toggles it, whoever brought it there     *)
(* (LightSwitchAC.ino:142-158,172-177).                                    *)
THEOREM DimmerShortPressToggles == Spec => ShortPressToggles
<1>1. ASSUME DimmerInv, ButtonProcess, Callback(press, press') = "SHORT_RELEASE",
             actual = target, limit # DIMMER_HIGH
      PROVE  status' = IF status = "on" THEN "off" ELSE "on"
  <2>1. press # "LONG"
    BY <1>1 DEF ButtonProcess, Polled, Callback
  <2>2. /\ button_direction' = change_button_direction(limit, DIMMER_HIGH)
        /\ status' = IF button_direction' THEN "off" ELSE "on"
    BY <1>1 DEF ButtonProcess, on_btn_short_release, dimmer_switch
  <2>3. CASE status = "on"
    <3>1. actual = limit /\ ~(limit >= DIMMER_HIGH)
      BY <1>1, <2>1, <2>3, DimmerAssumption DEF DimmerInv, Level
    <3>2. QED
      BY <1>1, <2>2, <2>3, <3>1, DimmerAssumption DEF change_button_direction, DimmerInv, Level
  <2>4. CASE status # "on"
    <3>1. actual = DIMMER_HIGH
      BY <1>1, <2>1, <2>4 DEF DimmerInv
    <3>2. QED
      BY <1>1, <2>2, <2>4, <3>1, DimmerAssumption DEF change_button_direction
  <2>5. QED
    BY <2>3, <2>4
<1>2. QED
  BY <1>1, DimmerInvariant, PTL DEF ShortPressToggles

-----------------------------------------------------------------------------
\* The whole.

TriacProofs == INSTANCE PhaseCut_proofs

\* The interrupts are stuttering steps of the control.
LEMMA SwitchControls == SwitchSpec => Spec
<1>1. SwitchInit => Init
  BY DEF SwitchInit
<1>2. [SwitchNext]_switch_vars => [Next]_vars
  BY DEF SwitchNext, MoveLamp, Wait, Button, Message, Interrupt, PowerCycle, Next, switch_vars
<1>3. QED
  BY <1>1, <1>2, PTL DEF SwitchSpec, Spec

(* Between two interrupts the main loop moves the level by one unit at     *)
(* most, and within its range: all that the proofs about the triac ask of  *)
(* it (LightSwitchAC.ino:185-261).                                         *)
THEOREM SwitchImplementsPhaseCut == SwitchSpec => ImplementsPhaseCut
<1>1. SwitchInit => Triac!Init
  BY DEF SwitchInit
<1>2. DimmerInv /\ [SwitchNext]_switch_vars => [Triac!Next]_(Triac!vars)
  <2> SUFFICES ASSUME DimmerInv, SwitchNext \/ UNCHANGED switch_vars
               PROVE  Triac!Next \/ UNCHANGED Triac!vars
    OBVIOUS
  <2> USE DEF Triac!vars, triac
  <2>1. CASE MoveLamp
    <3>1. actual' \in {actual - 1, actual + 1} \cap Level
      BY <2>1, DimmerAssumption DEF MoveLamp, DimmerStep, DimmerInv, Level, DIMMER_LOW
    <3>2. Triac!DimmerStep
      BY <2>1, <3>1 DEF MoveLamp, Triac!DimmerStep, Triac!Level, Triac!DIMMER_LOW,
                        Level, DIMMER_LOW
    <3>3. QED
      BY <3>2 DEF Triac!Next
  <2>2. CASE Wait
    BY <2>2 DEF Wait, DimmerWait, dimmer
  <2>3. CASE Button
    BY <2>3 DEF Button, ButtonProcess
  <2>4. CASE Message
    BY <2>4 DEF Message, Receive, ReceiveLevel, ReceiveLight
  <2>5. CASE Interrupt
    BY <2>5 DEF Interrupt, Triac!Next
  <2>6. CASE PowerCycle
    BY <2>6 DEF PowerCycle, Restart, Triac!Restart, Triac!Next
  <2>7. CASE UNCHANGED switch_vars
    BY <2>7 DEF switch_vars, vars, dimmer
  <2>8. QED
    BY <2>1, <2>2, <2>3, <2>4, <2>5, <2>6, <2>7 DEF SwitchNext
<1>3. QED
  BY <1>1, <1>2, SwitchControls, DimmerInvariant, PTL
  DEF SwitchSpec, ImplementsPhaseCut, Triac!Spec

\* The two instances of PhaseCut are the same specification.
LEMMA TriacInstances == Triac!Spec => TriacProofs!Spec
<1>1. Triac!Init => TriacProofs!Init
  BY DEF Triac!Init, TriacProofs!Init
<1>2. [Triac!Next]_(Triac!vars) => [TriacProofs!Next]_(TriacProofs!vars)
  BY DEF Triac!Next, TriacProofs!Next, Triac!vars, TriacProofs!vars,
         Triac!DimmerStep, TriacProofs!DimmerStep, Triac!Restart, TriacProofs!Restart,
         Triac!on_zero_cross_detect, TriacProofs!on_zero_cross_detect,
         Triac!on_timer_dim_check, TriacProofs!on_timer_dim_check,
         Triac!Fire, TriacProofs!Fire, Triac!Count, TriacProofs!Count,
         Triac!Skip, TriacProofs!Skip, Triac!Level, TriacProofs!Level,
         Triac!DIMMER_LOW, TriacProofs!DIMMER_LOW
<1>3. QED
  BY <1>1, <1>2, PTL DEF Triac!Spec, TriacProofs!Spec

(* Every variable of the light switch stays in its range: the counter of   *)
(* the interrupt, too, whatever the control does to the level              *)
(* (LightSwitchAC.ino:185-261).                                            *)
THEOREM SwitchTypes == SwitchSpec => []SwitchTypeOK
<1>1. TriacProofs!Spec => []TriacProofs!TypeOK
  BY TriacProofs!PhaseTypeOK, DimmerAssumption, PhaseAssumption
  DEF TriacProofs!PhaseTypeOK
<1>2. TypeOK /\ TriacProofs!TypeOK => SwitchTypeOK
  BY DEF SwitchTypeOK, TriacProofs!TypeOK, Triac!TypeOK, Triac!Level, TriacProofs!Level,
         Triac!DIMMER_LOW, TriacProofs!DIMMER_LOW
<1>3. QED
  BY <1>1, <1>2, SwitchControls, DimmerTypeOK, TriacInstances, SwitchImplementsPhaseCut, PTL
  DEF ImplementsPhaseCut

(* A level from DIMMER_MAX on that the loop leaves alone for a half wave   *)
(* is fired one step after it was counted (LightSwitchAC.ino:192-204).     *)
THEOREM SwitchFiresInTime == SwitchSpec => []FiresInTime
<1>1. TriacProofs!Spec => []TriacProofs!FiresInTime
  BY TriacProofs!PhaseFiresInTime, DimmerAssumption, PhaseAssumption
  DEF TriacProofs!PhaseFiresInTime
<1>2. TriacProofs!FiresInTime => FiresInTime
  BY DEF TriacProofs!FiresInTime, Triac!FiresInTime, FiresInTime
<1>3. QED
  BY <1>1, <1>2, TriacInstances, SwitchImplementsPhaseCut, PTL DEF ImplementsPhaseCut

(* The gate never rises before the lowest level the dimmer had in the half *)
(* wave, also when the loop moves the level under the counter              *)
(* (LightSwitchAC.ino:185-204).                                            *)
THEOREM SwitchFiresAtAngle == SwitchSpec => FiresAtAngle
<1>1. TriacProofs!Spec => TriacProofs!FiresAtAngle
  BY TriacProofs!PhaseFiresAtAngle, DimmerAssumption, PhaseAssumption
  DEF TriacProofs!PhaseFiresAtAngle
<1>2. [gate # gate' /\ gate' => since_cross' > lowest]_(TriacProofs!vars) =>
        [gate # gate' /\ gate' => since_cross' > lowest]_(Triac!vars)
  BY DEF TriacProofs!vars, Triac!vars
<1>3. QED
  BY <1>1, <1>2, TriacInstances, SwitchImplementsPhaseCut, PTL
  DEF ImplementsPhaseCut, TriacProofs!FiresAtAngle, Triac!FiresAtAngle, FiresAtAngle

(* The lamp does what the controller was told last, also with the          *)
(* interrupts running (LightSwitchAC.ino:160-183,228-240,305-324).         *)
THEOREM SwitchStatusTold == SwitchSpec => []StatusTold
BY SwitchControls, DimmerStatusTold, PTL

(* Under the interrupts, too, the limit is kept and survives a restart, and *)
(* a short press toggles the lamp (LightSwitchAC.ino:142-183,206-261).      *)
THEOREM SwitchKeepsControl == SwitchSpec => LimitKept /\ LimitSurvives /\ ShortPressToggles
BY SwitchControls, DimmerLimitKept, DimmerLimitSurvives, DimmerShortPressToggles
=============================================================================
