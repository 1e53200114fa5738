----------------------------- MODULE LightSwitch -----------------------------
(***************************************************************************)
(* sketches/LightSwitchAC as a whole: its main loop (LightSwitchAC), which *)
(* the two interrupts of the triac (PhaseCut) may interrupt between any    *)
(* two of its steps. They share dimmer.actual.                             *)
(***************************************************************************)
EXTENDS LightSwitchAC

VARIABLES zero_cross, step_counter, gate, since_cross, lowest, steady

Triac == INSTANCE PhaseCut

triac == <<zero_cross, step_counter, gate, since_cross, lowest, steady>>
switch_vars == <<vars, triac>>

SwitchInit == Init /\ Triac!Init

\* The loop moves the level under the interrupts.
MoveLamp ==
  /\ DimmerStep
  /\ lowest' = IF actual' < lowest THEN actual' ELSE lowest
  /\ steady' = FALSE
  /\ UNCHANGED <<zero_cross, step_counter, gate, since_cross>>

\* Steps of the loop that leave the level alone.
Wait == DimmerWait /\ UNCHANGED triac
Button == ButtonProcess /\ UNCHANGED triac
Message == Receive /\ UNCHANGED triac

\* The control does not see the interrupts.
Interrupt ==
  /\ Triac!on_zero_cross_detect \/ Triac!on_timer_dim_check
  /\ UNCHANGED vars

\* The power is lost; reset() and eeprom_restore() come before the interrupts.
PowerCycle ==
  /\ Restart
  /\ zero_cross' = FALSE /\ step_counter' = 0 /\ gate' = FALSE
  /\ since_cross' \in 0 .. HalfWave
  /\ lowest' = actual' /\ steady' = FALSE

SwitchNext == MoveLamp \/ Wait \/ Button \/ Message \/ Interrupt \/ PowerCycle

SwitchSpec == SwitchInit /\ [][SwitchNext]_switch_vars

\* The fairness of the control: interrupts are short.
FairSwitch ==
  /\ SwitchSpec
  /\ WF_switch_vars(MoveLamp \/ Wait)
  /\ SF_switch_vars(MoveLamp)
  /\ WF_switch_vars(Button)

-----------------------------------------------------------------------------

SwitchTypeOK == TypeOK /\ Triac!TypeOK

(* The main loop is for the triac what PhaseCut takes it for: between two  *)
(* interrupts the level moves by one unit at most, and never out of range, *)
(* unless the node starts anew (LightSwitchAC.ino:185-261).                *)
ImplementsPhaseCut == Triac!Spec

(* See PhaseCut: the gate never rises early, in whatever half wave, though *)
(* the loop moves the level under the counter (LightSwitchAC.ino:185-204). *)
FiresAtAngle == Triac!FiresAtAngle

(* See PhaseCut: a level from DIMMER_MAX on that the loop leaves alone for *)
(* a half wave is fired one step after it was counted                      *)
(* (LightSwitchAC.ino:192-204).                                            *)
FiresInTime == Triac!FiresInTime
=============================================================================
