------------------------------ MODULE PhaseCut ------------------------------
(***************************************************************************)
(* sketches/LightSwitchAC: the two interrupts that drive the triac, under  *)
(* a main loop that moves the dimmer's level at any time. The gate goes    *)
(* low at every zero crossing of the mains; a timer counts the steps since *)
(* then and puts it high when they reach the level. Interrupts do not      *)
(* nest, and the level is one byte, read in one access.                    *)
(*                                                                         *)
(* A half wave is HalfWave timer steps, or one less: the timer is not      *)
(* synchronous with the mains. LightSwitch composes this module with the   *)
(* control of the lamp.                                                    *)
(***************************************************************************)
EXTENDS DimmerLevels

VARIABLES
  actual,         \* dimmer.actual
  zero_cross,
  step_counter,
  gate,           \* PIN_OUT_AC is HIGH
  since_cross,    \* history: timer steps since the last zero crossing
  lowest,         \* history: the lowest level since then
  steady          \* history: the level has not moved since then

vars == <<actual, zero_cross, step_counter, gate, since_cross, lowest, steady>>

TypeOK ==
  /\ actual \in Level
  /\ zero_cross \in BOOLEAN
  /\ step_counter \in Level
  /\ gate \in BOOLEAN
  /\ since_cross \in 0 .. HalfWave
  /\ lowest \in Level
  /\ steady \in BOOLEAN

\* The sketch starts switched off and anywhere in a half wave.
Init ==
  /\ actual = DIMMER_HIGH
  /\ zero_cross = FALSE /\ step_counter = 0 /\ gate = FALSE
  /\ since_cross \in 0 .. HalfWave
  /\ lowest = DIMMER_HIGH /\ steady = FALSE

\* reset() and eeprom_restore() of the next start.
Restart ==
  /\ actual' = DIMMER_HIGH
  /\ zero_cross' = FALSE /\ step_counter' = 0 /\ gate' = FALSE
  /\ since_cross' \in 0 .. HalfWave
  /\ lowest' = DIMMER_HIGH /\ steady' = FALSE

\* dimmer_process() of the main loop.
DimmerStep ==
  /\ actual' \in {actual - 1, actual + 1} \cap Level
  /\ lowest' = IF actual' < lowest THEN actual' ELSE lowest
  /\ steady' = FALSE
  /\ UNCHANGED <<zero_cross, step_counter, gate, since_cross>>

\* Faulty: the steps of the last half wave are not forgotten.
on_zero_cross_keeps_count ==
  /\ since_cross >= HalfWave - 1
  /\ zero_cross' = TRUE
  /\ gate' = FALSE
  /\ since_cross' = 0 /\ lowest' = actual /\ steady' = TRUE
  /\ UNCHANGED <<actual, step_counter>>

on_zero_cross_detect ==
  /\ since_cross >= HalfWave - 1
  /\ zero_cross' = TRUE
  /\ step_counter' = 0
  /\ gate' = FALSE
  /\ since_cross' = 0 /\ lowest' = actual /\ steady' = TRUE
  /\ UNCHANGED actual

\* Faulty: one step too early.
FireEarly ==
  /\ zero_cross /\ actual >= DIMMER_MAX
  /\ step_counter + 1 >= actual
  /\ gate' = TRUE
  /\ step_counter' = 0
  /\ zero_cross' = FALSE

Fire ==
  /\ zero_cross /\ actual >= DIMMER_MAX
  /\ step_counter >= actual
  /\ gate' = TRUE
  /\ step_counter' = 0
  /\ zero_cross' = FALSE

\* Faulty: counting goes on at the level.
CountPast ==
  /\ zero_cross /\ actual >= DIMMER_MAX
  /\ step_counter' = step_counter + 1
  /\ UNCHANGED <<zero_cross, gate>>

Count ==
  /\ zero_cross /\ actual >= DIMMER_MAX
  /\ step_counter < actual
  /\ step_counter' = step_counter + 1
  /\ UNCHANGED <<zero_cross, gate>>

Skip ==
  /\ ~(zero_cross /\ actual >= DIMMER_MAX)
  /\ UNCHANGED <<zero_cross, step_counter, gate>>

on_timer_dim_check ==
  /\ since_cross < HalfWave
  /\ since_cross' = since_cross + 1
  /\ Fire \/ Count \/ Skip
  /\ UNCHANGED <<actual, lowest, steady>>

Next == DimmerStep \/ on_zero_cross_detect \/ on_timer_dim_check \/ Restart

Spec == Init /\ [][Next]_vars

-----------------------------------------------------------------------------

(* The gate never rises early: more steps than the lowest level the dimmer *)
(* had in this half wave have passed since the zero crossing, whatever the *)
(* main loop did to the level in between (LightSwitchAC.ino:185-204).      *)
FiresAtAngle ==
  [][gate # gate' /\ gate' => since_cross' > lowest]_vars

(* A level from DIMMER_MAX on that did not move is fired in time: one step *)
(* after it was counted the gate is high until the next zero crossing      *)
(* (LightSwitchAC.ino:192-204).                                            *)
FiresInTime ==
  steady /\ actual >= DIMMER_MAX =>
    IF since_cross > actual THEN gate /\ ~zero_cross
    ELSE ~gate /\ zero_cross /\ step_counter = since_cross
=============================================================================
