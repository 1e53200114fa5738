--------------------------- MODULE PhaseCut_proofs ---------------------------
(***************************************************************************)
(* Proofs about the triac interrupts, for every pair of levels and every   *)
(* length of the half wave that PhaseAssumption allows.                    *)
(***************************************************************************)
EXTENDS PhaseCut, TLAPS

(* A reset and a loop that leaves the interrupts alone keep the types.      *)
LEMMA PhaseTypeOutside ==
  ASSUME TypeOK, DimmerStep \/ Restart \/ UNCHANGED vars
  PROVE  TypeOK'
<1> USE PhaseAssumption DEF TypeOK, Level, DIMMER_LOW
<1>1. CASE Restart
  <2>1. actual' \in Level /\ step_counter' \in Level /\ lowest' \in Level
    BY <1>1 DEF Restart
  <2>2. zero_cross' \in BOOLEAN /\ gate' \in BOOLEAN /\ steady' \in BOOLEAN
    BY <1>1 DEF Restart
  <2>3. QED
    BY <1>1, <2>1, <2>2 DEF Restart
<1>2. CASE DimmerStep
  BY <1>2 DEF DimmerStep
<1>3. QED
  BY <1>1, <1>2 DEF vars

(* So do the two interrupts; the timer's counts no further than the level.  *)
LEMMA PhaseTypeInterrupts ==
  ASSUME TypeOK, on_zero_cross_detect \/ on_timer_dim_check
  PROVE  TypeOK'
<1> USE PhaseAssumption DEF TypeOK, Level, DIMMER_LOW
<1>1. CASE on_zero_cross_detect
  <2>1. step_counter' \in Level /\ since_cross' \in 0 .. HalfWave /\ actual' \in Level
    BY <1>1 DEF on_zero_cross_detect
  <2>2. zero_cross' \in BOOLEAN /\ gate' \in BOOLEAN /\ steady' \in BOOLEAN
    BY <1>1 DEF on_zero_cross_detect
  <2>3. QED
    BY <1>1, <2>1, <2>2 DEF on_zero_cross_detect
<1>2. CASE on_timer_dim_check
  <2>1. step_counter' \in Level
    BY <1>2 DEF on_timer_dim_check, Fire, Count, Skip
  <2>2. zero_cross' \in BOOLEAN /\ gate' \in BOOLEAN
    BY <1>2, Zenon DEF on_timer_dim_check, Fire, Count, Skip
  <2>3. QED
    BY <1>2, <2>1, <2>2 DEF on_timer_dim_check
<1>3. QED
  BY <1>1, <1>2

(* The step counter never passes the highest level, whatever the main loop *)
(* does to the level while it counts (LightSwitchAC.ino:192-204).          *)
THEOREM PhaseTypeOK == Spec => []TypeOK
<1>1. ASSUME Init PROVE TypeOK
  <2> USE <1>1, PhaseAssumption DEF Init, TypeOK, Level, DIMMER_LOW
  <2>1. actual \in Level /\ step_counter \in Level /\ lowest \in Level
    OBVIOUS
  <2>2. zero_cross \in BOOLEAN /\ gate \in BOOLEAN /\ steady \in BOOLEAN
    OBVIOUS
  <2>3. QED
    BY <2>1, <2>2
<1>2. TypeOK /\ [Next]_vars => TypeOK'
  BY PhaseTypeOutside, PhaseTypeInterrupts DEF Next
<1>3. QED
  BY <1>1, <1>2, PTL DEF Spec

(* While it counts, the counter is never ahead of the zero crossing; it    *)
(* may be behind, when the level was below DIMMER_MAX for a while.         *)
CountBehind ==
  /\ zero_cross => step_counter <= since_cross
  /\ lowest <= actual

LEMMA CountBehindKept == TypeOK /\ CountBehind /\ [Next]_vars => CountBehind'
<1> SUFFICES ASSUME TypeOK, CountBehind, [Next]_vars PROVE CountBehind'
  OBVIOUS
<1> USE PhaseAssumption DEF CountBehind, TypeOK, Level, DIMMER_LOW
<1>1. CASE on_timer_dim_check
  BY <1>1 DEF on_timer_dim_check, Fire, Count, Skip
<1>2. CASE on_zero_cross_detect \/ Restart
  BY <1>2 DEF on_zero_cross_detect, Restart
<1>3. CASE DimmerStep \/ UNCHANGED vars
  BY <1>3 DEF DimmerStep, vars
<1>4. QED
  BY <1>1, <1>2, <1>3 DEF Next

LEMMA PhaseCountBehind == Spec => []CountBehind
<1>1. Init => CountBehind
  BY PhaseAssumption DEF Init, CountBehind, Level, DIMMER_LOW
<1>2. QED
  BY <1>1, CountBehindKept, PhaseTypeOK, PTL DEF Spec

(* The gate never rises before the angle of the lowest level the dimmer    *)
(* had in the half wave (LightSwitchAC.ino:185-204).                       *)
THEOREM PhaseFiresAtAngle == Spec => FiresAtAngle
<1>1. TypeOK /\ CountBehind /\ [Next]_vars =>
        (gate # gate' /\ gate' => since_cross' > lowest)
  <2> SUFFICES ASSUME TypeOK, CountBehind, [Next]_vars, gate # gate', gate'
               PROVE  since_cross' > lowest
    OBVIOUS
  <2>1. on_timer_dim_check /\ Fire
    BY DEF Next, DimmerStep, on_zero_cross_detect, on_timer_dim_check, Count, Skip, Restart, vars, TypeOK
  <2>2. QED
    BY <2>1 DEF on_timer_dim_check, Fire, CountBehind, TypeOK, Level, DIMMER_LOW
<1>2. QED
  BY <1>1, PhaseTypeOK, PhaseCountBehind, PTL DEF Spec, FiresAtAngle

LEMMA FiresInTimeKept == TypeOK /\ FiresInTime /\ [Next]_vars => FiresInTime'
<1> SUFFICES ASSUME TypeOK, FiresInTime, [Next]_vars PROVE FiresInTime'
  OBVIOUS
<1> USE PhaseAssumption DEF FiresInTime
<1>1. CASE on_timer_dim_check
  BY <1>1 DEF on_timer_dim_check, Fire, Count, Skip, TypeOK, Level, DIMMER_LOW
<1>2. CASE on_zero_cross_detect
  BY <1>2 DEF on_zero_cross_detect, TypeOK, Level, DIMMER_LOW
<1>3. CASE DimmerStep \/ Restart
  BY <1>3 DEF DimmerStep, Restart
<1>4. vars' = vars => FiresInTime'
  BY DEF vars
<1>5. QED
  BY <1>1, <1>2, <1>3, <1>4 DEF Next

(* A level from DIMMER_MAX on that did not move in the half wave is fired  *)
(* exactly one step after it was counted (LightSwitchAC.ino:192-204).      *)
THEOREM PhaseFiresInTime == Spec => []FiresInTime
<1>1. Init => FiresInTime
  BY PhaseAssumption DEF Init, FiresInTime
<1>2. QED
  BY <1>1, FiresInTimeKept, PhaseTypeOK, PTL DEF Spec
=============================================================================
