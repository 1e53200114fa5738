----------------------------- MODULE DimmerLevels -----------------------------
(***************************************************************************)
(* sketches/LightSwitchAC: the levels of the dimmer, which its control and *)
(* its interrupts share, and the constants they are made of.               *)
(***************************************************************************)
EXTENDS Integers

CONSTANTS
  DIMMER_MAX,    \* 100
  DIMMER_HIGH,   \* 120
  ByteSize,      \* 256
  HalfWave       \* 133: 10 ms in steps of FREQ_STEP us

ASSUME DimmerAssumption ==
  /\ DIMMER_MAX \in Nat /\ DIMMER_HIGH \in Nat /\ ByteSize \in Nat
  /\ 0 < DIMMER_MAX /\ DIMMER_MAX < DIMMER_HIGH /\ DIMMER_HIGH < ByteSize

ASSUME PhaseAssumption ==
  /\ DIMMER_MAX \in Nat /\ DIMMER_HIGH \in Nat /\ HalfWave \in Nat
  /\ 0 < DIMMER_MAX /\ DIMMER_MAX < DIMMER_HIGH
  /\ DIMMER_HIGH + 2 < HalfWave

DIMMER_LOW == 0
Level == DIMMER_LOW .. DIMMER_HIGH
=============================================================================
