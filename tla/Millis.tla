------------------------------- MODULE Millis -------------------------------
(***************************************************************************)
(* The Arduino millisecond clock as the sketches use it: an unsigned       *)
(* counter that starts at zero and wraps (after 2^32 ms on the AVR), read  *)
(* with millis() and compared by an unsigned subtraction.                  *)
(***************************************************************************)
EXTENDS Integers

CONSTANT ClockWrap    \* number of values of the clock: 2^32 on the device

ASSUME ClockWrapAssumption == ClockWrap \in Nat /\ ClockWrap > 1

Clock == 0 .. (ClockWrap - 1)

\* The value of millis() one millisecond after c.
NextTick(c) == IF c + 1 = ClockWrap THEN 0 ELSE c + 1

\* now - then on unsigned long: the distance modulo the wrap.
Elapsed(now, then) == IF now >= then THEN now - then ELSE now - then + ClockWrap
=============================================================================
