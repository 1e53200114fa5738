----------------------------- MODULE MCKitchen -----------------------------
(***************************************************************************)
(* Small kitchens: one or two colour channels and the white one, colours   *)
(* 0 to 2 (2 stands for 255), and a handful of payloads for each question  *)
(* that together reach every command of the parser.                        *)
(***************************************************************************)
EXTENDS Kitchen

OneColor == <<"R">>
TwoColors == <<"R", "G">>

Value(r, g, w) == [c \in Channel |-> CASE c = "R" -> r [] c = "G" -> g [] OTHER -> w]
Field(v) == [length_ok |-> TRUE, color |-> v]
BadField == [length_ok |-> FALSE, color |-> Value(0, 0, 0)]

Payload(mode, count, start, stop, time) ==
  [mode |-> mode, count |-> count, start |-> start, stop |-> stop, time |-> time]
Limit(mode, v) == Payload(mode, 1, Field(v), BadField, "fits")

Loop == Payload("TRANSITION_LOOP", 3,
                Field(Value(0, 0, 0)), Field(Value(MaxColor, 0, 0)), "fits")

\* A loop in which both channels move.
TwoMove == Payload("TRANSITION_LOOP", 3,
                   Field(Value(1, 0, 0)), Field(Value(0, 1, 0)), "fits")

\* A transition in which one channel moves.
OneShot == Payload("TRANSITION_ONE_SHOT", 3,
                   Field(Value(0, 1, 0)), Field(Value(MaxColor, 1, 1)), "fits")

\* The end of the transition is missing a digit.
Refused == Payload("TRANSITION_ONE_SHOT", 3, Field(Value(0, 0, 0)), BadField, "fits")

\* For the limits.
LimitPayloads == [
  Color |-> {Limit("LIGHT_SET_EXT_LIMIT", Value(1, 0, 0)),
             Limit("LIGHT_SET_BUTTON_LIMIT", Value(0, 0, 0)), Loop},
  White |-> {Limit("LIGHT_SET_EXT_LIMIT", Value(0, 0, 1)),
             Limit("LIGHT_SET_BUTTON_LIMIT", Value(0, 0, 0)), Refused}]

\* For the transitions.
TransitionPayloads == [
  Color |-> {TwoMove, OneShot},
  White |-> {OneShot, Refused}]

\* For liveness.
LoopOnly == [Color |-> {Loop}, White |-> {}]

\* For errno: a limit, and a transition with a time that strtoul() refuses.
LimitAndOverflow == [
  Color |-> {Limit("LIGHT_SET_EXT_LIMIT", Value(1, 0, 0))},
  White |-> {Payload("TRANSITION_ONE_SHOT", 3,
                     Field(Value(0, 0, 0)), Field(Value(0, 0, 1)), "overflow")}]
=============================================================================
