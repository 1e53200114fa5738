------------------------------ MODULE Parsing ------------------------------
(***************************************************************************)
(* sketches/Kitchen/Parsing.cpp: a V_VAR1 payload "mode,field,..." turned  *)
(* into a command. A payload is a record: its mode letter, the number of   *)
(* fields, the colour fields and the time field. A colour field has the    *)
(* right length or not and stands for a value of every channel of the      *)
(* light (letters that are no hex digits give 0, not an error). A time     *)
(* field fits, is too short for a fade, or overflows unsigned long.        *)
(*                                                                         *)
(* strtol() and strtoul() report an overflow by setting errno, which       *)
(* nothing in the sketch ever clears: every later conversion reads it.     *)
(***************************************************************************)
EXTENDS Naturals

LimitCommands == {"LIGHT_SET_EXT_LIMIT", "LIGHT_SET_BUTTON_LIMIT"}
TransitionCommands == {"TRANSITION_ONE_SHOT", "TRANSITION_LOOP"}
Command == LimitCommands \cup TransitionCommands \cup {"NONE"}

\* string_to_rgb(), string_to_white(): the length is looked at first.
ColorParses(field, errno) == field.length_ok /\ ~errno

parse_cmd_set_limit(p, errno) == p.count = 1 /\ ColorParses(p.start, errno)

\* The time is converted last, when the colours were accepted.
ReachesTime(p, errno) ==
  /\ p.count = 3
  /\ ColorParses(p.start, errno)
  /\ ColorParses(p.stop, errno)

parse_cmd_transition(p, errno) == ReachesTime(p, errno) /\ p.time = "fits"

\* The command carried out, NONE when the payload is refused.
parse_command(p, errno) ==
  IF \/ p.mode \in LimitCommands /\ parse_cmd_set_limit(p, errno)
     \/ p.mode \in TransitionCommands /\ parse_cmd_transition(p, errno)
  THEN p.mode ELSE "NONE"

\* errno after the payload was parsed.
ErrnoAfter(p, errno) ==
  errno \/ (p.mode \in TransitionCommands /\ ReachesTime(p, errno) /\ p.time = "overflow")

\* A payload as the README describes it.
WellFormed(p) == parse_command(p, FALSE) # "NONE"
=============================================================================
