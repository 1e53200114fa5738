-------------------------- MODULE ButtonCallbacks --------------------------
(***************************************************************************)
(* The callbacks of a push button as the sketches see them: what was last  *)
(* reported of the press in progress, and which callback goes with a       *)
(* change of it.                                                           *)
(***************************************************************************)

Status == {"NONE", "SHORT", "LONG"}
Event == {"none", "SHORT_PRESS", "LONG_PRESS", "SHORT_RELEASE", "LONG_RELEASE"}

\* The statuses one poll can lead to. From NONE to LONG when the polls were
\* too far apart to see the short press; a long press only ends.
Polled(status) ==
  CASE status = "NONE" -> {"NONE", "SHORT", "LONG"}
    [] status = "SHORT" -> {"SHORT", "LONG", "NONE"}
    [] status = "LONG" -> {"LONG", "NONE"}

\* The callback a poll makes.
Callback(from, to) ==
  CASE from = to -> "none"
    [] from # to /\ to = "SHORT" -> "SHORT_PRESS"
    [] from # to /\ to = "LONG" -> "LONG_PRESS"
    [] from = "SHORT" /\ to = "NONE" -> "SHORT_RELEASE"
    [] from = "LONG" /\ to = "NONE" -> "LONG_RELEASE"
=============================================================================
