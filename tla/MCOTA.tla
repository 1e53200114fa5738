-------------------------------- MODULE MCOTA --------------------------------
(***************************************************************************)
(* Three firmwares of different sizes for one node.                        *)
(***************************************************************************)
EXTENDS OTA

Sizes == <<1, 2, 3>>
=============================================================================
