---------------------------- MODULE MCAtCommand ----------------------------
(***************************************************************************)
(* AtCommand with a time-out of two polls and a five-cell WIFI_CMD, which  *)
(* an answer line and one unsolicited character fill and two overflow.     *)
(***************************************************************************)
EXTENDS AtCommand
=============================================================================
