------------------------------ MODULE MCRtStream ------------------------------
(***************************************************************************)
(* Instances of RtStream for TLC.                                          *)
(***************************************************************************)
EXTENDS RtStream

CONSTANTS c1, c2
===============================================================================
