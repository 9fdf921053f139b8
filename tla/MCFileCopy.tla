------------------------------ MODULE MCFileCopy ------------------------------
(***************************************************************************)
(* Instances of FileCopy for TLC. Packets carry 2 bytes, so a file of 7    *)
(* bytes has three full packets and a short one, and with a window of 2    *)
(* the window slides twice.                                                *)
(***************************************************************************)
EXTENDS FileCopy, TLC

CONSTANTS a, b

OneSize == a :> 7
ShortSizes == a :> 3 @@ b :> 1
TwoSizes == a :> 3 @@ b :> 3
OneName == a :> "fa"
TwoNames == a :> "fa" @@ b :> "fb"
===============================================================================
