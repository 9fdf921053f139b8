------------------------------ MODULE MCIperfTest ------------------------------
(***************************************************************************)
(* Instances of IperfTest for TLC.                                         *)
(***************************************************************************)
EXTENDS IperfTest

CONSTANTS p, q

(* p sends over one stream and skips the first seconds; q sends and         *)
(* receives, with options that make the server listen anew.                 *)
ModeOf == [c \in Clients |-> IF c = p THEN "SENDER" ELSE "BIDIRECTIONAL"]
StreamsOf == [c \in Clients |-> 1]
OmitOf == [c \in Clients |-> c = p]
===============================================================================
