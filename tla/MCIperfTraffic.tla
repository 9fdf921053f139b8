------------------------------ MODULE MCIperfTraffic ------------------------------
(***************************************************************************)
(* IperfTraffic on small instances: a datagram is one byte, the clock goes *)
(* in seconds or half seconds, and the rate is low enough that the bound   *)
(* on the datagrams does not hide the pacing.                              *)
(***************************************************************************)
EXTENDS IperfTraffic
===============================================================================
