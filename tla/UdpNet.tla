-------------------------------- MODULE UdpNet --------------------------------
(***************************************************************************)
(* The datagrams in flight between the ncp processes and rcv. Every send   *)
(* of both programs goes through sendto_dbg, which drops datagrams at      *)
(* random; the IP network below it may also lose, delay, reorder and       *)
(* duplicate them. A channel is a set: any datagram may arrive next, and   *)
(* an arrival may leave a duplicate behind.                                *)
(***************************************************************************)
EXTENDS FileHelper

VARIABLES
  toRcv,   \* net_pkt datagrams on their way to rcv
  toNcp    \* ack_pkt datagrams on their way to an ncp

netVars == <<toRcv, toNcp>>

NetInit == toRcv = {} /\ toNcp = {}

NetTypeOK == (\A m \in toRcv : IsNetPkt(m)) /\ toNcp \subseteq AckPkt

(* The channel after recvfrom has returned datagram m, which the network    *)
(* may or may not have duplicated.                                          *)
Received(net, m) == {net, net \ {m}}

(* sendto_dbg claims success and drops the datagram (rand() <= cutoff), or  *)
(* the network loses it on the way.                                         *)
LoseData ==
  /\ \E m \in toRcv : toRcv' = toRcv \ {m}
  /\ UNCHANGED toNcp

LoseAck ==
  /\ \E m \in toNcp : toNcp' = toNcp \ {m}
  /\ UNCHANGED toRcv
===============================================================================
