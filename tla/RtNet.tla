--------------------------------- MODULE RtNet ---------------------------------
(***************************************************************************)
(* What rt_srv and rt_rcv of proj2 share: the packet formats, the UDP      *)
(* network between them and the clock.                                     *)
(*                                                                         *)
(* A channel is the set of all datagrams ever sent on it, and receiving    *)
(* one does not remove it. So a datagram may be lost (never received),     *)
(* delayed, overtaken and duplicated.                                      *)
(*                                                                         *)
(* One clock serves both hosts. rt_rcv only compares differences of its    *)
(* own clock and time stamps of the sender with delta, which was obtained  *)
(* from such a difference, so a constant offset between the two clocks     *)
(* cancels out.                                                            *)
(***************************************************************************)
EXTENDS Integers

CONSTANTS
  Clients,   \* the rt_rcv processes, each one a UDP address
  Num_msgs,  \* messages that udp_stream sends
  W_SIZE,    \* packets that rt_rcv asks for at a time (80 in the code)
  LATENCY,   \* latency window, in ticks (1000 ms in the code)
  Boot,      \* clock reading when the programs start: the uptime of the host
  MaxClock   \* bound on the clock, for model checking

ASSUME RtAssumption ==
  /\ Num_msgs \in Nat
  /\ W_SIZE \in Nat \ {0}
  /\ LATENCY \in Nat
  /\ Boot \in Nat /\ MaxClock \in Nat

VARIABLES
  toSrv,    \* ack_pkt datagrams sent to rt_srv
  toClient, \* net_pkt datagrams sent to an rt_rcv
  now       \* what Time::now() returns

rtNetVars == <<toSrv, toClient, now>>

RtNetInit == toSrv = {} /\ toClient = {} /\ now = Boot

(* seq 0xffffffff, the rejection.                                           *)
REJECT == -1

(* The payload of packet k is the k-th message of the stream.               *)
net_pkt(dst, seq, ts) == [dst |-> dst, seq |-> seq, senderTS |-> ts]

(* The code sends the seq 0 of an ack_pkt as the request of Phase I.        *)
ack_pkt(src, seq, is_nack) == [src |-> src, seq |-> seq, is_nack |-> is_nack]

RtNetTypeOK ==
  /\ toSrv \subseteq [src : Clients, seq : Nat, is_nack : BOOLEAN]
  /\ toClient \subseteq [dst : Clients, seq : Nat \cup {REJECT}, senderTS : Nat]
  /\ now \in Nat

Tick == now < MaxClock /\ now' = now + 1 /\ UNCHANGED <<toSrv, toClient>>
===============================================================================
