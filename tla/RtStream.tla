-------------------------------- MODULE RtStream --------------------------------
(***************************************************************************)
(* The real-time transport of proj2: one rt_srv with its udp_stream, and   *)
(* the rt_rcv processes with their udp_stream_rcv.                         *)
(***************************************************************************)
EXTENDS RtSrv, RtRcv

rtVars == <<srvVars, rcvVars, rtNetVars>>

RtInit == SrvInit /\ RtRcvInit /\ RtNetInit

Request   == \E m \in toSrv : srv_pc = "run" /\ (SrvReject(m) \/ SrvCalibrate(m)) /\ UNCHANGED rcvVars
Resend    == \E m \in toSrv : srv_pc = "run" /\ SrvNack(m) /\ UNCHANGED rcvVars
Ignore    == \E m \in toSrv : srv_pc = "run" /\ SrvIgnore(m) /\ UNCHANGED rcvVars
Acked     == \E m \in toSrv : srv_pc = "run" /\ (SrvAck(m) \/ SrvHang(m)) /\ UNCHANGED rcvVars
Message   == srv_pc = "run" /\ SrvApp /\ UNCHANGED rcvVars
Rejected  == \E m \in toClient : rt_pc[m.dst] = "run" /\ RtRejected(m) /\ UNCHANGED srvVars
Calibrate == \E m \in toClient : rt_pc[m.dst] = "run" /\ RtCalibrate(m) /\ UNCHANGED srvVars
InOrder   == \E m \in toClient : rt_pc[m.dst] = "run" /\ RtSequential(m) /\ UNCHANGED srvVars
OutOfOrder == \E m \in toClient : rt_pc[m.dst] = "run" /\ RtCache(m) /\ UNCHANGED srvVars
Timeout   == \E c \in Clients : RtTimeout(c) /\ UNCHANGED srvVars
Clock     == Tick /\ UNCHANGED <<srvVars, rcvVars>>

RtNext ==
  \/ Request \/ Resend \/ Ignore \/ Acked \/ Message
  \/ Rejected \/ Calibrate \/ InOrder \/ OutOfOrder \/ Timeout
  \/ Clock

RtSpec == RtInit /\ [][RtNext]_rtVars

(***************************************************************************)
(* Fairness, for progress. The select of rt_rcv times out again and again, *)
(* as each batch of nacks is answered by finitely many packets. A request  *)
(* that is repeated reaches the server one day, the answer to it reaches   *)
(* the client, and so do the nack of the next packet and that packet.      *)
(* Which packet is the next changes with cum_seq, so this is strong        *)
(* fairness.                                                               *)
(***************************************************************************)
Served(c) ==
  /\ SF_rtVars(\E m \in toSrv : m.src = c /\ m.seq = cum_seq[c] /\ SrvClient(m) /\ UNCHANGED rcvVars)
  /\ SF_rtVars(Calibrate)
  /\ SF_rtVars(\E m \in toClient : m.dst = c /\ rt_pc[c] = "run" /\ RtSequential(m) /\ UNCHANGED srvVars)

RtFairness ==
  \A c \in Clients : WF_rtVars(RtTimeout(c) /\ UNCHANGED srvVars) /\ Served(c)

RtFairSpec == RtSpec /\ RtFairness

(***************************************************************************)
(* Properties.                                                             *)
(***************************************************************************)
(* The variables have their types: in particular every seq that a client    *)
(* acknowledges, caches or delivers is a natural number.                    *)
RtTypeOK == SrvTypeOK /\ RtRcvTypeOK /\ RtNetTypeOK

(* The server never walks off the end of one of its maps: an ack that is    *)
(* new names a packet that is still in the cache and in the time table,     *)
(* whichever client it comes from and however late it is.                   *)
ServerNeverHangs == srv_pc = "run"

(* What a client has not received and not skipped can still be asked for:   *)
(* the server removes from its cache only what is useless.                  *)
NeededIsCached ==
  \A c \in Clients : rt_pc[c] = "run" =>
    \A k \in 1 .. cache_seq - 1 : k >= cum_seq[c] => k \in DOMAIN srv_window

(* Every message that the server has cached gets past every client that     *)
(* stays: it is received, or skipped because a later one was delivered.     *)
EveryMessagePasses ==
  \A c \in Clients : \A k \in 1 .. Num_msgs :
    (cache_seq > k) ~> (cum_seq[c] > k \/ rt_pc[c] = "exit")

(* The application sees the messages in the order of the stream: a message  *)
(* is never followed by one that was sent before it.                        *)
DeliveredInOrder == [][\A c \in Clients : last_rcvd'[c] >= last_rcvd[c]]_rtVars

(***************************************************************************)
(* The inductive invariants behind the theorems of RtProofs.               *)
(***************************************************************************)
(* The server has been asked for packet k and still has it, or k has been   *)
(* acknowledged.                                                            *)
Known(k) ==
  k > srv_cum_seq => k \in DOMAIN srv_timetable /\ k \in DOMAIN srv_window

(* Whatever is acknowledged, on its way or cached by a client is known.     *)
KnownInv ==
  /\ ServerNeverHangs
  /\ \A m \in toSrv : ~m.is_nack => Known(m.seq)
  /\ \A m \in toClient : Known(m.seq)
  /\ \A c \in Clients : \A k \in rt_window[c] : Known(k)

(* With a single client c: what has been acknowledged is behind cum_seq,    *)
(* and the server keeps everything from the last acknowledged packet on.    *)
BehindInv(c) ==
  /\ cum_seq[c] = 0 => delta[c] = NoDelta /\ srv_cum_seq = 0
  /\ cum_seq[c] > 0 => srv_cum_seq < cum_seq[c]
  /\ \A m \in toSrv : ~m.is_nack => m.seq < cum_seq[c]
  /\ \A k \in 1 .. cache_seq - 1 : k >= srv_cum_seq => k \in DOMAIN srv_window

LoneClientInv == \A c \in Clients : BehindInv(c)
===============================================================================
