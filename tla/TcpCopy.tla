-------------------------------- MODULE TcpCopy --------------------------------
(***************************************************************************)
(* The TCP benchmark of proj1: t_ncp processes and one t_rcv.              *)
(***************************************************************************)
EXTENDS TNcp, TRcv

tcpVars == <<tnVars, trVars, tcpNetVars>>

TcpInit == TcpNetInit /\ TnInit /\ TrInit

Connect  == \E c \in TcpSenders : TnConnect(c) /\ UNCHANGED trVars
Read     == \E c \in TcpSenders : TnRead(c) /\ UNCHANGED trVars
Send     == \E c \in TcpSenders : TnSend(c) /\ UNCHANGED trVars
Finish   == \E c \in TcpSenders : TnFinish(c) /\ UNCHANGED trVars
Killed   == \E c \in TcpSenders : TnKilled(c) /\ UNCHANGED trVars
Select   == TrSelect /\ UNCHANGED tnVars
Part     == (\E n \in 1 .. HDR + MSG : TrPart(n)) /\ UNCHANGED tnVars
Length   == (\E n \in 1 .. HDR : TrLength(n)) /\ UNCHANGED tnVars
Write    == (\E n \in 0 .. MSG : TrWrite(n)) /\ UNCHANGED tnVars
Close    == TrClosed /\ UNCHANGED tnVars

TcpNext ==
  \/ Connect \/ Read \/ Send \/ Finish \/ Killed
  \/ Select \/ Part \/ Length \/ Write \/ Close

TcpSpec == TcpInit /\ [][TcpNext]_tcpVars

(* Fairness: the scheduler runs both programs, and TCP delivers.            *)
TcpFairSpec ==
  /\ TcpSpec
  /\ WF_tcpVars(Select \/ Part \/ Length \/ Write \/ Close)
  /\ \A c \in TcpSenders :
       WF_tcpVars((TnRead(c) \/ TnSend(c) \/ TnFinish(c)) /\ UNCHANGED trVars)

(***************************************************************************)
(* Properties.                                                             *)
(***************************************************************************)
(* The variables have their types.                                          *)
TcpTypeOK == TcpNetTypeOK /\ TnTypeOK /\ TrTypeOK

(* The bytes of c's file that have been written are its first ones, in the  *)
(* order of the file, each of them once.                                    *)
InOrder(c) ==
  \A i \in DOMAIN out : out[i][1] = c =>
    /\ out[i][2] \in 1 .. Size[c]
    /\ \A h \in 1 .. i - 1 : out[h][1] = c => out[h][2] < out[i][2]
    /\ \A k \in 1 .. out[i][2] : \E h \in 1 .. i : out[h] = <<c, k>>

(* t_rcv never mistakes data for a length or a length for data, however the *)
(* calls of send and recv cut the stream and however the connections        *)
(* interleave: every length that it reads is a possible one, a message fits *)
(* into mess_buf, and of each sender it has written the first bytes of its  *)
(* file, in order and each once (t_rcv.cpp:110-181).                        *)
EachInOrder ==
  /\ TcpTypeOK
  /\ \A i \in DOMAIN out : out[i][1] \in TcpSenders
  /\ \A c \in TcpSenders : InOrder(c)

(* When t_rcv has closed the connection of a t_ncp that ended by itself,    *)
(* the whole file of it has been written.                                   *)
ClosedMeansCopied ==
  \A i \in DOMAIN socks :
    i \notin Valid /\ tn_pc[socks[i]] = "exit" =>
      \A k \in 1 .. Size[socks[i]] : \E h \in DOMAIN out : out[h] = <<socks[i], k>>

(* Every transfer that begins ends: t_rcv closes the connection, unless it  *)
(* has used the output file after closing it.                               *)
EveryTransferEnds ==
  \A c \in TcpSenders :
    tn_pc[c] = "run" ~> ( \/ \E i \in DOMAIN socks : socks[i] = c /\ i \notin Valid
                          \/ tr_pc = "undefined" )
===============================================================================
