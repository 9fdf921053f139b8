------------------------------ MODULE FileHelper ------------------------------
(***************************************************************************)
(* proj1/utils/file_helper.cpp and packet.h: how ncp cuts the source file  *)
(* into net_pkt records.                                                   *)
(*                                                                         *)
(* The bytes of a file are abstracted to the interval of the file they     *)
(* come from, so "the right data in the right place" stays visible while   *)
(* the characters do not.                                                  *)
(***************************************************************************)
EXTENDS Integers

CONSTANTS
  Senders,      \* the ncp processes, each one a UDP source address
  FileSize,     \* bytes of the source file of each ncp
  PKT_DT_SIZE,  \* payload bytes of a full packet (1355 in the code)
  W_SIZE,       \* packets in the send window (10 on a LAN, 45 on a WAN)
  Fnames,       \* names of destination files
  d_fname       \* destination file name of each ncp

ASSUME PacketAssumption ==
  /\ FileSize \in [Senders -> Nat]
  /\ PKT_DT_SIZE \in Nat \ {0}
  /\ W_SIZE \in Nat \ {0}
  /\ d_fname \in [Senders -> Fnames]

(* ftell(f) before the k-th call of fetch_next: fill_win numbers packets in *)
(* the order in which it fetches them, so the read position follows the seq.*)
ftell(k) == (k - 1) * PKT_DT_SIZE

(* fetch_next for packet k of sender s: the payload size with the bound     *)
(* check for the last packet, the bytes read, and whether the read reached  *)
(* the end of the file (after which both FILE handles are closed).          *)
dt_size(s, k) ==
  IF FileSize[s] - ftell(k) < PKT_DT_SIZE THEN FileSize[s] - ftell(k)
                                          ELSE PKT_DT_SIZE

is_end(s, k) == ftell(k) + dt_size(s, k) >= FileSize[s]

fetch_next(s, k) == [src |-> s, off |-> ftell(k), len |-> dt_size(s, k)]

(* The net_pkt that fill_win builds with sequence number k. The source      *)
(* address is what recvfrom reports for the datagram.                       *)
net_pkt(s, k) ==
  [src |-> s, seq |-> k, data |-> fetch_next(s, k), w_size |-> W_SIZE,
   is_end |-> is_end(s, k), d_fname |-> d_fname[s]]

(* The ack_pkt that rcv sends to dst. data_size only feeds the statistics.  *)
ack_pkt(dst, cum_seq, is_nack) ==
  [dst |-> dst, cum_seq |-> cum_seq, is_nack |-> is_nack]

Chunk  == [src : Senders, off : Int, len : Int]
AckPkt == [dst : Senders, cum_seq : Int, is_nack : BOOLEAN]

(* m is a datagram that some ncp has built, unaltered.                      *)
IsNetPkt(m) ==
  /\ m.src \in Senders
  /\ m.seq \in Nat \ {0}
  /\ m = net_pkt(m.src, m.seq)
===============================================================================
