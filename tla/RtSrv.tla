--------------------------------- MODULE RtSrv ---------------------------------
(***************************************************************************)
(* proj2/rt_srv.cpp, the sending half of the real-time transport. It       *)
(* caches what the application sends and transmits a packet only when a    *)
(* client asks for it with a nack.                                         *)
(*                                                                         *)
(* In one pass of the select loop the server handles a datagram of a       *)
(* client, a message of the application, or one of each, in this order and *)
(* with one data_pkt for both. Its senderTS is set in the client branch    *)
(* only. If no client datagram is there, it keeps what malloc returned:    *)
(* no block of that size is ever freed, so this is fresh memory and zero,  *)
(* the epoch of the clock.                                                 *)
(*                                                                         *)
(* A definition Op_word that stands before Op is a faulty variant of it: a *)
(* bug this code could plausibly have, which some property must notice.    *)
(***************************************************************************)
EXTENDS RtNet

CONSTANT NoClient   \* curr_client_addr before the first request

ASSUME NoClientAssumption == NoClient \notin Clients

VARIABLES
  srv_pc,         \* "run", or "hung" in a loop over an empty map
  srv_timetable,  \* time of the first request for a packet, by seq
  srv_window,     \* cached packets: senderTS by seq
  srv_cum_seq,    \* highest seq acknowledged
  cache_seq,      \* seq of the next message of the application
  curr_client     \* the client that has been accepted

srvVars == <<srv_pc, srv_timetable, srv_window, srv_cum_seq, cache_seq,
             curr_client>>

Empty == [k \in {} |-> 0]

SrvInit ==
  /\ srv_pc = "run"
  /\ srv_timetable = Empty
  /\ srv_window = Empty
  /\ srv_cum_seq = 0
  /\ cache_seq = 1
  /\ curr_client = NoClient

IsMap(f) == \A k \in DOMAIN f : k \in Nat /\ f[k] \in Nat

SrvTypeOK ==
  /\ srv_pc \in {"run", "hung"}
  /\ IsMap(srv_timetable) /\ IsMap(srv_window)
  /\ srv_cum_seq \in Nat
  /\ cache_seq \in Nat \ {0}
  /\ curr_client \in Clients \cup {NoClient}

With(f, k, v) == [i \in DOMAIN f \cup {k} |-> IF i = k THEN v ELSE f[i]]

(* The application branch: nothing has come, or the next message of the     *)
(* stream is cached with the senderTS that data_pkt has at this point.      *)
NoMessage(win) == srv_window' = win /\ UNCHANGED cache_seq

CacheMessage(win, ts) ==
  /\ cache_seq <= Num_msgs
  /\ srv_window' = With(win, cache_seq, ts)
  /\ cache_seq' = cache_seq + 1

AppBranch(win, ts) == NoMessage(win) \/ CacheMessage(win, ts)

(* Phase I: a request while another client is connected is rejected, any    *)
(* other is answered with the time stamp. The reply has seq 0: its seq is   *)
(* never set.                                                               *)
IsExtra(m) == curr_client # NoClient /\ curr_client # m.src

SrvReject(m) ==
  /\ m.seq = 0
  /\ IsExtra(m)
  /\ toClient' = toClient \cup {net_pkt(m.src, REJECT, now)}
  /\ AppBranch(srv_window, now)
  /\ UNCHANGED <<srv_pc, srv_timetable, srv_cum_seq, curr_client, toSrv, now>>

SrvCalibrate(m) ==
  /\ m.seq = 0
  /\ ~IsExtra(m)
  /\ toClient' = toClient \cup {net_pkt(m.src, 0, now)}
  /\ curr_client' = m.src
  /\ AppBranch(srv_window, now)
  /\ UNCHANGED <<srv_pc, srv_timetable, srv_cum_seq, toSrv, now>>

(* Phase II, a nack of a cached packet: send it. timetable keeps the time   *)
(* of the first request, but it is copied into data_pkt and not into the    *)
(* packet that is sent.                                                     *)
Requested(m) == m.seq \in DOMAIN srv_timetable

FirstRequest_never(m) == srv_timetable

FirstRequest(m) ==
  IF Requested(m) THEN srv_timetable ELSE With(srv_timetable, m.seq, now)

SrvNack(m) ==
  /\ m.seq # 0
  /\ m.is_nack
  /\ m.seq \in DOMAIN srv_window
  /\ srv_timetable' = FirstRequest(m)
  /\ toClient' = toClient \cup {net_pkt(m.src, m.seq, srv_window[m.seq])}
  /\ AppBranch(srv_window, IF Requested(m) THEN srv_timetable[m.seq] ELSE now)
  /\ UNCHANGED <<srv_pc, srv_cum_seq, curr_client, toSrv, now>>

(* A nack of a packet that is not cached, or an ack that is not new.        *)
SrvIgnore(m) ==
  /\ m.seq # 0
  /\ IF m.is_nack THEN m.seq \notin DOMAIN srv_window ELSE srv_cum_seq >= m.seq
  /\ AppBranch(srv_window, now)
  /\ UNCHANGED <<srv_pc, srv_timetable, srv_cum_seq, curr_client, rtNetVars>>

(* A new ack: "remove useless cache". Both loops erase from the front until *)
(* the front is not below seq.                                              *)
IsNewAck(m) == m.seq # 0 /\ ~m.is_nack /\ srv_cum_seq < m.seq

Kept(f, seq) == [k \in {i \in DOMAIN f : i >= seq} |-> f[k]]

Stops(f, seq) == \E k \in DOMAIN f : k >= seq

SrvAck(m) ==
  /\ IsNewAck(m)
  /\ Stops(srv_timetable, m.seq) /\ Stops(srv_window, m.seq)
  /\ srv_cum_seq' = m.seq
  /\ srv_timetable' = Kept(srv_timetable, m.seq)
  /\ AppBranch(Kept(srv_window, m.seq), now)
  /\ UNCHANGED <<srv_pc, curr_client, rtNetVars>>

(* If a loop removes the last entry, begin() is end(), whose first reads as *)
(* the size of the map, zero, and erasing it never returns.                 *)
SrvHang(m) ==
  /\ IsNewAck(m)
  /\ ~(Stops(srv_timetable, m.seq) /\ Stops(srv_window, m.seq))
  /\ srv_pc' = "hung"
  /\ UNCHANGED <<srv_timetable, srv_window, srv_cum_seq, cache_seq,
                 curr_client, rtNetVars>>

(* A pass with a message of the application and none of a client.           *)
SrvApp ==
  /\ CacheMessage(srv_window, 0)
  /\ UNCHANGED <<srv_pc, srv_timetable, srv_cum_seq, curr_client, rtNetVars>>

SrvClient(m) ==
  /\ srv_pc = "run"
  /\ \/ SrvReject(m) \/ SrvCalibrate(m) \/ SrvNack(m)
     \/ SrvIgnore(m) \/ SrvAck(m) \/ SrvHang(m)
===============================================================================
