--------------------------------- MODULE RtRcv ---------------------------------
(***************************************************************************)
(* proj2/rt_rcv.cpp, the receiving half of the real-time transport, and    *)
(* the application it delivers to, proj2/udp_stream_rcv.cpp: one pair per  *)
(* element of Clients. One action per path through the select loop; each   *)
(* ends with the delivery of the packets whose time has come, unless the   *)
(* code continues before it.                                               *)
(*                                                                         *)
(* As in RtSrv, Op_word stands before Op and is a faulty variant of it.    *)
(***************************************************************************)
EXTENDS RtNet

VARIABLES
  rt_pc,         \* "run", or "exit" after a rejection
  cum_seq,       \* next seq to receive; 0 before the calibration
  delta,         \* measured one-way delay, 0xffff before the calibration
  rt_timetable,  \* map from senderTS to the seq of the packet with it
  rt_window,     \* seqs of the cached packets
  app_pc,        \* udp_stream_rcv: "run" or "exit"
  last_rcvd      \* udp_stream_rcv: seq of the last message received

rcvVars == <<rt_pc, cum_seq, delta, rt_timetable, rt_window, app_pc, last_rcvd>>

NoDelta == 65535

RtRcvInit ==
  /\ rt_pc = [c \in Clients |-> "run"]
  /\ cum_seq = [c \in Clients |-> 0]
  /\ delta = [c \in Clients |-> NoDelta]
  /\ rt_timetable = [c \in Clients |-> [t \in {} |-> 0]]
  /\ rt_window = [c \in Clients |-> {}]
  /\ app_pc = [c \in Clients |-> "run"]
  /\ last_rcvd = [c \in Clients |-> 0]

RtRcvTypeOK ==
  /\ rt_pc \in [Clients -> {"run", "exit"}]
  /\ cum_seq \in [Clients -> Nat]
  /\ delta \in [Clients -> Int]
  /\ DOMAIN rt_timetable = Clients
  /\ \A c \in Clients : \A t \in DOMAIN rt_timetable[c] : rt_timetable[c][t] \in Nat
  /\ rt_window \in [Clients -> SUBSET Nat]
  /\ app_pc \in [Clients -> {"run", "exit"}]
  /\ last_rcvd \in [Clients -> Nat]

IsTop(k, S) == k \in S /\ \A j \in S : j <= k

(* udp_stream_rcv gets the packets seqs in ascending order. It exits when   *)
(* recvfrom returns an empty datagram, which is what a packet of seq 0 is.  *)
AppReceives(c, seqs) ==
  \/ /\ app_pc[c] = "run" /\ 0 \in seqs
     /\ app_pc' = [app_pc EXCEPT ![c] = "exit"]
     /\ UNCHANGED last_rcvd
  \/ /\ app_pc[c] = "run" /\ 0 \notin seqs
     /\ \E k \in seqs : IsTop(k, seqs) /\ last_rcvd' = [last_rcvd EXCEPT ![c] = k]
     /\ UNCHANGED app_pc
  \/ /\ app_pc[c] = "exit" \/ seqs = {}
     /\ UNCHANGED <<app_pc, last_rcvd>>

(* "DELIVER timed-out pkts to app": remove the expired entries tt of the    *)
(* time table, deliver every cached packet up to the highest seq among      *)
(* them, and skip what is still missing below it. app_cum_seq is always 0.  *)
Expired(c, tt) == {t \in DOMAIN tt : now - t > delta[c] + LATENCY}

NextSeq(top, next) == IF next > 0 /\ top >= next THEN top + 1 ELSE next

Deliver(c, tt, win, next) ==
  \E top \in {0} \cup {tt[t] : t \in Expired(c, tt)} :
    /\ IsTop(top, {0} \cup {tt[t] : t \in Expired(c, tt)})
    /\ rt_timetable' = [rt_timetable EXCEPT ![c] = [t \in DOMAIN tt \ Expired(c, tt) |-> tt[t]]]
    /\ rt_window' = [rt_window EXCEPT ![c] = {k \in win : k > top}]
    /\ cum_seq' = [cum_seq EXCEPT ![c] = NextSeq(top, next)]
    /\ AppReceives(c, {k \in win : k <= top})

(* BLOCKED BY SVR.                                                          *)
RtRejected(m) ==
  /\ m.seq = REJECT
  /\ rt_pc' = [rt_pc EXCEPT ![m.dst] = "exit"]
  /\ UNCHANGED <<cum_seq, delta, rt_timetable, rt_window, app_pc, last_rcvd, rtNetVars>>

(* Phase I: the first packet of any kind gives delta, and is dropped.       *)
Calibrating(m) == cum_seq[m.dst] = 0 /\ delta[m.dst] = NoDelta

RtCalibrate(m) ==
  /\ m.seq # REJECT
  /\ Calibrating(m)
  /\ delta' = [delta EXCEPT ![m.dst] = now - m.senderTS]
  /\ cum_seq' = [cum_seq EXCEPT ![m.dst] = 1]
  /\ UNCHANGED <<rt_pc, rt_timetable, rt_window, app_pc, last_rcvd, rtNetVars>>

(* "cache for timed delivery".                                              *)
CachedAt(m) == [t \in DOMAIN rt_timetable[m.dst] \cup {m.senderTS} |->
                  IF t = m.senderTS THEN m.seq ELSE rt_timetable[m.dst][t]]

CachedWith(m) == rt_window[m.dst] \cup {m.seq}

(* Phase II, SEQUENTIAL: next is the first seq that is not cached, but at   *)
(* most W_SIZE further; everything before it is acknowledged.               *)
FirstMissing(c, next) ==
  /\ next \in cum_seq[c] + 1 .. cum_seq[c] + 1 + W_SIZE
  /\ \A k \in cum_seq[c] + 1 .. next - 1 : k \in rt_window[c]
  /\ next \notin rt_window[c] \/ next = cum_seq[c] + 1 + W_SIZE

AckSeq_highest(c, next) ==
  CHOOSE k \in rt_window[c] \cup {next - 1} : \A j \in rt_window[c] : j <= k

AckSeq(c, next) == next - 1

RtSequential(m) ==
  LET c == m.dst IN
  /\ m.seq # REJECT
  /\ ~Calibrating(m)
  /\ m.seq = cum_seq[c]
  /\ \E next \in cum_seq[c] + 1 .. cum_seq[c] + 1 + W_SIZE :
       /\ FirstMissing(c, next)
       /\ toSrv' = toSrv \cup {ack_pkt(c, AckSeq(c, next), FALSE)}
       /\ Deliver(c, CachedAt(m), CachedWith(m), next)
  /\ UNCHANGED <<rt_pc, delta, toClient, now>>

(* Phase II, any other packet: cache it.                                    *)
RtCache(m) ==
  /\ m.seq # REJECT
  /\ ~Calibrating(m)
  /\ m.seq # cum_seq[m.dst]
  /\ Deliver(m.dst, CachedAt(m), CachedWith(m), cum_seq[m.dst])
  /\ UNCHANGED <<rt_pc, delta, toSrv, toClient, now>>

(* select times out: SEND NACKS. Before the calibration the nack of seq 0   *)
(* is the request of Phase I.                                               *)
Missing_late(c) == (cum_seq[c] + 1 .. cum_seq[c] + W_SIZE) \ rt_window[c]

Missing(c) == (cum_seq[c] .. cum_seq[c] + W_SIZE - 1) \ rt_window[c]

RtTimeout(c) ==
  /\ rt_pc[c] = "run"
  /\ toSrv' = toSrv \cup {ack_pkt(c, k, TRUE) : k \in Missing(c)}
  /\ Deliver(c, rt_timetable[c], rt_window[c], cum_seq[c])
  /\ UNCHANGED <<rt_pc, delta, toClient, now>>

RtReceive(m) ==
  /\ rt_pc[m.dst] = "run"
  /\ RtRejected(m) \/ RtCalibrate(m) \/ RtSequential(m) \/ RtCache(m)
===============================================================================
