-------------------------------- MODULE RtProofs --------------------------------
(***************************************************************************)
(* Theorems about the real-time transport: the server never hangs, for any *)
(* number of clients, and with one client it never removes a packet from   *)
(* its cache that the client may still ask for.                            *)
(***************************************************************************)
EXTENDS RtStream, TLAPS

(* What the delivery at the end of a pass of client c does: it moves cum_seq *)
(* forward, takes packets out of the window and leaves other clients alone.  *)
LEMMA DeliverFacts ==
  ASSUME RtTypeOK, NEW c \in Clients, NEW tt, NEW win \in SUBSET Nat, NEW next \in Nat,
         \A t \in DOMAIN tt : tt[t] \in Nat,
         Deliver(c, tt, win, next)
  PROVE  /\ RtRcvTypeOK' <=> rt_pc' \in [Clients -> {"run", "exit"}] /\ delta' \in [Clients -> Int]
         /\ rt_window'[c] \subseteq win
         /\ cum_seq'[c] \in Nat
         /\ cum_seq'[c] >= next
         /\ next = 0 => cum_seq'[c] = 0
         /\ \A d \in Clients \ {c} : rt_window'[d] = rt_window[d] /\ cum_seq'[d] = cum_seq[d]
<1> DEFINE tops == {0} \cup {tt[t] : t \in Expired(c, tt)}
<1>1. PICK top \in tops :
        /\ IsTop(top, tops)
        /\ rt_timetable' = [rt_timetable EXCEPT ![c] = [t \in DOMAIN tt \ Expired(c, tt) |-> tt[t]]]
        /\ rt_window' = [rt_window EXCEPT ![c] = {k \in win : k > top}]
        /\ cum_seq' = [cum_seq EXCEPT ![c] = NextSeq(top, next)]
        /\ AppReceives(c, {k \in win : k <= top})
  BY DEF Deliver
<1>2. top \in Nat
  BY DEF Expired
<1>3. /\ NextSeq(top, next) \in Nat
      /\ NextSeq(top, next) >= next
      /\ next = 0 => NextSeq(top, next) = 0
  BY <1>2 DEF NextSeq
<1>4. /\ cum_seq \in [Clients -> Nat]
      /\ rt_window \in [Clients -> SUBSET Nat]
      /\ DOMAIN rt_timetable = Clients
      /\ \A d \in Clients : \A t \in DOMAIN rt_timetable[d] : rt_timetable[d][t] \in Nat
      /\ app_pc \in [Clients -> {"run", "exit"}]
      /\ last_rcvd \in [Clients -> Nat]
  BY DEF RtTypeOK, RtRcvTypeOK
<1>5. cum_seq' \in [Clients -> Nat] /\ rt_window' \in [Clients -> SUBSET Nat]
  BY <1>1, <1>3, <1>4
<1>6. /\ DOMAIN rt_timetable' = Clients
      /\ \A d \in Clients : \A t \in DOMAIN rt_timetable'[d] : rt_timetable'[d][t] \in Nat
  <2>1. DOMAIN rt_timetable' = Clients
    BY <1>1, <1>4
  <2>2. ASSUME NEW d \in Clients, d # c
        PROVE  \A t \in DOMAIN rt_timetable'[d] : rt_timetable'[d][t] \in Nat
    BY <1>1, <1>4, <2>2
  <2>3. rt_timetable'[c] = [t \in DOMAIN tt \ Expired(c, tt) |-> tt[t]]
    BY <1>1, <1>4
  <2>4. \A t \in DOMAIN rt_timetable'[c] : rt_timetable'[c][t] \in Nat
    BY <2>3
  <2> QED
    BY <2>1, <2>2, <2>4
<1>7. app_pc' \in [Clients -> {"run", "exit"}] /\ last_rcvd' \in [Clients -> Nat]
  BY <1>1, <1>4 DEF AppReceives, IsTop
<1>8. RtRcvTypeOK' <=> rt_pc' \in [Clients -> {"run", "exit"}] /\ delta' \in [Clients -> Int]
  BY <1>5, <1>6, <1>7 DEF RtRcvTypeOK
<1> QED
  BY <1>1, <1>2, <1>3, <1>4, <1>8

(* The datagrams on the two channels have their types.                       *)
LEMMA PacketTypes ==
  ASSUME RtTypeOK
  PROVE  /\ \A m \in toSrv : m.src \in Clients /\ m.seq \in Nat /\ m.is_nack \in BOOLEAN
         /\ \A m \in toClient : /\ m.dst \in Clients /\ m.senderTS \in Nat
                                /\ m.seq # REJECT => m.seq \in Nat
BY DEF RtTypeOK, RtNetTypeOK

LEMMA AckPktType ==
  ASSUME NEW c \in Clients, NEW k \in Nat, NEW b \in BOOLEAN
  PROVE  ack_pkt(c, k, b) \in [src : Clients, seq : Nat, is_nack : BOOLEAN]
BY DEF ack_pkt

(* What is cached for a packet that is not a rejection has the right type.   *)
LEMMA CachedTypes ==
  ASSUME RtTypeOK, NEW m \in toClient, m.seq # REJECT
  PROVE  /\ CachedWith(m) \in SUBSET Nat
         /\ \A t \in DOMAIN CachedAt(m) : CachedAt(m)[t] \in Nat
BY PacketTypes DEF RtTypeOK, RtRcvTypeOK, CachedWith, CachedAt

(* The actions of a client, with the facts that both invariants need: its    *)
(* cum_seq only grows, its window grows only by the packet it has received,  *)
(* and it acknowledges only a packet below the new cum_seq that it has.      *)
LEMMA TimeoutFacts ==
  ASSUME RtTypeOK, NEW c \in Clients, RtTimeout(c)
  PROVE  /\ RtRcvTypeOK' /\ RtNetTypeOK'
         /\ \A d \in Clients : rt_window'[d] \subseteq rt_window[d]
         /\ cum_seq'[c] \in Nat
         /\ cum_seq'[c] >= cum_seq[c]
         /\ cum_seq[c] = 0 => cum_seq'[c] = 0
         /\ \A d \in Clients \ {c} : cum_seq'[d] = cum_seq[d]
         /\ \A m \in toSrv' : m \in toSrv \/ m.is_nack
         /\ UNCHANGED <<delta, toClient>>
<1>1. /\ rt_window[c] \in SUBSET Nat /\ cum_seq[c] \in Nat
      /\ \A t \in DOMAIN rt_timetable[c] : rt_timetable[c][t] \in Nat
  BY DEF RtTypeOK, RtRcvTypeOK
<1>2. Deliver(c, rt_timetable[c], rt_window[c], cum_seq[c])
  BY DEF RtTimeout
<1>3. RtRcvTypeOK'
  BY <1>1, <1>2, DeliverFacts DEF RtTimeout, RtTypeOK, RtRcvTypeOK
<1>4. \A k \in Missing(c) : k \in Nat
  BY <1>1, RtAssumption DEF Missing
<1>5. \A m \in toSrv' : m \in toSrv \/ m \in {ack_pkt(c, k, TRUE) : k \in Missing(c)}
  BY DEF RtTimeout
<1>6. RtNetTypeOK'
  BY <1>4, <1>5, AckPktType DEF RtTimeout, RtTypeOK, RtNetTypeOK
<1>7. \A m \in toSrv' : m \in toSrv \/ m.is_nack
  BY <1>5 DEF ack_pkt
<1>8. /\ rt_window'[c] \subseteq rt_window[c]
      /\ cum_seq'[c] \in Nat
      /\ cum_seq'[c] >= cum_seq[c]
      /\ cum_seq[c] = 0 => cum_seq'[c] = 0
      /\ \A d \in Clients \ {c} : rt_window'[d] = rt_window[d] /\ cum_seq'[d] = cum_seq[d]
  <2> DEFINE tt == rt_timetable[c]
             win == rt_window[c]
             next == cum_seq[c]
  <2>1. win \in SUBSET Nat /\ next \in Nat /\ \A t \in DOMAIN tt : tt[t] \in Nat
    BY <1>1
  <2>2. Deliver(c, tt, win, next)
    BY <1>2
  <2> HIDE DEF tt, win, next
  <2>3. /\ rt_window'[c] \subseteq win
        /\ cum_seq'[c] \in Nat
        /\ cum_seq'[c] >= next
        /\ next = 0 => cum_seq'[c] = 0
        /\ \A d \in Clients \ {c} : rt_window'[d] = rt_window[d] /\ cum_seq'[d] = cum_seq[d]
    BY <1>1, <2>1, <2>2, DeliverFacts, ZenonT(40)
  <2> QED
    BY <2>3 DEF win, next
<1> QED
  BY <1>3, <1>6, <1>7, <1>8 DEF RtTimeout

LEMMA CacheFacts ==
  ASSUME RtTypeOK, NEW m \in toClient, RtCache(m)
  PROVE  /\ RtRcvTypeOK' /\ RtNetTypeOK'
         /\ \A d \in Clients : rt_window'[d] \subseteq rt_window[d] \cup {m.seq}
         /\ cum_seq'[m.dst] \in Nat
         /\ cum_seq'[m.dst] >= cum_seq[m.dst]
         /\ cum_seq[m.dst] = 0 => cum_seq'[m.dst] = 0
         /\ \A d \in Clients \ {m.dst} : cum_seq'[d] = cum_seq[d]
         /\ UNCHANGED <<delta, toSrv, toClient>>
<1>1. m.dst \in Clients /\ cum_seq[m.dst] \in Nat
  BY PacketTypes DEF RtTypeOK, RtRcvTypeOK
<1>2. m.seq # REJECT /\ Deliver(m.dst, CachedAt(m), CachedWith(m), cum_seq[m.dst])
  BY DEF RtCache
<1>3. /\ CachedWith(m) \in SUBSET Nat
      /\ \A t \in DOMAIN CachedAt(m) : CachedAt(m)[t] \in Nat
  BY <1>2, CachedTypes
<1>4. RtRcvTypeOK'
  BY <1>1, <1>2, <1>3, DeliverFacts DEF RtCache, RtTypeOK, RtRcvTypeOK
<1>5. RtNetTypeOK'
  BY DEF RtCache, RtTypeOK, RtNetTypeOK
<1>6. /\ rt_window'[m.dst] \subseteq CachedWith(m)
      /\ cum_seq'[m.dst] \in Nat
      /\ cum_seq'[m.dst] >= cum_seq[m.dst]
      /\ cum_seq[m.dst] = 0 => cum_seq'[m.dst] = 0
      /\ \A d \in Clients \ {m.dst} : rt_window'[d] = rt_window[d] /\ cum_seq'[d] = cum_seq[d]
  <2> DEFINE c == m.dst
             next == cum_seq[m.dst]
  <2>1. c \in Clients /\ next \in Nat
    BY <1>1
  <2>2. Deliver(c, CachedAt(m), CachedWith(m), next)
    BY <1>2
  <2> HIDE DEF c, next
  <2>3. /\ rt_window'[c] \subseteq CachedWith(m)
        /\ cum_seq'[c] \in Nat
        /\ cum_seq'[c] >= next
        /\ next = 0 => cum_seq'[c] = 0
        /\ \A d \in Clients \ {c} : rt_window'[d] = rt_window[d] /\ cum_seq'[d] = cum_seq[d]
    BY <1>3, <2>1, <2>2, DeliverFacts, SMTT(40)
  <2> QED
    BY <2>3 DEF c, next
<1> QED
  BY <1>1, <1>4, <1>5, <1>6 DEF RtCache, CachedWith

LEMMA SequentialFacts ==
  ASSUME RtTypeOK, NEW m \in toClient, RtSequential(m)
  PROVE  /\ RtRcvTypeOK' /\ RtNetTypeOK'
         /\ \A d \in Clients : rt_window'[d] \subseteq rt_window[d] \cup {m.seq}
         /\ cum_seq'[m.dst] \in Nat
         /\ cum_seq'[m.dst] > cum_seq[m.dst]
         /\ \A d \in Clients \ {m.dst} : cum_seq'[d] = cum_seq[d]
         /\ UNCHANGED <<delta, toClient>>
         /\ \E k \in rt_window[m.dst] \cup {m.seq} :
              k < cum_seq'[m.dst] /\ toSrv' = toSrv \cup {ack_pkt(m.dst, k, FALSE)}
<1>1. /\ m.dst \in Clients /\ cum_seq[m.dst] \in Nat /\ m.seq # REJECT /\ m.seq \in Nat
      /\ rt_window[m.dst] \subseteq Nat
      /\ m.seq = cum_seq[m.dst]
  BY PacketTypes DEF RtTypeOK, RtRcvTypeOK, RtSequential
<1>2. PICK next \in cum_seq[m.dst] + 1 .. cum_seq[m.dst] + 1 + W_SIZE :
        /\ FirstMissing(m.dst, next)
        /\ toSrv' = toSrv \cup {ack_pkt(m.dst, AckSeq(m.dst, next), FALSE)}
        /\ Deliver(m.dst, CachedAt(m), CachedWith(m), next)
  BY DEF RtSequential
<1>3. next \in Nat /\ next > cum_seq[m.dst]
  BY <1>1, <1>2, RtAssumption
<1>4. next - 1 \in rt_window[m.dst] \cup {m.seq} /\ next - 1 \in Nat
  <2>1. CASE next = cum_seq[m.dst] + 1
    BY <1>1, <2>1
  <2>2. CASE next # cum_seq[m.dst] + 1
    <3>1. next - 1 \in cum_seq[m.dst] + 1 .. next - 1
      BY <1>1, <1>2, <2>2, RtAssumption
    <3> QED
      BY <1>1, <1>2, <1>3, <3>1 DEF FirstMissing
  <2> QED
    BY <2>1, <2>2
<1>5. /\ CachedWith(m) \in SUBSET Nat
      /\ \A t \in DOMAIN CachedAt(m) : CachedAt(m)[t] \in Nat
  BY <1>1, CachedTypes
<1>6. RtRcvTypeOK'
  BY <1>1, <1>2, <1>3, <1>5, DeliverFacts DEF RtSequential, RtTypeOK, RtRcvTypeOK
<1>7. RtNetTypeOK'
  BY <1>1, <1>2, <1>4, AckPktType DEF RtSequential, RtTypeOK, RtNetTypeOK, AckSeq
<1>8. /\ rt_window'[m.dst] \subseteq CachedWith(m)
      /\ cum_seq'[m.dst] \in Nat
      /\ cum_seq'[m.dst] >= next
      /\ \A d \in Clients \ {m.dst} : rt_window'[d] = rt_window[d] /\ cum_seq'[d] = cum_seq[d]
  BY <1>1, <1>2, <1>3, <1>5, DeliverFacts
<1>9. \A d \in Clients : rt_window'[d] \subseteq rt_window[d] \cup {m.seq}
  BY <1>1, <1>8 DEF CachedWith
<1>10. next - 1 < cum_seq'[m.dst] /\ cum_seq'[m.dst] > cum_seq[m.dst]
  BY <1>1, <1>3, <1>8
<1> QED
  BY <1>2, <1>4, <1>6, <1>7, <1>8, <1>9, <1>10 DEF RtSequential, AckSeq

(* The application branch of the server caches at most one more message.     *)
LEMMA AppBranchFacts ==
  ASSUME RtTypeOK, NEW win, NEW ts \in Nat, IsMap(win), AppBranch(win, ts)
  PROVE  /\ IsMap(srv_window') /\ cache_seq' \in Nat \ {0}
         /\ \/ cache_seq' = cache_seq /\ DOMAIN srv_window' = DOMAIN win
            \/ cache_seq' = cache_seq + 1 /\ DOMAIN srv_window' = DOMAIN win \cup {cache_seq}
<1>1. CASE NoMessage(win)
  BY <1>1 DEF NoMessage, RtTypeOK, SrvTypeOK
<1>2. CASE CacheMessage(win, ts)
  BY <1>2 DEF CacheMessage, With, IsMap, RtTypeOK, SrvTypeOK, RtNetTypeOK
<1> QED
  BY <1>1, <1>2 DEF AppBranch

(* A datagram that the server sends has its type.                            *)
LEMMA NetPktType ==
  ASSUME NEW c \in Clients, NEW k \in Nat \cup {REJECT}, NEW t \in Nat
  PROVE  net_pkt(c, k, t) \in [dst : Clients, seq : Nat \cup {REJECT}, senderTS : Nat]
BY DEF net_pkt

LEMMA SrvTypes ==
  ASSUME RtTypeOK,
         SrvApp \/ \E m \in toSrv : SrvReject(m) \/ SrvCalibrate(m) \/ SrvNack(m)
                                      \/ SrvIgnore(m) \/ SrvAck(m) \/ SrvHang(m)
  PROVE  SrvTypeOK' /\ RtNetTypeOK'
<1>1. /\ IsMap(srv_timetable) /\ IsMap(srv_window) /\ now \in Nat /\ srv_cum_seq \in Nat
      /\ curr_client \in Clients \cup {NoClient} /\ srv_pc \in {"run", "hung"}
  BY DEF RtTypeOK, SrvTypeOK, RtNetTypeOK
<1>2. CASE SrvApp
  <2>1. AppBranch(srv_window, 0)
    BY <1>2 DEF SrvApp, AppBranch
  <2>2. IsMap(srv_window') /\ cache_seq' \in Nat \ {0}
    BY <1>1, <2>1, AppBranchFacts
  <2> QED
    BY <1>1, <1>2, <2>2 DEF SrvApp, RtTypeOK, SrvTypeOK, RtNetTypeOK, rtNetVars
<1>3. ASSUME NEW m \in toSrv, SrvReject(m) PROVE SrvTypeOK' /\ RtNetTypeOK'
  <2>1. IsMap(srv_window') /\ cache_seq' \in Nat \ {0}
    BY <1>1, <1>3, AppBranchFacts DEF SrvReject
  <2>2. m.src \in Clients
    BY PacketTypes
  <2>3. net_pkt(m.src, REJECT, now)
          \in [dst : Clients, seq : Nat \cup {REJECT}, senderTS : Nat]
    BY <1>1, <2>2, NetPktType
  <2> QED
    BY <1>1, <1>3, <2>1, <2>2, <2>3 DEF SrvReject, RtTypeOK, SrvTypeOK, RtNetTypeOK
<1>4. ASSUME NEW m \in toSrv, SrvCalibrate(m) PROVE SrvTypeOK' /\ RtNetTypeOK'
  <2>1. IsMap(srv_window') /\ cache_seq' \in Nat \ {0}
    BY <1>1, <1>4, AppBranchFacts DEF SrvCalibrate
  <2>2. m.src \in Clients
    BY PacketTypes
  <2>3. net_pkt(m.src, 0, now)
          \in [dst : Clients, seq : Nat \cup {REJECT}, senderTS : Nat]
    BY <1>1, <2>2, NetPktType
  <2> QED
    BY <1>1, <1>4, <2>1, <2>2, <2>3 DEF SrvCalibrate, RtTypeOK, SrvTypeOK, RtNetTypeOK
<1>5. ASSUME NEW m \in toSrv, SrvNack(m) PROVE SrvTypeOK' /\ RtNetTypeOK'
  <2> DEFINE ts == IF Requested(m) THEN srv_timetable[m.seq] ELSE now
  <2>1. ts \in Nat /\ AppBranch(srv_window, ts)
    BY <1>1, <1>5 DEF SrvNack, Requested, IsMap
  <2> HIDE DEF ts
  <2>2. IsMap(srv_window') /\ cache_seq' \in Nat \ {0}
    BY <1>1, <2>1, AppBranchFacts
  <2>3. IsMap(srv_timetable')
    BY <1>1, <1>5, PacketTypes DEF SrvNack, FirstRequest, With, IsMap
  <2>4. net_pkt(m.src, m.seq, srv_window[m.seq])
          \in [dst : Clients, seq : Nat \cup {REJECT}, senderTS : Nat]
    BY <1>1, <1>5, PacketTypes, NetPktType DEF SrvNack, IsMap
  <2> QED
    BY <1>1, <1>5, <2>2, <2>3, <2>4 DEF SrvNack, RtTypeOK, SrvTypeOK, RtNetTypeOK
<1>6. ASSUME NEW m \in toSrv, SrvIgnore(m) PROVE SrvTypeOK' /\ RtNetTypeOK'
  <2>1. IsMap(srv_window') /\ cache_seq' \in Nat \ {0}
    BY <1>1, <1>6, AppBranchFacts DEF SrvIgnore
  <2> QED
    BY <1>1, <1>6, <2>1 DEF SrvIgnore, RtTypeOK, SrvTypeOK, RtNetTypeOK, rtNetVars
<1>7. ASSUME NEW m \in toSrv, SrvAck(m) PROVE SrvTypeOK' /\ RtNetTypeOK'
  <2>1. IsMap(Kept(srv_timetable, m.seq)) /\ IsMap(Kept(srv_window, m.seq))
    BY <1>1 DEF Kept, IsMap
  <2>2. IsMap(srv_window') /\ cache_seq' \in Nat \ {0}
    BY <1>1, <1>7, <2>1, AppBranchFacts DEF SrvAck
  <2> QED
    BY <1>1, <1>7, <2>1, <2>2, PacketTypes DEF SrvAck, RtTypeOK, SrvTypeOK, RtNetTypeOK, rtNetVars
<1>8. ASSUME NEW m \in toSrv, SrvHang(m) PROVE SrvTypeOK' /\ RtNetTypeOK'
  BY <1>1, <1>8 DEF SrvHang, RtTypeOK, SrvTypeOK, RtNetTypeOK, rtNetVars
<1> QED
  BY <1>2, <1>3, <1>4, <1>5, <1>6, <1>7, <1>8

LEMMA NextRtType ==
  ASSUME RtTypeOK, [RtNext]_rtVars
  PROVE  RtTypeOK'
<1>1. CASE Request \/ Resend \/ Ignore \/ Acked \/ Message
  <2>1. SrvTypeOK' /\ RtNetTypeOK'
    BY <1>1, SrvTypes DEF Request, Resend, Ignore, Acked, Message
  <2>2. UNCHANGED rcvVars
    BY <1>1 DEF Request, Resend, Ignore, Acked, Message
  <2> QED
    BY <2>1, <2>2 DEF RtTypeOK, RtRcvTypeOK, rcvVars
<1>2. ASSUME NEW c \in Clients, RtTimeout(c), UNCHANGED srvVars PROVE RtTypeOK'
  <2>1. RtRcvTypeOK' /\ RtNetTypeOK'
    BY <1>2, TimeoutFacts
  <2> QED
    BY <1>2, <2>1 DEF RtTypeOK, SrvTypeOK, srvVars
<1>3. ASSUME NEW m \in toClient, RtCache(m) \/ RtSequential(m), UNCHANGED srvVars PROVE RtTypeOK'
  <2>1. RtRcvTypeOK' /\ RtNetTypeOK'
    BY <1>3, CacheFacts, SequentialFacts
  <2> QED
    BY <1>3, <2>1 DEF RtTypeOK, SrvTypeOK, srvVars
<1>4. ASSUME NEW m \in toClient, RtRejected(m), UNCHANGED srvVars PROVE RtTypeOK'
  BY <1>4 DEF RtRejected, RtTypeOK, SrvTypeOK, RtRcvTypeOK, RtNetTypeOK, srvVars, rtNetVars
<1>5. ASSUME NEW m \in toClient, RtCalibrate(m), UNCHANGED srvVars PROVE RtTypeOK'
  <2>1. now - m.senderTS \in Int
    BY PacketTypes DEF RtTypeOK, RtNetTypeOK
  <2> QED
    BY <1>5, <2>1 DEF RtCalibrate, RtTypeOK, SrvTypeOK, RtRcvTypeOK, RtNetTypeOK, srvVars, rtNetVars
<1>6. CASE Clock
  BY <1>6 DEF Clock, Tick, RtTypeOK, SrvTypeOK, RtRcvTypeOK, RtNetTypeOK, srvVars, rcvVars
<1>7. CASE UNCHANGED rtVars
  BY <1>7 DEF rtVars, RtTypeOK, SrvTypeOK, RtRcvTypeOK, RtNetTypeOK, srvVars, rcvVars, rtNetVars
<1> QED
  BY <1>1, <1>2, <1>3, <1>4, <1>5, <1>6, <1>7
     DEF RtNext, Rejected, Calibrate, InOrder, OutOfOrder, Timeout

(* Type correctness of the real-time transport, for every set of clients,    *)
(* stream length, window and latency.                                        *)
THEOREM RtTypeCorrect == RtSpec => []RtTypeOK
<1>1. RtInit => RtTypeOK
  BY RtAssumption, NoClientAssumption
     DEF RtInit, SrvInit, RtRcvInit, RtNetInit, RtTypeOK, SrvTypeOK, RtRcvTypeOK, RtNetTypeOK,
         IsMap, Empty, NoDelta
<1>2. RtTypeOK /\ [RtNext]_rtVars => RtTypeOK'
  BY NextRtType
<1> QED
  BY <1>1, <1>2, PTL DEF RtSpec

(***************************************************************************)
(* The server never hangs.                                                 *)
(***************************************************************************)
(* A pass of the server other than the hang forgets nothing that is known.   *)
LEMMA ServerKeepsKnown ==
  ASSUME RtTypeOK, NEW k \in Nat, Known(k),
         SrvApp \/ \E m \in toSrv : SrvReject(m) \/ SrvCalibrate(m) \/ SrvNack(m)
                                      \/ SrvIgnore(m) \/ SrvAck(m)
  PROVE  Known(k)'
<1>1. /\ srv_cum_seq \in Nat
      /\ \A f, ts : AppBranch(f, ts) => DOMAIN f \subseteq DOMAIN srv_window'
  BY DEF RtTypeOK, SrvTypeOK, AppBranch, NoMessage, CacheMessage, With
<1>2. CASE SrvApp
  BY <1>1, <1>2 DEF SrvApp, AppBranch, Known
<1>3. ASSUME NEW m \in toSrv, SrvReject(m) \/ SrvCalibrate(m) \/ SrvIgnore(m)
      PROVE  Known(k)'
  BY <1>1, <1>3 DEF SrvReject, SrvCalibrate, SrvIgnore, Known
<1>4. ASSUME NEW m \in toSrv, SrvNack(m) PROVE Known(k)'
  <2>1. DOMAIN srv_timetable \subseteq DOMAIN srv_timetable'
    BY <1>4 DEF SrvNack, FirstRequest, With
  <2> QED
    BY <1>1, <1>4, <2>1 DEF SrvNack, Known
<1>5. ASSUME NEW m \in toSrv, SrvAck(m) PROVE Known(k)'
  <2>1. m.seq \in Nat /\ m.seq > srv_cum_seq /\ srv_cum_seq' = m.seq
    BY <1>1, <1>5, PacketTypes DEF SrvAck, IsNewAck
  <2>2. SUFFICES ASSUME k > m.seq PROVE k \in DOMAIN srv_timetable' /\ k \in DOMAIN srv_window'
    BY <2>1 DEF Known
  <2>3. k \in DOMAIN srv_timetable /\ k \in DOMAIN srv_window
    BY <1>1, <2>1, <2>2 DEF Known
  <2>4. k \in DOMAIN Kept(srv_timetable, m.seq) /\ k \in DOMAIN Kept(srv_window, m.seq)
    BY <2>1, <2>2, <2>3 DEF Kept
  <2> QED
    BY <1>1, <1>5, <2>4 DEF SrvAck
<1> QED
  BY <1>2, <1>3, <1>4, <1>5

(* An ack that names a known packet does not make the server hang.           *)
LEMMA KnownDoesNotHang ==
  ASSUME RtTypeOK, KnownInv, NEW m \in toSrv, SrvHang(m)
  PROVE  FALSE
<1>1. m.seq \in Nat /\ ~m.is_nack /\ m.seq > srv_cum_seq
  BY PacketTypes DEF SrvHang, IsNewAck, RtTypeOK, SrvTypeOK
<1>2. m.seq \in DOMAIN srv_timetable /\ m.seq \in DOMAIN srv_window
  BY <1>1 DEF KnownInv, Known
<1> QED
  BY <1>1, <1>2 DEF SrvHang, Stops

LEMMA ServerKnown ==
  ASSUME RtTypeOK, KnownInv,
         SrvApp \/ \E m \in toSrv : SrvReject(m) \/ SrvCalibrate(m) \/ SrvNack(m)
                                      \/ SrvIgnore(m) \/ SrvAck(m) \/ SrvHang(m),
         UNCHANGED rcvVars
  PROVE  KnownInv'
<1>1. SrvApp \/ \E m \in toSrv : SrvReject(m) \/ SrvCalibrate(m) \/ SrvNack(m)
                                    \/ SrvIgnore(m) \/ SrvAck(m)
  BY KnownDoesNotHang
<1>2. \A k \in Nat : Known(k) => Known(k)'
  BY <1>1, ServerKeepsKnown
<1>3. srv_pc' = "run" /\ toSrv' = toSrv /\ rt_window' = rt_window
  BY <1>1 DEF KnownInv, ServerNeverHangs, SrvApp, SrvReject, SrvCalibrate, SrvNack, SrvIgnore,
              SrvAck, rtNetVars, rcvVars
<1>4. \A m \in toSrv' : ~m.is_nack => Known(m.seq)'
  BY <1>2, <1>3, PacketTypes DEF KnownInv
<1>5. \A c \in Clients : \A k \in rt_window'[c] : Known(k)'
  BY <1>2, <1>3 DEF KnownInv, RtTypeOK, RtRcvTypeOK
<1>6. srv_cum_seq' \in Nat
  BY SrvTypes DEF SrvTypeOK
<1>7. ASSUME NEW m \in toClient' PROVE Known(m.seq)'
  <2>1. CASE m.seq = REJECT \/ m.seq = 0
    BY <1>6, <2>1 DEF Known, REJECT
  <2>2. CASE m \in toClient /\ m.seq # REJECT
    BY <1>2, <2>2, PacketTypes DEF KnownInv
  <2>3. ASSUME NEW a \in toSrv, SrvNack(a), m = net_pkt(a.src, a.seq, srv_window[a.seq])
        PROVE  Known(m.seq)'
    <3>1. /\ m.seq = a.seq
          /\ a.seq \in DOMAIN srv_timetable' /\ a.seq \in DOMAIN srv_window'
      BY <2>3 DEF SrvNack, FirstRequest, Requested, With, net_pkt, AppBranch, NoMessage, CacheMessage
    <3> QED
      BY <3>1 DEF Known
  <2>4. \/ m \in toClient \/ m.seq = REJECT \/ m.seq = 0
        \/ \E a \in toSrv : SrvNack(a) /\ m = net_pkt(a.src, a.seq, srv_window[a.seq])
    BY <1>1 DEF SrvApp, SrvReject, SrvCalibrate, SrvNack, SrvIgnore, SrvAck, rtNetVars, net_pkt
  <2> QED
    BY <2>1, <2>2, <2>3, <2>4
<1> QED
  BY <1>3, <1>4, <1>5, <1>7 DEF KnownInv, ServerNeverHangs

(* What a client acknowledges or caches is a packet it has received.         *)
LEMMA ClientKnown ==
  ASSUME RtTypeOK, KnownInv, UNCHANGED srvVars,
         \/ \E c \in Clients : RtTimeout(c)
         \/ \E m \in toClient : RtRejected(m) \/ RtCalibrate(m) \/ RtSequential(m) \/ RtCache(m)
  PROVE  KnownInv'
<1>1. srv_pc' = "run" /\ \A k : Known(k)' <=> Known(k)
  BY DEF srvVars, Known, KnownInv, ServerNeverHangs
<1>2. ASSUME NEW c \in Clients, RtTimeout(c) PROVE KnownInv'
  <2>1. /\ \A d \in Clients : rt_window'[d] \subseteq rt_window[d]
        /\ \A m \in toSrv' : m \in toSrv \/ m.is_nack
        /\ toClient' = toClient
    BY <1>2, TimeoutFacts
  <2> QED
    BY <1>1, <2>1 DEF KnownInv, ServerNeverHangs
<1>3. ASSUME NEW m \in toClient, RtRejected(m) \/ RtCalibrate(m) PROVE KnownInv'
  BY <1>1, <1>3 DEF RtRejected, RtCalibrate, rtNetVars, KnownInv, ServerNeverHangs
<1>4. ASSUME NEW m \in toClient, RtCache(m) PROVE KnownInv'
  <2>1. /\ \A d \in Clients : rt_window'[d] \subseteq rt_window[d] \cup {m.seq}
        /\ toSrv' = toSrv /\ toClient' = toClient
    BY <1>4, CacheFacts
  <2> QED
    BY <1>1, <2>1 DEF KnownInv, ServerNeverHangs
<1>5. ASSUME NEW m \in toClient, RtSequential(m) PROVE KnownInv'
  <2>1. PICK k \in rt_window[m.dst] \cup {m.seq} :
          toSrv' = toSrv \cup {ack_pkt(m.dst, k, FALSE)}
    BY <1>5, SequentialFacts
  <2>2. /\ \A d \in Clients : rt_window'[d] \subseteq rt_window[d] \cup {m.seq}
        /\ toClient' = toClient
    BY <1>5, SequentialFacts
  <2>3. Known(k)
    BY <2>1, PacketTypes DEF KnownInv
  <2>4. \A a \in toSrv' : ~a.is_nack => Known(a.seq)
    BY <2>1, <2>3 DEF KnownInv, ack_pkt
  <2> QED
    BY <1>1, <2>2, <2>4 DEF KnownInv, ServerNeverHangs
<1> QED
  BY <1>2, <1>3, <1>4, <1>5

LEMMA NextKnown ==
  ASSUME RtTypeOK, KnownInv, [RtNext]_rtVars
  PROVE  KnownInv'
<1>1. CASE Request \/ Resend \/ Ignore \/ Acked \/ Message
  BY <1>1, ServerKnown DEF Request, Resend, Ignore, Acked, Message
<1>2. CASE Rejected \/ Calibrate \/ InOrder \/ OutOfOrder \/ Timeout
  BY <1>2, ClientKnown DEF Rejected, Calibrate, InOrder, OutOfOrder, Timeout
<1>3. CASE Clock \/ UNCHANGED rtVars
  BY <1>3 DEF Clock, Tick, rtVars, srvVars, rcvVars, rtNetVars, KnownInv, Known, ServerNeverHangs
<1> QED
  BY <1>1, <1>2, <1>3 DEF RtNext

(* Whatever the clients, the network and the application do, the two loops   *)
(* that "remove useless cache" end: the server never hangs in them.          *)
THEOREM SrvNeverHangs == RtSpec => []ServerNeverHangs
<1>1. RtInit => KnownInv
  BY DEF RtInit, SrvInit, RtRcvInit, RtNetInit, KnownInv, ServerNeverHangs
<1>2. RtTypeOK /\ KnownInv /\ [RtNext]_rtVars => KnownInv'
  BY NextKnown
<1>3. KnownInv => ServerNeverHangs
  BY DEF KnownInv
<1> QED
  BY <1>1, <1>2, <1>3, RtTypeCorrect, PTL DEF RtSpec

(***************************************************************************)
(* One client: what it still needs stays in the cache of the server.       *)
(***************************************************************************)
LEMMA ServerBehind ==
  ASSUME NEW c, Clients = {c}, RtTypeOK, BehindInv(c),
         SrvApp \/ \E m \in toSrv : SrvReject(m) \/ SrvCalibrate(m) \/ SrvNack(m)
                                      \/ SrvIgnore(m) \/ SrvAck(m) \/ SrvHang(m),
         UNCHANGED rcvVars
  PROVE  BehindInv(c)'
<1>1. cum_seq[c] \in Nat /\ srv_cum_seq \in Nat /\ cache_seq \in Nat \ {0}
  BY DEF RtTypeOK, RtRcvTypeOK, SrvTypeOK
<1>2. UNCHANGED <<cum_seq, delta, toSrv>>
  BY DEF rcvVars, SrvApp, SrvReject, SrvCalibrate, SrvNack, SrvIgnore, SrvAck, SrvHang, rtNetVars
<1>3. ASSUME NEW win, NEW ts, AppBranch(win, ts), NEW low \in Nat,
             \A k \in 1 .. cache_seq - 1 : k >= low => k \in DOMAIN win
      PROVE  \A k \in 1 .. cache_seq' - 1 : k >= low => k \in DOMAIN srv_window'
  BY <1>1, <1>3 DEF AppBranch, NoMessage, CacheMessage, With
<1>4. ASSUME NEW m \in toSrv, SrvAck(m) PROVE BehindInv(c)'
  <2>1. /\ m.seq \in Nat /\ m.seq > srv_cum_seq /\ srv_cum_seq' = m.seq
        /\ m.seq < cum_seq[c]
    BY <1>1, <1>4, PacketTypes DEF SrvAck, IsNewAck, BehindInv
  <2>2. \A k \in 1 .. cache_seq - 1 : k >= m.seq => k \in DOMAIN Kept(srv_window, m.seq)
    BY <1>1, <2>1 DEF BehindInv, Kept
  <2>3. \A k \in 1 .. cache_seq' - 1 : k >= m.seq => k \in DOMAIN srv_window'
    BY <1>3, <1>4, <2>1, <2>2 DEF SrvAck
  <2> QED
    BY <1>1, <1>2, <2>1, <2>3 DEF BehindInv
<1>5. ASSUME NEW m \in toSrv, SrvHang(m) PROVE BehindInv(c)'
  BY <1>2, <1>5 DEF SrvHang, BehindInv
<1>6. CASE SrvApp \/ \E m \in toSrv : SrvReject(m) \/ SrvCalibrate(m) \/ SrvNack(m) \/ SrvIgnore(m)
  <2>1. srv_cum_seq' = srv_cum_seq /\ \E ts : AppBranch(srv_window, ts)
    BY <1>6 DEF SrvApp, SrvReject, SrvCalibrate, SrvNack, SrvIgnore, AppBranch
  <2>2. \A k \in 1 .. cache_seq' - 1 : k >= srv_cum_seq => k \in DOMAIN srv_window'
    BY <1>1, <1>3, <2>1 DEF BehindInv
  <2> QED
    BY <1>2, <2>1, <2>2 DEF BehindInv
<1> QED
  BY <1>4, <1>5, <1>6

LEMMA ClientBehind ==
  ASSUME NEW c, Clients = {c}, RtTypeOK, BehindInv(c), UNCHANGED srvVars,
         \/ \E b \in Clients : RtTimeout(b)
         \/ \E m \in toClient : RtRejected(m) \/ RtCalibrate(m) \/ RtSequential(m) \/ RtCache(m)
  PROVE  BehindInv(c)'
<1>1. /\ cum_seq \in [Clients -> Nat] /\ delta \in [Clients -> Int] /\ srv_cum_seq \in Nat
      /\ \A m \in toSrv : m.seq \in Nat
      /\ \A m \in toClient : m.dst = c
  BY PacketTypes DEF RtTypeOK, RtRcvTypeOK, SrvTypeOK
<1>2. UNCHANGED <<srv_cum_seq, srv_window, cache_seq>>
  BY DEF srvVars
<1>3. SUFFICES
        /\ cum_seq'[c] = 0 => delta'[c] = NoDelta /\ srv_cum_seq = 0
        /\ cum_seq'[c] > 0 => srv_cum_seq < cum_seq'[c]
        /\ \A m \in toSrv' : ~m.is_nack => m.seq < cum_seq'[c]
  BY <1>2 DEF BehindInv
<1>4. ASSUME NEW n \in Nat, cum_seq'[c] = n, n >= cum_seq[c], cum_seq[c] = 0 => n = 0,
             delta' = delta, \A m \in toSrv' : m \in toSrv \/ m.is_nack
      PROVE  /\ cum_seq'[c] = 0 => delta'[c] = NoDelta /\ srv_cum_seq = 0
             /\ cum_seq'[c] > 0 => srv_cum_seq < cum_seq'[c]
             /\ \A m \in toSrv' : ~m.is_nack => m.seq < cum_seq'[c]
  BY <1>1, <1>4 DEF BehindInv
<1>5. CASE \E b \in Clients : RtTimeout(b)
  BY <1>4, <1>5, TimeoutFacts
<1>6. ASSUME NEW m \in toClient, RtCache(m)
      PROVE  /\ cum_seq'[c] = 0 => delta'[c] = NoDelta /\ srv_cum_seq = 0
             /\ cum_seq'[c] > 0 => srv_cum_seq < cum_seq'[c]
             /\ \A a \in toSrv' : ~a.is_nack => a.seq < cum_seq'[c]
  BY <1>1, <1>4, <1>6, CacheFacts
<1>7. ASSUME NEW m \in toClient, RtRejected(m)
      PROVE  /\ cum_seq'[c] = 0 => delta'[c] = NoDelta /\ srv_cum_seq = 0
             /\ cum_seq'[c] > 0 => srv_cum_seq < cum_seq'[c]
             /\ \A a \in toSrv' : ~a.is_nack => a.seq < cum_seq'[c]
  BY <1>7 DEF RtRejected, rtNetVars, BehindInv
<1>8. ASSUME NEW m \in toClient, RtCalibrate(m)
      PROVE  /\ cum_seq'[c] = 0 => delta'[c] = NoDelta /\ srv_cum_seq = 0
             /\ cum_seq'[c] > 0 => srv_cum_seq < cum_seq'[c]
             /\ \A a \in toSrv' : ~a.is_nack => a.seq < cum_seq'[c]
  <2>1. cum_seq[c] = 0 /\ cum_seq'[c] = 1 /\ toSrv' = toSrv
    BY <1>1, <1>8 DEF RtCalibrate, Calibrating, rtNetVars
  <2> QED
    BY <1>1, <2>1 DEF BehindInv
<1>9. ASSUME NEW m \in toClient, RtSequential(m)
      PROVE  /\ cum_seq'[c] = 0 => delta'[c] = NoDelta /\ srv_cum_seq = 0
             /\ cum_seq'[c] > 0 => srv_cum_seq < cum_seq'[c]
             /\ \A a \in toSrv' : ~a.is_nack => a.seq < cum_seq'[c]
  <2>1. m.dst = c /\ cum_seq[c] \in Nat /\ cum_seq[c] > 0
    BY <1>1, <1>9 DEF RtSequential, Calibrating, BehindInv
  <2>2. cum_seq'[c] \in Nat /\ cum_seq'[c] > cum_seq[c]
    BY <1>9, <2>1, SequentialFacts
  <2>3. PICK k : k < cum_seq'[c] /\ toSrv' = toSrv \cup {ack_pkt(c, k, FALSE)}
    BY <1>9, <2>1, SequentialFacts
  <2>4. \A a \in toSrv' : ~a.is_nack => a.seq < cum_seq'[c]
    BY <1>1, <2>1, <2>2, <2>3 DEF BehindInv, ack_pkt
  <2> QED
    BY <1>1, <2>1, <2>2, <2>4 DEF BehindInv
<1> QED
  BY <1>5, <1>6, <1>7, <1>8, <1>9

(* The inductive invariant: with one client, what has been acknowledged is   *)
(* behind its cum_seq and the rest of the stream is cached.                  *)
THEOREM LoneBehind ==
  ASSUME NEW c, Clients = {c}
  PROVE  RtSpec => []BehindInv(c)
<1>1. RtInit => BehindInv(c)
  BY DEF RtInit, SrvInit, RtRcvInit, RtNetInit, BehindInv
<1>2. ASSUME RtTypeOK, BehindInv(c), [RtNext]_rtVars PROVE BehindInv(c)'
  <2>1. CASE Request \/ Resend \/ Ignore \/ Acked \/ Message
    BY <1>2, <2>1, ServerBehind DEF Request, Resend, Ignore, Acked, Message
  <2>2. CASE Rejected \/ Calibrate \/ InOrder \/ OutOfOrder \/ Timeout
    BY <1>2, <2>2, ClientBehind DEF Rejected, Calibrate, InOrder, OutOfOrder, Timeout
  <2>3. CASE Clock \/ UNCHANGED rtVars
    BY <1>2, <2>3 DEF Clock, Tick, rtVars, srvVars, rcvVars, rtNetVars, BehindInv
  <2> QED
    BY <1>2, <2>1, <2>2, <2>3 DEF RtNext
<1> QED
  BY <1>1, <1>2, RtTypeCorrect, PTL DEF RtSpec

(* With one client, an ack makes the server remove only what the client has  *)
(* received or skipped: everything else that the application sent can still  *)
(* be asked for.                                                             *)
THEOREM LoneNeededIsCached ==
  ASSUME NEW c, Clients = {c}
  PROVE  RtSpec => []NeededIsCached
<1>1. ASSUME RtTypeOK, BehindInv(c) PROVE NeededIsCached
  <2>1. cum_seq[c] \in Nat /\ srv_cum_seq \in Nat /\ cache_seq \in Nat
    BY <1>1 DEF RtTypeOK, RtRcvTypeOK, SrvTypeOK
  <2>2. ASSUME NEW k \in 1 .. cache_seq - 1, k >= cum_seq[c] PROVE k >= srv_cum_seq
    BY <1>1, <2>1, <2>2 DEF BehindInv
  <2> QED
    BY <1>1, <2>2 DEF BehindInv, NeededIsCached
<1> QED
  BY <1>1, RtTypeCorrect, LoneBehind, PTL
===============================================================================
