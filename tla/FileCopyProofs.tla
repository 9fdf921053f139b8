---------------------------- MODULE FileCopyProofs ----------------------------
(***************************************************************************)
(* Theorems about FileCopy, for every set of senders, file size, packet    *)
(* size and window size.                                                   *)
(***************************************************************************)
EXTENDS FileCopy, FiniteSetTheorems, TLAPS

(***************************************************************************)
(* Facts about fetch_next and the packets.                                 *)
(***************************************************************************)
LEMMA FetchType ==
  ASSUME NEW s \in Senders, NEW k \in Nat \ {0}
  PROVE  /\ ftell(k) \in Int
         /\ dt_size(s, k) \in Int
         /\ is_end(s, k) \in BOOLEAN
         /\ fetch_next(s, k) \in Chunk
<1>1. FileSize[s] \in Nat /\ PKT_DT_SIZE \in Nat
  BY PacketAssumption
<1>2. ftell(k) \in Int
  BY <1>1 DEF ftell
<1>3. dt_size(s, k) \in Int
  BY <1>1, <1>2 DEF dt_size
<1> QED
  BY <1>2, <1>3 DEF is_end, fetch_next, Chunk

LEMMA PacketFields ==
  ASSUME NEW m, IsNetPkt(m)
  PROVE  /\ m.src \in Senders
         /\ m.seq \in Nat \ {0}
         /\ m.data = fetch_next(m.src, m.seq)
         /\ m.data \in Chunk
         /\ m.w_size = W_SIZE
         /\ m.is_end = is_end(m.src, m.seq)
         /\ m.is_end \in BOOLEAN
         /\ m.d_fname = d_fname[m.src]
         /\ m.d_fname \in Fnames
<1>1. m.src \in Senders /\ m.seq \in Nat \ {0} /\ m = net_pkt(m.src, m.seq)
  BY DEF IsNetPkt
<1>2. /\ m.data = fetch_next(m.src, m.seq)
      /\ m.w_size = W_SIZE
      /\ m.is_end = is_end(m.src, m.seq)
      /\ m.d_fname = d_fname[m.src]
  BY <1>1 DEF net_pkt
<1> QED
  BY <1>1, <1>2, FetchType, PacketAssumption

LEMMA PacketIsNetPkt ==
  ASSUME NEW s \in Senders, NEW k \in Nat \ {0}
  PROVE  IsNetPkt(net_pkt(s, k))
BY DEF IsNetPkt, net_pkt

(***************************************************************************)
(* The dequeueing loop of the SEQUENTIAL branch never runs: it compares    *)
(* the seq of the datagram in mess_buf with itself plus one.               *)
(***************************************************************************)
LEMMA NothingDequeued ==
  ASSUME NEW m, m.seq \in Nat
  PROVE  Dequeued(m) = 0
BY DEF Dequeued, WindowSeq

(* The packets that fill_win fetches are numbered from pkt_cnt on, and only *)
(* the last of them can be an end packet.                                   *)
LEMMA FillWin ==
  ASSUME NcpTypeOK, NEW s \in Senders, NEW cnt, fill_win(s, cnt)
  PROVE  /\ cnt \in Nat \ {0}
         /\ cnt >= pkt_cnt[s]
         /\ IsFiniteSet(pkt_cnt[s] .. cnt - 1)
         /\ pkt_cnt[s] .. cnt - 1 \subseteq Nat \ {0}
         /\ cnt # pkt_cnt[s] => /\ last_pkt[s] = -1
                               /\ \A k \in pkt_cnt[s] .. cnt - 2 : ~is_end(s, k)
<1>1. pkt_cnt[s] \in Nat \ {0} /\ W_SIZE \in Nat /\ Cardinality(ncp_window[s]) \in Nat
  BY PacketAssumption, FS_CardinalityType DEF NcpTypeOK
<1>2. cnt \in Nat \ {0} /\ cnt >= pkt_cnt[s]
  BY <1>1 DEF fill_win, new_amt
<1>3. IsFiniteSet(pkt_cnt[s] .. cnt - 1)
  <2> DEFINE hi == cnt - 1
  <2>1. pkt_cnt[s] \in Int /\ hi \in Int
    BY <1>1, <1>2
  <2> HIDE DEF hi
  <2>2. IsFiniteSet(pkt_cnt[s] .. hi)
    BY <2>1, FS_Interval
  <2> QED
    BY <2>2 DEF hi
<1> QED
  BY <1>1, <1>2, <1>3 DEF fill_win, CanFill

(***************************************************************************)
(* Type correctness.                                                       *)
(***************************************************************************)
LEMMA InitType == Init => TypeOK
<1> SUFFICES ASSUME Init PROVE TypeOK
  OBVIOUS
<1>1. NcpTypeOK
  BY NcpAssumption, FS_EmptySet DEF Init, NcpInit, NcpTypeOK
<1>2. RcvTypeOK
  <2>1. <<>> \in Seq(Chunk) /\ <<>> \in Seq(Senders)
    OBVIOUS
  <2>2. disk \in [Fnames -> Seq(Chunk)]
    BY <2>1 DEF Init, RcvInit
  <2> QED
    BY <2>1, <2>2 DEF Init, RcvInit, RcvTypeOK
<1>3. NetTypeOK
  BY DEF Init, NetInit, NetTypeOK
<1> QED
  BY <1>1, <1>2, <1>3 DEF TypeOK

(* An ack_pkt that rcv builds with an integer cum_seq is an AckPkt.        *)
LEMMA AckType ==
  ASSUME NEW s \in Senders, NEW c \in Int, NEW n \in BOOLEAN
  PROVE  ack_pkt(s, c, n) \in AckPkt
BY DEF ack_pkt, AckPkt

(* The queue, its head and the file after "handle sender request".          *)
LEMMA HandleSenderType ==
  ASSUME RcvTypeOK, NEW m, IsNetPkt(m)
  PROVE  /\ QueueWith(m) \in Seq(Senders)
         /\ QueueWith(m) # <<>>
         /\ from_addr(m) \in Senders
         /\ OpenFor(m) \in Fnames \cup {NoFile}
         /\ DiskFor(m) \in [Fnames -> Seq(Chunk)]
<1>1. m.src \in Senders /\ m.d_fname \in Fnames
  BY PacketFields
<1>2. sender_q \in Seq(Senders) /\ disk \in [Fnames -> Seq(Chunk)]
  BY DEF RcvTypeOK
<1>3. QueueWith(m) \in Seq(Senders) /\ QueueWith(m) # <<>>
  <2>1. CASE Queued(m.src)
    BY <1>2, <2>1 DEF QueueWith, Queued
  <2>2. CASE ~Queued(m.src)
    BY <1>1, <1>2, <2>2 DEF QueueWith
  <2> QED
    BY <2>1, <2>2
<1>4. from_addr(m) \in Senders
  BY <1>3 DEF from_addr
<1>5. DiskFor(m) \in [Fnames -> Seq(Chunk)]
  BY <1>1, <1>2 DEF DiskFor
<1>6. OpenFor(m) \in Fnames \cup {NoFile}
  BY <1>1 DEF OpenFor, RcvTypeOK
<1> QED
  BY <1>3, <1>4, <1>5, <1>6

(* Writing the payload of a packet keeps the files sequences of chunks.     *)
LEMMA WriteType ==
  ASSUME NEW d \in [Fnames -> Seq(Chunk)], NEW f \in Fnames \cup {NoFile},
         NEW c \in Chunk
  PROVE  Write(d, f, <<c>>) \in [Fnames -> Seq(Chunk)]
<1>1. CASE f = NoFile
  BY <1>1 DEF Write
<1>2. CASE f # NoFile
  <2>1. f \in Fnames /\ d[f] \in Seq(Chunk)
    BY <1>2
  <2>2. d[f] \o <<c>> \in Seq(Chunk)
    BY <2>1
  <2> QED
    BY <1>2, <2>1, <2>2 DEF Write
<1> QED
  BY <1>1, <1>2

(* What the SEQUENTIAL branch does, now that its loop is known to be idle.  *)
LEMMA SequentialEffect ==
  ASSUME TypeOK, NEW m \in toRcv, RcvSequential(m)
  PROVE  /\ m.seq = cum_seq + 1
         /\ cum_seq' = m.seq
         /\ rcv_window' = rcv_window
         /\ disk' = Write(DiskFor(m), OpenFor(m), <<m.data>>)
<1>1. IsNetPkt(m)
  BY DEF TypeOK, NetTypeOK
<1>2. m.seq \in Nat \ {0}
  BY <1>1, PacketFields
<1>3. Dequeued(m) = 0
  BY <1>2, NothingDequeued
<1>4. [i \in 1 .. (1 + Dequeued(m)) |-> m.data] = <<m.data>>
  BY <1>3
<1> QED
  BY <1>3, <1>4, SMTT(40) DEF RcvSequential, TypeOK, RcvTypeOK

(* One lemma per process: its actions keep the types.                       *)
LEMMA NcpStepType ==
  ASSUME TypeOK, Start \/ Kill \/ Transmit \/ AckIn \/ NackIn \/ StaleNack
  PROVE  TypeOK'
<1> USE DEF TypeOK
<1>1. RcvTypeOK'
  BY DEF Start, Kill, Transmit, AckIn, NackIn, StaleNack, rcvVars, RcvTypeOK
<1>2. CASE Start
  BY <1>1, <1>2 DEF Start, NcpStart, netVars, NcpTypeOK, NetTypeOK
<1>3. CASE Kill
  BY <1>1, <1>3 DEF Kill, NcpKilled, netVars, NcpTypeOK, NetTypeOK
<1>4. CASE Transmit
  <2>1. PICK s \in Senders : NcpTimeout(s)
    BY <1>4 DEF Transmit
  <2>2. PICK cnt : SendUnacked(s, cnt)
    BY <2>1 DEF NcpTimeout
  <2> DEFINE win == ncp_window[s] \cup (pkt_cnt[s] .. cnt - 1)
  <2>3. cnt \in Nat \ {0} /\ win \subseteq Nat \ {0} /\ IsFiniteSet(win)
    BY <2>2, FillWin, FS_Union DEF NcpTypeOK, SendUnacked
  <2>4. ncp_window' = [ncp_window EXCEPT ![s] = win]
    BY <2>2 DEF SendUnacked
  <2>5. umap' = [umap EXCEPT ![s] = umap[s] \cup win]
    BY <2>2 DEF SendUnacked, Relabelled
  <2>6. last_pkt' \in [Senders -> {-1} \cup (Nat \ {0})]
    BY <2>2, <2>3 DEF SendUnacked, NcpTypeOK
  <2>7. pkt_cnt' \in [Senders -> Nat \ {0}]
    BY <2>2, <2>3 DEF SendUnacked, NcpTypeOK
  <2>8. NcpTypeOK'
    <3>1. ncp_window' \in [Senders -> SUBSET (Nat \ {0})]
      BY <2>3, <2>4 DEF NcpTypeOK
    <3>2. \A r \in Senders : IsFiniteSet(ncp_window'[r])
      BY <2>3, <2>4 DEF NcpTypeOK
    <3>3. umap' \in [Senders -> SUBSET (Nat \ {0})]
      BY <2>3, <2>5 DEF NcpTypeOK
    <3> QED
      BY <2>1, <2>6, <2>7, <3>1, <3>2, <3>3 DEF NcpTimeout, NcpTypeOK
  <2>9. NetTypeOK'
    <3>1. \A k \in win : IsNetPkt(net_pkt(s, k))
      BY <2>3, PacketIsNetPkt
    <3>2. \A m \in toRcv' : m \in toRcv \/ \E k \in win : m = net_pkt(s, k)
      BY <2>2 DEF SendUnacked
    <3> QED
      BY <2>1, <3>1, <3>2 DEF NcpTimeout, NetTypeOK
  <2> QED
    BY <1>1, <2>8, <2>9
<1>5. CASE AckIn
  <2>1. PICK m \in toNcp : NcpAck(m)
    BY <1>5 DEF AckIn
  <2>2. m \in AckPkt /\ m.dst \in Senders
    BY DEF NetTypeOK, AckPkt
  <2>3. IsFiniteSet(ncp_window[m.dst] \ Acked(m))
    BY <2>2, FS_Difference DEF NcpTypeOK
  <2>4. ncp_window' = [ncp_window EXCEPT ![m.dst] = ncp_window[m.dst] \ Acked(m)]
    BY <2>1 DEF NcpAck
  <2>5. NcpTypeOK'
    <3>1. ncp_window' \in [Senders -> SUBSET (Nat \ {0})]
      BY <2>2, <2>4 DEF NcpTypeOK
    <3>2. \A r \in Senders : IsFiniteSet(ncp_window'[r])
      BY <2>2, <2>3, <2>4 DEF NcpTypeOK
    <3>3. umap' \in [Senders -> SUBSET (Nat \ {0})]
      BY <2>1, <2>2 DEF NcpAck, NcpTypeOK
    <3>4. ncp_pc' \in [Senders -> {"idle", "run", "exit", "killed"}]
      BY <2>1, <2>2 DEF NcpAck, NcpTypeOK
    <3>5. blocked' \in [Senders -> BOOLEAN]
      BY <2>1, <2>2 DEF NcpAck, ReadBlocked, NcpTypeOK
    <3> QED
      BY <2>1, <3>1, <3>2, <3>3, <3>4, <3>5 DEF NcpAck, NcpTypeOK
  <2>6. NetTypeOK'
    BY <2>1 DEF NcpAck, Received, NetTypeOK
  <2> QED
    BY <1>1, <2>5, <2>6
<1>6. CASE NackIn \/ StaleNack
  <2>1. PICK m \in toNcp : NcpNack(m) \/ NcpNackMissing(m)
    BY <1>6 DEF NackIn, StaleNack
  <2>2. m \in AckPkt /\ m.dst \in Senders
    BY DEF NetTypeOK, AckPkt
  <2>3. NcpTypeOK'
    <3>1. umap' \in [Senders -> SUBSET (Nat \ {0})]
      BY <2>1, <2>2 DEF NcpNack, NcpNackMissing, NcpTypeOK
    <3>2. blocked' \in [Senders -> BOOLEAN]
      <4>1. ReadBlocked(m)
        BY <2>1 DEF NcpNack, NcpNackMissing
      <4> QED
        BY <2>2, <4>1 DEF ReadBlocked, NcpTypeOK
    <3> QED
      BY <2>1, <3>1, <3>2 DEF NcpNack, NcpNackMissing, NcpTypeOK
  <2>4. \A n \in toRcv' : n \in toRcv \/ \E k \in Nat \ {0} : n = net_pkt(m.dst, k)
    <3>1. CASE NcpNack(m)
      BY <2>2, <3>1 DEF NcpNack, NcpTypeOK
    <3>2. CASE NcpNackMissing(m)
      BY <2>2, <3>2 DEF NcpNackMissing, NcpTypeOK
    <3> QED
      BY <2>1, <3>1, <3>2
  <2>5. NetTypeOK'
    BY <2>1, <2>2, <2>4, PacketIsNetPkt DEF NcpNack, NcpNackMissing, Received, NetTypeOK
  <2> QED
    BY <1>1, <2>3, <2>5
<1> QED
  BY <1>2, <1>3, <1>4, <1>5, <1>6

LEMMA RcvStepType ==
  ASSUME TypeOK, Block \/ Old \/ InOrder \/ Future \/ Ignored
  PROVE  TypeOK'
<1> USE DEF TypeOK
<1>1. NcpTypeOK'
  BY DEF Block, Old, InOrder, Future, Ignored, ncpVars, NcpTypeOK
<1>2. PICK m \in toRcv : RcvDatagram(m)
  BY DEF Block, Old, InOrder, Future, Ignored, RcvDatagram
<1>3. IsNetPkt(m)
  BY DEF NetTypeOK
<1>4. /\ m.src \in Senders
      /\ m.seq \in Nat \ {0}
      /\ m.data \in Chunk
      /\ m.is_end \in BOOLEAN
      /\ m.d_fname \in Fnames
  BY <1>3, PacketFields
<1>5. /\ QueueWith(m) \in Seq(Senders)
      /\ from_addr(m) \in Senders
      /\ OpenFor(m) \in Fnames \cup {NoFile}
      /\ DiskFor(m) \in [Fnames -> Seq(Chunk)]
  BY <1>3, HandleSenderType
<1>6. toRcv' \subseteq toRcv
  BY <1>2 DEF RcvDatagram, RcvBlock, RcvOld, RcvSequential, RcvFuture,
              RcvFutureIgnored, Received
<1>7. CASE RcvBlock(m)
  <2>1. toNcp' \subseteq AckPkt
    <3>1. \A n \in BOOLEAN : ack_pkt(m.src, -1, n) \in AckPkt
      BY <1>4, AckType
    <3> QED
      BY <1>7, <3>1 DEF RcvBlock, NetTypeOK
  <2> QED
    BY <1>1, <1>6, <1>7, <2>1 DEF RcvBlock, rcvVars, RcvTypeOK, NetTypeOK
<1>8. CASE RcvOld(m)
  <2>1. toNcp' \subseteq AckPkt
    <3>1. ack_pkt(from_addr(m), cum_seq, FALSE) \in AckPkt
      BY <1>5 DEF RcvTypeOK, ack_pkt, AckPkt
    <3> QED
      BY <1>8, <3>1 DEF RcvOld, NetTypeOK
  <2>2. RcvTypeOK'
    BY <1>5, <1>8 DEF RcvOld, HandleSender, CloseIfDone, RcvTypeOK
  <2> QED
    BY <1>1, <1>6, <2>1, <2>2 DEF NetTypeOK
<1>9. CASE RcvSequential(m)
  <2>1. toNcp' \subseteq AckPkt
    <3>1. ack_pkt(from_addr(m), m.seq, FALSE) \in AckPkt
      BY <1>4, <1>5 DEF ack_pkt, AckPkt
    <3> QED
      BY <1>9, <3>1 DEF RcvSequential, NetTypeOK
  <2>2. disk' \in [Fnames -> Seq(Chunk)]
    <3>1. disk' = Write(DiskFor(m), OpenFor(m), <<m.data>>)
      BY <1>9, SequentialEffect
    <3> QED
      BY <1>4, <1>5, <3>1, WriteType
  <2>3. RcvTypeOK'
    BY <1>4, <1>5, <1>9, <2>2, SequentialEffect
       DEF RcvSequential, HandleSender, CloseIfDone, RcvTypeOK
  <2> QED
    BY <1>1, <1>6, <2>1, <2>3 DEF NetTypeOK
<1>10. CASE RcvFuture(m)
  <2>1. \A k \in GappedSeqs(m) : k \in Int
    BY <1>4 DEF GappedSeqs, WindowSeq, RcvTypeOK
  <2>2. toNcp' \subseteq AckPkt
    BY <1>5, <1>10, <2>1, AckType DEF RcvFuture, NetTypeOK
  <2>3. RcvTypeOK'
    BY <1>5, <1>10 DEF RcvFuture, HandleSender, CloseIfDone, RcvTypeOK
  <2> QED
    BY <1>1, <1>6, <2>2, <2>3 DEF NetTypeOK
<1>11. CASE RcvFutureIgnored(m)
  <2>1. RcvTypeOK'
    BY <1>5, <1>11 DEF RcvFutureIgnored, HandleSender, CloseIfDone, RcvTypeOK
  <2> QED
    BY <1>1, <1>6, <1>11, <2>1 DEF RcvFutureIgnored, NetTypeOK
<1> QED
  BY <1>2, <1>7, <1>8, <1>9, <1>10, <1>11 DEF RcvDatagram

LEMMA NextType ==
  ASSUME TypeOK, [Next]_vars
  PROVE  TypeOK'
<1> USE DEF TypeOK
<1>1. CASE Start \/ Kill \/ Transmit \/ AckIn \/ NackIn \/ StaleNack
  BY <1>1, NcpStepType
<1>2. CASE Block \/ Old \/ InOrder \/ Future \/ Ignored
  BY <1>2, RcvStepType
<1>3. CASE Switch
  <2>1. NextQueue \in Seq(Senders) /\ NextCumSeq \in Nat
    BY DEF NextQueue, NextCumSeq, RcvTypeOK
  <2>2. RcvTypeOK'
    BY <1>3, <2>1 DEF Switch, RcvTimeout, RcvTypeOK
  <2>3. toNcp' \subseteq AckPkt
    <3>1. CASE NextQueue = <<>>
      BY <1>3, <3>1 DEF Switch, RcvTimeout, NetTypeOK
    <3>2. CASE NextQueue # <<>>
      <4>1. NextQueue[1] \in Senders
        BY <2>1, <3>2
      <4> QED
        BY <1>3, <2>1, <3>2, <4>1, AckType DEF Switch, RcvTimeout, NetTypeOK
    <3> QED
      BY <3>1, <3>2
  <2> QED
    BY <1>3, <2>2, <2>3 DEF Switch, RcvTimeout, ncpVars, NcpTypeOK, NetTypeOK
<1>4. CASE Lose
  BY <1>4 DEF Lose, LoseData, LoseAck, ncpVars, rcvVars, NcpTypeOK, RcvTypeOK, NetTypeOK
<1>5. CASE UNCHANGED vars
  BY <1>5 DEF vars, ncpVars, rcvVars, netVars, NcpTypeOK, RcvTypeOK, NetTypeOK
<1> QED
  BY <1>1, <1>2, <1>3, <1>4, <1>5 DEF Next

(***************************************************************************)
(* Every variable of the two programs keeps its type in every reachable    *)
(* state, and every datagram that reaches rcv is one that fill_win built,  *)
(* the stale packet of the dereferenced end() included.                    *)
(***************************************************************************)
THEOREM TypeCorrect == Spec => []TypeOK
<1>1. Init => TypeOK
  BY InitType
<1>2. TypeOK /\ [Next]_vars => TypeOK'
  BY NextType
<1> QED
  BY <1>1, <1>2, PTL DEF Spec

(***************************************************************************)
(* The output stream.                                                      *)
(***************************************************************************)
LEMMA NextStream ==
  ASSUME TypeOK, StreamOpenWhileReceiving, [Next]_vars
  PROVE  StreamOpenWhileReceiving'
<1> USE DEF StreamOpenWhileReceiving
<1>1. CASE UNCHANGED rcvVars
  BY <1>1 DEF rcvVars
<1>2. CASE Switch
  BY <1>2 DEF Switch, RcvTimeout, NextCumSeq, TypeOK, RcvTypeOK
<1>3. ASSUME NEW m \in toRcv, RcvOld(m) \/ RcvFuture(m) \/ RcvFutureIgnored(m)
      PROVE  StreamOpenWhileReceiving'
  <2>1. m.d_fname # NoFile
    BY PacketFields, NoFileAssumption DEF TypeOK, NetTypeOK
  <2>2. rcv_start' = TRUE /\ done' = done
    BY <1>3 DEF RcvOld, RcvFuture, RcvFutureIgnored, HandleSender
  <2>3. pd' = OpenFor(m) \/ pd' = CloseIfDone(done, OpenFor(m))
    BY <1>3 DEF RcvOld, RcvFuture, RcvFutureIgnored, CloseIfDone
  <2>4. CASE done
    BY <2>2, <2>3, <2>4 DEF CloseIfDone, OpenFor
  <2>5. CASE ~done
    BY <2>1, <2>2, <2>3, <2>5 DEF CloseIfDone, OpenFor
  <2> QED
    BY <2>4, <2>5
<1>4. ASSUME NEW m \in toRcv, RcvSequential(m)
      PROVE  StreamOpenWhileReceiving'
  <2>1. m.d_fname # NoFile
    BY PacketFields, NoFileAssumption DEF TypeOK, NetTypeOK
  <2>2. rcv_start' = TRUE /\ pd' = CloseIfDone(done', OpenFor(m)) /\ done' = (done \/ m.is_end)
    BY <1>4 DEF RcvSequential, HandleSender
  <2>3. CASE done'
    BY <2>2, <2>3 DEF CloseIfDone
  <2>4. CASE ~done'
    BY <2>1, <2>2, <2>4 DEF CloseIfDone, OpenFor
  <2> QED
    BY <2>3, <2>4
<1> QED
  BY <1>1, <1>2, <1>3, <1>4
     DEF Next, Start, Kill, Transmit, AckIn, NackIn, StaleNack, Block, RcvBlock,
         Old, InOrder, Future, Ignored, Lose, vars

(***************************************************************************)
(* However many senders contend, rcv's output stream is open exactly while *)
(* a transfer is being received, and every transfer starts with a clean    *)
(* done flag and cum_seq.                                                  *)
(***************************************************************************)
THEOREM StreamLifecycle == Spec => []StreamOpenWhileReceiving
<1>1. Init => StreamOpenWhileReceiving
  BY DEF Init, RcvInit, StreamOpenWhileReceiving
<1>2. TypeOK /\ StreamOpenWhileReceiving /\ [Next]_vars => StreamOpenWhileReceiving'
  BY NextStream
<1> QED
  BY <1>1, <1>2, TypeCorrect, PTL DEF Spec

(***************************************************************************)
(* What an ncp fetches, again for any number of senders.                   *)
(***************************************************************************)
(* A step that fetches nothing, drops packets from windows at most, and     *)
(* sends only packets that have been fetched.                               *)
LEMMA FetchesNothing ==
  ASSUME FetchedInv,
         UNCHANGED <<pkt_cnt, last_pkt>>,
         \A s \in Senders : ncp_window'[s] \subseteq ncp_window[s],
         \A n \in toRcv' : \/ n \in toRcv
                           \/ \E s \in Senders, k \in Nat :
                                k < pkt_cnt[s] /\ n = net_pkt(s, k)
  PROVE  FetchedInv'
<1>1. \A s, k : net_pkt(s, k).seq = k /\ net_pkt(s, k).src = s
  BY DEF net_pkt
<1>2. \A n \in toRcv' : n.seq < pkt_cnt'[n.src]
  BY <1>1 DEF FetchedInv
<1>3. \A s \in Senders : \A k \in ncp_window'[s] : k < pkt_cnt'[s]
  BY DEF FetchedInv
<1> QED
  BY <1>2, <1>3 DEF FetchedInv

LEMMA TransmitFetched ==
  ASSUME TypeOK, FetchedInv, Transmit
  PROVE  FetchedInv'
<1>1. PICK s \in Senders : NcpTimeout(s)
  BY DEF Transmit
<1>2. PICK cnt : SendUnacked(s, cnt)
  BY <1>1 DEF NcpTimeout
<1> DEFINE win == ncp_window[s] \cup (pkt_cnt[s] .. cnt - 1)
<1>3. /\ pkt_cnt[s] \in Nat \ {0}
      /\ cnt \in Nat \ {0}
      /\ cnt >= pkt_cnt[s]
      /\ cnt # pkt_cnt[s] => /\ last_pkt[s] = -1
                            /\ \A k \in pkt_cnt[s] .. cnt - 2 : ~is_end(s, k)
  BY <1>2, FillWin DEF TypeOK, NcpTypeOK, SendUnacked
<1>4. /\ pkt_cnt' = [pkt_cnt EXCEPT ![s] = cnt]
      /\ ncp_window' = [ncp_window EXCEPT ![s] = win]
  BY <1>2 DEF SendUnacked
<1>5. win \subseteq Nat \ {0} /\ \A k \in win : k < cnt
  BY <1>3 DEF TypeOK, NcpTypeOK, FetchedInv
<1>6. \A k \in 1 .. cnt - 2 : ~is_end(s, k)
  <2>1. CASE cnt = pkt_cnt[s]
    BY <1>3, <2>1 DEF FetchedInv
  <2>2. CASE cnt # pkt_cnt[s]
    <3>1. \A k \in 1 .. pkt_cnt[s] - 1 : ~is_end(s, k)
      BY <1>3, <2>2 DEF FetchedInv
    <3> QED
      BY <1>3, <2>2, <3>1
  <2> QED
    BY <2>1, <2>2
<1>7. \/ /\ last_pkt' = [last_pkt EXCEPT ![s] = cnt - 1]
         /\ cnt - 1 # -1
         /\ is_end(s, cnt - 1)
      \/ /\ last_pkt' = last_pkt
         /\ \A k \in win : ~is_end(s, k)
  <2>1. CASE \E k \in win : is_end(s, k) /\ last_pkt' = [last_pkt EXCEPT ![s] = k]
    <3>1. PICK k \in win : is_end(s, k) /\ last_pkt' = [last_pkt EXCEPT ![s] = k]
      BY <2>1
    <3>2. k = cnt - 1
      BY <1>3, <1>5, <1>6, <3>1
    <3> QED
      BY <1>3, <1>5, <3>1, <3>2
  <2>2. CASE last_pkt' = last_pkt /\ \A k \in win : ~is_end(s, k)
    BY <2>2
  <2> QED
    BY <1>2, <2>1, <2>2 DEF SendUnacked
<1>8. /\ last_pkt'[s] = -1 => \A k \in 1 .. cnt - 1 : ~is_end(s, k)
      /\ last_pkt'[s] # -1 => last_pkt'[s] = cnt - 1 /\ is_end(s, cnt - 1)
  <2>1. CASE last_pkt' = [last_pkt EXCEPT ![s] = cnt - 1] /\ cnt - 1 # -1 /\ is_end(s, cnt - 1)
    BY <2>1 DEF TypeOK, NcpTypeOK
  <2>2. CASE last_pkt' = last_pkt /\ \A k \in win : ~is_end(s, k)
    <3>1. CASE cnt = pkt_cnt[s]
      BY <2>2, <3>1 DEF FetchedInv
    <3>2. CASE cnt # pkt_cnt[s]
      <4>1. cnt - 1 \in win /\ last_pkt[s] = -1
        BY <1>3, <3>2
      <4> QED
        BY <1>3, <1>6, <2>2, <4>1
    <3> QED
      BY <3>1, <3>2
  <2> QED
    BY <1>7, <2>1, <2>2
<1>9. \A r \in Senders : r # s =>
        /\ pkt_cnt'[r] = pkt_cnt[r]
        /\ ncp_window'[r] = ncp_window[r]
        /\ last_pkt'[r] = last_pkt[r]
  BY <1>4, <1>7 DEF TypeOK, NcpTypeOK
<1>10. pkt_cnt'[s] = cnt /\ ncp_window'[s] = win
  BY <1>4 DEF TypeOK, NcpTypeOK
<1>11. \A m \in toRcv' : m.seq < pkt_cnt'[m.src]
  <2> SUFFICES ASSUME NEW m \in toRcv' PROVE m.seq < pkt_cnt'[m.src]
    OBVIOUS
  <2>1. CASE m \in toRcv
    <3>1. m.src \in Senders /\ m.seq \in Nat /\ m.seq < pkt_cnt[m.src]
      BY <2>1 DEF FetchedInv, TypeOK, NetTypeOK, IsNetPkt
    <3>2. CASE m.src = s
      BY <1>3, <1>10, <3>1, <3>2
    <3>3. CASE m.src # s
      BY <1>9, <3>1, <3>3
    <3> QED
      BY <3>2, <3>3
  <2>2. CASE m \notin toRcv
    <3>1. PICK k \in win : m = net_pkt(s, k)
      BY <1>2, <2>2 DEF SendUnacked
    <3>2. m.seq = k /\ m.src = s
      BY <3>1 DEF net_pkt
    <3> QED
      BY <1>5, <1>10, <3>2
  <2> QED
    BY <2>1, <2>2
<1>12. ASSUME NEW r \in Senders
       PROVE  /\ \A k \in 1 .. pkt_cnt'[r] - 2 : ~is_end(r, k)
              /\ \A k \in ncp_window'[r] : k < pkt_cnt'[r]
              /\ last_pkt'[r] = -1 => \A k \in 1 .. pkt_cnt'[r] - 1 : ~is_end(r, k)
              /\ last_pkt'[r] # -1 => last_pkt'[r] = pkt_cnt'[r] - 1 /\ is_end(r, last_pkt'[r])
  <2>1. CASE r = s
    BY <1>5, <1>6, <1>8, <1>10, <2>1
  <2>2. CASE r # s
    BY <1>9, <2>2 DEF FetchedInv
  <2> QED
    BY <2>1, <2>2
<1> QED
  BY <1>11, <1>12 DEF FetchedInv, is_end, dt_size, ftell

LEMMA NextFetched ==
  ASSUME TypeOK, FetchedInv, [Next]_vars
  PROVE  FetchedInv'
<1>1. CASE Transmit
  BY <1>1, TransmitFetched
<1>2. CASE AckIn
  <2>1. PICK m \in toNcp : NcpAck(m)
    BY <1>2 DEF AckIn
  <2>2. \A s \in Senders : ncp_window'[s] \subseteq ncp_window[s]
    BY <2>1 DEF NcpAck, TypeOK, NcpTypeOK
  <2> QED
    BY <2>1, <2>2, FetchesNothing DEF NcpAck
<1>3. CASE NackIn \/ StaleNack
  <2>1. PICK m \in toNcp : NcpNack(m) \/ NcpNackMissing(m)
    BY <1>3 DEF NackIn, StaleNack
  <2>2. m.dst \in Senders /\ pkt_cnt[m.dst] \in Nat /\ ncp_window[m.dst] \subseteq Nat
    BY DEF TypeOK, NetTypeOK, NcpTypeOK, AckPkt
  <2>3. ASSUME NEW n \in toRcv', n \notin toRcv
        PROVE  \E k \in Nat : k < pkt_cnt[m.dst] /\ n = net_pkt(m.dst, k)
    <3>1. CASE NcpNack(m)
      <4>1. n = net_pkt(m.dst, m.cum_seq) /\ m.cum_seq \in ncp_window[m.dst]
        BY <2>3, <3>1 DEF NcpNack
      <4> QED
        BY <2>2, <4>1 DEF FetchedInv
    <3>2. CASE NcpNackMissing(m)
      <4>1. PICK k \in 1 .. pkt_cnt[m.dst] - 1 : n = net_pkt(m.dst, k)
        BY <2>3, <3>2 DEF NcpNackMissing
      <4> QED
        BY <2>2, <4>1
    <3> QED
      BY <2>1, <3>1, <3>2
  <2>4. UNCHANGED <<pkt_cnt, last_pkt, ncp_window>>
    BY <2>1 DEF NcpNack, NcpNackMissing
  <2> QED
    BY <2>2, <2>3, <2>4, FetchesNothing
<1>4. CASE Start \/ Kill
  BY <1>4, FetchesNothing DEF Start, Kill, NcpStart, NcpKilled, netVars
<1>5. CASE Block \/ Old \/ InOrder \/ Future \/ Ignored
  BY <1>5, FetchesNothing
     DEF Block, Old, InOrder, Future, Ignored, RcvBlock, RcvOld, RcvSequential,
         RcvFuture, RcvFutureIgnored, Received, ncpVars
<1>6. CASE Switch \/ Lose
  BY <1>6, FetchesNothing DEF Switch, RcvTimeout, Lose, LoseData, LoseAck, ncpVars
<1>7. CASE UNCHANGED vars
  BY <1>7, FetchesNothing DEF vars, ncpVars, netVars
<1> QED
  BY <1>1, <1>2, <1>3, <1>4, <1>5, <1>6, <1>7 DEF Next

(***************************************************************************)
(* An ncp reads its file exactly once, from the beginning to the end: no   *)
(* packet follows an end packet, last_pkt is the end packet, and nothing   *)
(* that was not fetched is ever in the window or on the network.           *)
(***************************************************************************)
THEOREM FetchedOnce == Spec => []FetchedInv
<1>1. Init => FetchedInv
  BY DEF Init, NcpInit, NetInit, FetchedInv
<1>2. TypeOK /\ FetchedInv /\ [Next]_vars => FetchedInv'
  BY NextFetched
<1> QED
  BY <1>1, <1>2, TypeCorrect, PTL DEF Spec

---------------------------------------------------------------------------------
(***************************************************************************)
(* The queue: any number of senders that contend for rcv.                  *)
(***************************************************************************)

(* "Handle sender request" keeps the head of a queue that is not empty, and *)
(* adds at most the sender of the datagram.                                 *)
LEMMA QueueWithFacts ==
  ASSUME RcvTypeOK, NEW m, m.src \in Senders
  PROVE  /\ QueueWith(m) # <<>>
         /\ sender_q # <<>> => QueueWith(m)[1] = sender_q[1]
         /\ \A i \in 1 .. Len(QueueWith(m)) :
              QueueWith(m)[i] = m.src \/ \E j \in 1 .. Len(sender_q) : QueueWith(m)[i] = sender_q[j]
         /\ QueuedOnce =>
              \A i, j \in 1 .. Len(QueueWith(m)) : QueueWith(m)[i] = QueueWith(m)[j] => i = j
<1>1. sender_q \in Seq(Senders)
  BY DEF RcvTypeOK
<1>2. CASE Queued(m.src)
  BY <1>1, <1>2 DEF QueueWith, Queued, QueuedOnce
<1>3. CASE ~Queued(m.src)
  <2>1. QueueWith(m) = Append(sender_q, m.src)
    BY <1>3 DEF QueueWith
  <2>2. \A i \in 1 .. Len(sender_q) : sender_q[i] # m.src
    BY <1>1, <1>3 DEF Queued
  <2>3. /\ Len(QueueWith(m)) = Len(sender_q) + 1
        /\ \A i \in 1 .. Len(sender_q) : QueueWith(m)[i] = sender_q[i]
        /\ QueueWith(m)[Len(sender_q) + 1] = m.src
        /\ Len(sender_q) \in Nat
    BY <1>1, <2>1
  <2>4. \A i \in 1 .. Len(sender_q) + 1 : i \in 1 .. Len(sender_q) \/ i = Len(sender_q) + 1
    BY <2>3
  <2>5. sender_q # <<>> => 1 \in 1 .. Len(sender_q)
    BY <1>1
  <2> QED
    BY <1>1, <2>1, <2>2, <2>3, <2>4, <2>5 DEF QueuedOnce
<1> QED
  BY <1>2, <1>3

(* SWITCH SENDER keeps the queue or drops its head.                         *)
LEMMA NextQueueFacts ==
  ASSUME RcvTypeOK, QueuedOnce
  PROVE  /\ NextQueue \in Seq(Senders)
         /\ \A i \in 1 .. Len(NextQueue) : \E j \in 1 .. Len(sender_q) : NextQueue[i] = sender_q[j]
         /\ \A i, j \in 1 .. Len(NextQueue) : NextQueue[i] = NextQueue[j] => i = j
<1>1. sender_q \in Seq(Senders)
  BY DEF RcvTypeOK
<1>2. CASE NextQueue = sender_q
  BY <1>1, <1>2 DEF QueuedOnce
<1>3. CASE NextQueue # sender_q
  <2>1. sender_q # <<>> /\ NextQueue = Tail(sender_q)
    BY <1>3 DEF NextQueue
  <2>2. /\ NextQueue \in Seq(Senders)
        /\ Len(NextQueue) = Len(sender_q) - 1
        /\ Len(sender_q) \in Nat
        /\ \A i \in 1 .. Len(sender_q) - 1 : NextQueue[i] = sender_q[i + 1]
    BY <1>1, <2>1
  <2>3. \A i \in 1 .. Len(NextQueue) : i + 1 \in 1 .. Len(sender_q) /\ NextQueue[i] = sender_q[i + 1]
    BY <2>2
  <2>4. ASSUME NEW i \in 1 .. Len(NextQueue), NEW j \in 1 .. Len(NextQueue),
               NextQueue[i] = NextQueue[j]
        PROVE  i = j
    <3>1. i + 1 = j + 1
      BY <2>3, <2>4 DEF QueuedOnce
    <3> QED
      BY <3>1
  <2> QED
    BY <2>2, <2>3, <2>4
<1> QED
  BY <1>2, <1>3

LEMMA RcvQueue ==
  ASSUME TypeOK, QueueInv, Old \/ InOrder \/ Future \/ Ignored
  PROVE  QueueInv'
<1>1. PICK m \in toRcv : /\ RcvOld(m) \/ RcvSequential(m) \/ RcvFuture(m) \/ RcvFutureIgnored(m)
                        /\ UNCHANGED ncpVars
  BY DEF Old, InOrder, Future, Ignored
<1>2. IsNetPkt(m) /\ m.src \in Senders /\ ncp_pc[m.src] # "idle"
  BY DEF TypeOK, NetTypeOK, IsNetPkt, QueueInv
<1>3. RcvTypeOK /\ sender_q \in Seq(Senders)
  BY DEF TypeOK, RcvTypeOK
<1>4. sender_q' = QueueWith(m) /\ toRcv' \subseteq toRcv /\ ncp_pc' = ncp_pc
  BY <1>1 DEF RcvOld, RcvSequential, RcvFuture, RcvFutureIgnored, HandleSender,
              Received, ncpVars
<1>5. \A n \in toNcp' : n \in toNcp \/ n.dst = from_addr(m)
  BY <1>1 DEF RcvOld, RcvSequential, RcvFuture, RcvFutureIgnored, ack_pkt
<1>6. /\ QueueWith(m) # <<>>
      /\ sender_q # <<>> => QueueWith(m)[1] = sender_q[1]
      /\ \A i \in 1 .. Len(QueueWith(m)) :
           QueueWith(m)[i] = m.src \/ \E j \in 1 .. Len(sender_q) : QueueWith(m)[i] = sender_q[j]
      /\ \A i, j \in 1 .. Len(QueueWith(m)) : QueueWith(m)[i] = QueueWith(m)[j] => i = j
  BY <1>2, <1>3, QueueWithFacts DEF QueueInv
<1>7. QueueWith(m) \in Seq(Senders)
  BY <1>2, <1>3, HandleSenderType
<1>8. \A i \in 1 .. Len(sender_q') : ncp_pc'[sender_q'[i]] # "idle"
  BY <1>2, <1>4, <1>6 DEF QueueInv
<1>9. ncp_pc[from_addr(m)] # "idle"
  <2>1. 1 \in 1 .. Len(QueueWith(m))
    BY <1>6, <1>7
  <2> QED
    BY <1>4, <1>8, <2>1 DEF from_addr
<1>10. \A n \in toNcp' : ncp_pc'[n.dst] # "idle"
  BY <1>4, <1>5, <1>9 DEF QueueInv
<1>11. OnlyServedIsAcked'
  BY <1>4, <1>5, <1>6 DEF QueueInv, OnlyServedIsAcked, Running, from_addr
<1> QED
  BY <1>4, <1>6, <1>8, <1>10, <1>11 DEF QueueInv, QueuedOnce

LEMMA SwitchQueue ==
  ASSUME Timely, TypeOK, QueueInv, Switch
  PROVE  QueueInv'
<1>1. sender_q' = NextQueue /\ UNCHANGED <<toRcv, ncp_pc>>
  BY DEF Switch, RcvTimeout, ncpVars
<1>2. \A n \in toNcp' : n \in toNcp \/ (NextQueue # <<>> /\ n.dst = NextQueue[1])
  BY DEF Switch, RcvTimeout, ack_pkt
<1>3. \A n \in toNcp : ~Running(n.dst)
  BY DEF Switch, Quiet
<1>5. /\ NextQueue \in Seq(Senders)
      /\ \A i \in 1 .. Len(NextQueue) : \E j \in 1 .. Len(sender_q) : NextQueue[i] = sender_q[j]
      /\ \A i, j \in 1 .. Len(NextQueue) : NextQueue[i] = NextQueue[j] => i = j
  BY NextQueueFacts DEF QueueInv, TypeOK
<1>6. \A i \in 1 .. Len(sender_q') : ncp_pc'[sender_q'[i]] # "idle"
  BY <1>1, <1>5 DEF QueueInv
<1>7. NextQueue # <<>> => ncp_pc[NextQueue[1]] # "idle"
  <2>1. NextQueue # <<>> => 1 \in 1 .. Len(NextQueue)
    BY <1>5
  <2> QED
    BY <1>1, <1>6, <2>1
<1>8. \A n \in toNcp' : ncp_pc'[n.dst] # "idle"
  BY <1>1, <1>2, <1>7 DEF QueueInv
<1>9. OnlyServedIsAcked'
  BY <1>1, <1>2, <1>3 DEF OnlyServedIsAcked, Running
<1> QED
  BY <1>1, <1>5, <1>6, <1>8, <1>9 DEF QueueInv, QueuedOnce

LEMMA NcpQueue ==
  ASSUME TypeOK, QueueInv, Start \/ Kill \/ Transmit \/ AckIn \/ NackIn \/ StaleNack
  PROVE  QueueInv'
<1>1. UNCHANGED rcvVars
  BY DEF Start, Kill, Transmit, AckIn, NackIn, StaleNack
<1>2. ncp_pc \in [Senders -> {"idle", "run", "exit", "killed"}] /\ toNcp \subseteq AckPkt
  BY DEF TypeOK, NcpTypeOK, NetTypeOK
<1>3. toNcp' \subseteq toNcp
  BY DEF Start, Kill, Transmit, AckIn, NackIn, StaleNack, NcpStart, NcpKilled, NcpTimeout,
         NcpAck, NcpNack, NcpNackMissing, Received, netVars
<1>4. \A s \in Senders : /\ ncp_pc[s] # "idle" => ncp_pc'[s] # "idle"
                         /\ ncp_pc'[s] = "run" => ncp_pc[s] \in {"idle", "run"}
  <2>1. CASE UNCHANGED ncp_pc
    BY <1>2, <2>1
  <2>2. CASE Start
    BY <1>2, <2>2 DEF Start, NcpStart
  <2>3. CASE Kill
    BY <1>2, <2>3 DEF Kill, NcpKilled, Running
  <2>4. CASE AckIn
    BY <1>2, <2>4 DEF AckIn, NcpAck, AckPkt
  <2> QED
    BY <2>1, <2>2, <2>3, <2>4
       DEF Transmit, NackIn, StaleNack, NcpTimeout, NcpNack, NcpNackMissing
<1>5. ASSUME NEW m \in toRcv' PROVE m.src \in Senders /\ ncp_pc'[m.src] # "idle"
  <2>1. CASE m \in toRcv
    BY <1>4, <2>1 DEF QueueInv, TypeOK, NetTypeOK, IsNetPkt
  <2>2. CASE m \notin toRcv
    <3>1. PICK s \in Senders : m.src = s /\ Running(s) /\ UNCHANGED ncp_pc
      <4>1. CASE Transmit
        BY <2>2, <4>1 DEF Transmit, NcpTimeout, SendUnacked, net_pkt
      <4>2. CASE NackIn
        BY <1>2, <2>2, <4>2 DEF NackIn, NcpNack, AckPkt, net_pkt
      <4>3. CASE StaleNack
        BY <1>2, <2>2, <4>3 DEF StaleNack, NcpNackMissing, AckPkt, net_pkt
      <4> QED
        BY <2>2, <4>1, <4>2, <4>3
           DEF Start, Kill, AckIn, NcpStart, NcpKilled, NcpAck, netVars
    <3> QED
      BY <3>1 DEF Running
  <2> QED
    BY <2>1, <2>2
<1>6. \A m \in toNcp : m.dst \in Senders
  BY <1>2 DEF AckPkt
<1>7. \A i \in 1 .. Len(sender_q) : sender_q[i] \in Senders
  BY DEF TypeOK, RcvTypeOK
<1>8. OnlyServedIsAcked'
  <2>1. \A m \in toNcp' : m \in toNcp /\ (ncp_pc'[m.dst] = "run" => ncp_pc[m.dst] = "run")
    BY <1>3, <1>4, <1>6 DEF QueueInv
  <2> QED
    BY <1>1, <2>1 DEF QueueInv, OnlyServedIsAcked, Running, rcvVars
<1> QED
  BY <1>1, <1>3, <1>4, <1>5, <1>6, <1>7, <1>8 DEF QueueInv, QueuedOnce, rcvVars

LEMMA NextQueueInv ==
  ASSUME Timely, TypeOK, QueueInv, [Next]_vars
  PROVE  QueueInv'
<1>1. CASE Start \/ Kill \/ Transmit \/ AckIn \/ NackIn \/ StaleNack
  BY <1>1, NcpQueue
<1>2. CASE Old \/ InOrder \/ Future \/ Ignored
  BY <1>2, RcvQueue
<1>3. CASE Block
  <2>1. PICK m \in toRcv : RcvBlock(m)
    BY <1>3 DEF Block
  <2>2. UNCHANGED <<sender_q, ncp_pc>> /\ toRcv' \subseteq toRcv
    BY <1>3, <2>1 DEF Block, RcvBlock, Received, rcvVars, ncpVars
  <2>3. \A n \in toNcp' : n \in toNcp \/ (n.dst = m.src /\ n.cum_seq = -1)
    BY <2>1 DEF RcvBlock, ack_pkt
  <2>4. OnlyServedIsAcked'
    BY <2>2, <2>3 DEF QueueInv, OnlyServedIsAcked, Running
  <2> QED
    BY <2>2, <2>3, <2>4 DEF QueueInv, QueuedOnce
<1>4. CASE Switch
  BY <1>4, SwitchQueue
<1>5. CASE Lose
  BY <1>5 DEF Lose, LoseData, LoseAck, ncpVars, rcvVars, QueueInv, QueuedOnce,
              OnlyServedIsAcked, Running
<1>6. CASE UNCHANGED vars
  BY <1>6 DEF vars, ncpVars, rcvVars, netVars, QueueInv, QueuedOnce,
              OnlyServedIsAcked, Running
<1> QED
  BY <1>1, <1>2, <1>3, <1>4, <1>5, <1>6 DEF Next

LEMMA QueueInvariant ==
  ASSUME Timely
  PROVE  Spec => []QueueInv
<1>1. Init => QueueInv
  BY DEF Init, NcpInit, RcvInit, NetInit, QueueInv, QueuedOnce, OnlyServedIsAcked
<1>2. TypeOK /\ QueueInv /\ [Next]_vars => QueueInv'
  BY NextQueueInv
<1> QED
  BY <1>1, <1>2, TypeCorrect, PTL DEF Spec

(***************************************************************************)
(* However many senders contend for rcv, an ack, a nack or a call that     *)
(* reaches a live sender was meant for the one that is being served: a     *)
(* switch cannot overtake it, because rcv switches only after 10 s of      *)
(* silence.                                                                *)
(***************************************************************************)
THEOREM ServedAcks ==
  ASSUME Timely
  PROVE  Spec => []OnlyServedIsAcked
<1>1. QueueInv => OnlyServedIsAcked
  BY DEF QueueInv
<1> QED
  BY <1>1, QueueInvariant, PTL

(***************************************************************************)
(* No sender is ever in the queue twice, whatever the timeout does: no     *)
(* sequence of datagrams and switches makes rcv serve one sender twice in  *)
(* place of another.                                                       *)
(***************************************************************************)
THEOREM NobodyQueuedTwice == Spec => []QueuedOnce
<1>1. Init => QueuedOnce
  BY DEF Init, RcvInit, QueuedOnce
<1>2. ASSUME TypeOK, QueuedOnce, [Next]_vars PROVE QueuedOnce'
  <2>1. CASE UNCHANGED sender_q
    BY <1>2, <2>1 DEF QueuedOnce
  <2>2. CASE Switch
    <3>1. sender_q' = NextQueue
      BY <2>2 DEF Switch, RcvTimeout
    <3> QED
      BY <1>2, <3>1, NextQueueFacts DEF QueuedOnce, TypeOK
  <2>3. CASE Old \/ InOrder \/ Future \/ Ignored
    <3>1. PICK m \in toRcv : sender_q' = QueueWith(m)
      BY <2>3 DEF Old, InOrder, Future, Ignored, RcvOld, RcvSequential, RcvFuture,
                  RcvFutureIgnored, HandleSender
    <3>2. m.src \in Senders
      BY <1>2 DEF TypeOK, NetTypeOK, IsNetPkt
    <3> QED
      BY <1>2, <3>1, <3>2, QueueWithFacts DEF QueuedOnce, TypeOK
  <2> QED
    BY <1>2, <2>1, <2>2, <2>3
       DEF Next, Start, Kill, Transmit, AckIn, NackIn, StaleNack, Block, RcvBlock,
           Lose, vars, rcvVars
<1> QED
  BY <1>1, <1>2, TypeCorrect, PTL DEF Spec
(***************************************************************************)
(* A sender that is blocked, or about to be, for at most two senders.      *)
(***************************************************************************)
(* Nothing on the way will block s, and nothing has.                        *)
Free(s) == ~blocked[s] /\ \A m \in toNcp : m.dst = s => m.cum_seq >= 0

(* A live sender at the head of the queue was not told to wait since it is  *)
(* there. It may still be waiting from before, if the call has not reached  *)
(* it; then nobody else is left who could complete a transfer.              *)
HeadInv ==
  sender_q # <<>> /\ Running(sender_q[1]) =>
    /\ \A m \in toNcp : m.dst = sender_q[1] => m.cum_seq >= 0
    /\ blocked[sender_q[1]] =>
         /\ ~done /\ toRcv = {}
         /\ \A t \in Senders : t # sender_q[1] => ncp_pc[t] \in {"exit", "killed"}

WaitInv ==
  /\ \A s \in Senders : ncp_pc[s] = "idle" => ~blocked[s]
  /\ \A s \in Senders : Running(s) => Free(s) \/ Queued(s)
  /\ HeadInv


(* Processes: only an ack_pkt blocks one, and only a live one transmits.    *)
LEMMA NcpWait ==
  ASSUME TypeOK, QueueInv, WaitInv, Start \/ Kill \/ Transmit \/ AckIn \/ NackIn \/ StaleNack
  PROVE  WaitInv'
<1>1. UNCHANGED <<sender_q, done>>
  BY DEF Start, Kill, Transmit, AckIn, NackIn, StaleNack, rcvVars
<1>2. /\ ncp_pc \in [Senders -> {"idle", "run", "exit", "killed"}]
      /\ blocked \in [Senders -> BOOLEAN] /\ toNcp \subseteq AckPkt
      /\ sender_q \in Seq(Senders)
  BY DEF TypeOK, NcpTypeOK, NetTypeOK, RcvTypeOK
<1>3. toNcp' \subseteq toNcp
  BY DEF Start, Kill, Transmit, AckIn, NackIn, StaleNack, NcpStart, NcpKilled, NcpTimeout,
         NcpAck, NcpNack, NcpNackMissing, Received, netVars
<1>4. PICK a \in Senders :
        /\ \A s \in Senders : s # a => ncp_pc'[s] = ncp_pc[s] /\ blocked'[s] = blocked[s]
        /\ \/ ncp_pc[a] = "idle" /\ ncp_pc'[a] = "run" /\ UNCHANGED <<blocked, toRcv>>
           \/ Running(a) /\ ncp_pc'[a] = "killed" /\ UNCHANGED <<blocked, toRcv>>
           \/ Running(a) /\ ~blocked[a] /\ UNCHANGED <<ncp_pc, blocked>>
           \/ /\ Running(a) /\ ncp_pc'[a] \in {"run", "exit"}
              /\ \E m \in toNcp : m.dst = a /\ blocked'[a] = (m.cum_seq < 0)
  <2>1. CASE Start
    <3>1. PICK a \in Senders : NcpStart(a)
      BY <2>1 DEF Start
    <3> QED
      BY <1>2, <3>1 DEF NcpStart, netVars
  <2>2. CASE Kill
    <3>1. PICK a \in Senders : NcpKilled(a)
      BY <2>2 DEF Kill
    <3> QED
      BY <1>2, <3>1 DEF NcpKilled, netVars
  <2>3. CASE Transmit
    BY <2>3 DEF Transmit, NcpTimeout
  <2>4. CASE AckIn \/ NackIn \/ StaleNack
    <3>1. PICK m \in toNcp : NcpAck(m) \/ NcpNack(m) \/ NcpNackMissing(m)
      BY <2>4 DEF AckIn, NackIn, StaleNack
    <3>2. m.dst \in Senders /\ Running(m.dst) /\ blocked' = [blocked EXCEPT ![m.dst] = m.cum_seq < 0]
      BY <1>2, <3>1 DEF NcpAck, NcpNack, NcpNackMissing, ReadBlocked, AckPkt
    <3>3. /\ \A s \in Senders : s # m.dst => ncp_pc'[s] = ncp_pc[s]
          /\ ncp_pc'[m.dst] \in {"run", "exit"}
      BY <1>2, <3>1, <3>2 DEF NcpAck, NcpNack, NcpNackMissing, Running
    <3>4. \A s \in Senders : s # m.dst => blocked'[s] = blocked[s]
      BY <1>2, <3>2
    <3>5. blocked'[m.dst] = (m.cum_seq < 0)
      BY <1>2, <3>2
    <3> QED
      BY <3>1, <3>2, <3>3, <3>4, <3>5
  <2> QED
    BY <2>1, <2>2, <2>3, <2>4
<1>5. \A s \in Senders : ncp_pc'[s] = "idle" => ~blocked'[s]
  BY <1>4 DEF WaitInv, Running
<1>6. ASSUME NEW s \in Senders, Running(s)' PROVE Free(s)' \/ Queued(s)'
  <2>1. CASE Running(s)
    <3>1. Queued(s)' <=> Queued(s)
      BY <1>1 DEF Queued
    <3>2. Free(s) \/ Queued(s)
      BY <2>1 DEF WaitInv
    <3>3. ASSUME Free(s) PROVE Free(s)'
      BY <1>2, <1>3, <1>4, <2>1, <3>3 DEF Free, Running, AckPkt
    <3> QED
      BY <3>1, <3>2, <3>3
  <2>2. CASE ~Running(s)
    <3>1. ncp_pc[s] = "idle" /\ blocked'[s] = blocked[s]
      BY <1>4, <1>6, <2>2 DEF Running
    <3>2. \A m \in toNcp' : m.dst # s
      BY <1>3, <3>1 DEF QueueInv
    <3> QED
      BY <3>1, <3>2 DEF WaitInv, Free
  <2> QED
    BY <2>1, <2>2
<1>7. HeadInv'
  <2> SUFFICES ASSUME sender_q # <<>>, ncp_pc'[sender_q[1]] = "run"
               PROVE  /\ \A m \in toNcp' : m.dst = sender_q[1] => m.cum_seq >= 0
                      /\ blocked'[sender_q[1]] =>
                           /\ ~done /\ toRcv' = {}
                           /\ \A t \in Senders : t # sender_q[1] => ncp_pc'[t] \in {"exit", "killed"}
    BY <1>1 DEF HeadInv, Running
  <2> DEFINE h == sender_q[1]
  <2>1. h \in Senders /\ ncp_pc[h] # "idle"
    <3>1. 1 \in 1 .. Len(sender_q)
      BY <1>2
    <3> QED
      BY <1>2, <3>1 DEF QueueInv
  <2>2. ncp_pc[h] = "run"
    BY <1>4, <2>1 DEF Running
  <2>3. /\ \A m \in toNcp : m.dst = h => m.cum_seq >= 0
        /\ blocked[h] =>
             ~done /\ toRcv = {} /\ \A t \in Senders : t # h => ncp_pc[t] \in {"exit", "killed"}
    BY <2>2 DEF WaitInv, HeadInv, Running
  <2>4. ASSUME blocked'[h]
        PROVE  ~done /\ toRcv' = {} /\ \A t \in Senders : t # h => ncp_pc'[t] \in {"exit", "killed"}
    <3>1. ~ \E m \in toNcp : m.dst = h /\ blocked'[h] = (m.cum_seq < 0)
      <4>1. \A m \in toNcp : m.dst = h => m.cum_seq \in Int /\ m.cum_seq >= 0
        BY <1>2, <2>3 DEF AckPkt
      <4>2. \A m \in toNcp : m.dst = h => ~(m.cum_seq < 0)
        BY <4>1
      <4> QED
        BY <2>4, <4>2
    <3>2. blocked[h]
      BY <1>4, <2>1, <2>4, <3>1
    <3>3. a = h
      BY <1>4, <2>2, <2>3, <3>2 DEF Running
    <3>4. FALSE
      BY <1>4, <2>2, <2>4, <3>1, <3>2, <3>3 DEF Running
    <3> QED
      BY <3>4
  <2> QED
    BY <1>3, <2>3, <2>4
<1> QED
  BY <1>5, <1>6, <1>7 DEF WaitInv

(* A datagram that is not turned away: it comes from a sender that is at    *)
(* the head, or was not in the queue and so is free; whoever is at the head *)
(* cannot be waiting for its call, since there would be no datagram.        *)
LEMMA RcvWait ==
  ASSUME TypeOK, QueueInv, WaitInv, Old \/ InOrder \/ Future \/ Ignored
  PROVE  WaitInv'
<1>1. PICK m \in toRcv : /\ RcvOld(m) \/ RcvSequential(m) \/ RcvFuture(m) \/ RcvFutureIgnored(m)
                        /\ UNCHANGED ncpVars
  BY DEF Old, InOrder, Future, Ignored
<1>2. m.src \in Senders /\ m.seq \in Nat /\ cum_seq \in Nat /\ rcv_window \in Nat
  BY DEF TypeOK, NetTypeOK, IsNetPkt, RcvTypeOK
<1>3. RcvTypeOK /\ sender_q \in Seq(Senders)
  BY DEF TypeOK, RcvTypeOK
<1>4. sender_q' = QueueWith(m) /\ UNCHANGED <<ncp_pc, blocked>>
  BY <1>1 DEF RcvOld, RcvSequential, RcvFuture, RcvFutureIgnored, HandleSender, ncpVars
<1>5. \A n \in toNcp' : n \in toNcp \/ n.cum_seq >= 0
  <2>1. \A k \in GappedSeqs(m) : k >= 0
    BY <1>2 DEF GappedSeqs, WindowSeq
  <2> QED
    BY <1>1, <1>2, <2>1 DEF RcvOld, RcvSequential, RcvFuture, RcvFutureIgnored, ack_pkt
<1>6. /\ QueueWith(m) # <<>>
      /\ sender_q # <<>> => QueueWith(m)[1] = sender_q[1]
  BY <1>2, <1>3, QueueWithFacts DEF QueueInv
<1>7. /\ \A s \in Senders : Queued(s) => Queued(s)'
      /\ sender_q = <<>> => QueueWith(m)[1] = m.src /\ ~Queued(m.src)
  <2>1. CASE Queued(m.src)
    BY <1>3, <1>4, <2>1 DEF QueueWith, Queued
  <2>2. CASE ~Queued(m.src)
    <3>1. sender_q' = Append(sender_q, m.src)
      BY <1>4, <2>2 DEF QueueWith
    <3>2. /\ Len(sender_q) \in Nat /\ DOMAIN sender_q = 1 .. Len(sender_q)
          /\ DOMAIN sender_q' = 1 .. Len(sender_q) + 1
          /\ \A i \in 1 .. Len(sender_q) : sender_q'[i] = sender_q[i]
          /\ sender_q'[Len(sender_q) + 1] = m.src
      BY <1>2, <1>3, <3>1
    <3>3. \A s \in Senders : Queued(s) => Queued(s)'
      BY <3>2 DEF Queued
    <3>4. sender_q = <<>> => Len(sender_q) + 1 = 1
      BY <1>3
    <3>5. sender_q = <<>> => sender_q'[1] = m.src
      BY <3>2, <3>4
    <3> QED
      BY <1>4, <2>2, <3>3, <3>5
  <2> QED
    BY <2>1, <2>2
<1>8. \A s \in Senders : Free(s) => Free(s)'
  BY <1>4, <1>5 DEF Free
<1>9. \A s \in Senders : Running(s)' => Free(s)' \/ Queued(s)'
  BY <1>4, <1>7, <1>8 DEF WaitInv, Running
<1>10. HeadInv'
  <2> DEFINE h == QueueWith(m)[1]
  <2> SUFFICES ASSUME Running(h) PROVE (\A n \in toNcp' : n.dst = h => n.cum_seq >= 0) /\ ~blocked[h]
    BY <1>4 DEF HeadInv, Running
  <2>1. CASE sender_q = <<>>
    <3>1. h = m.src /\ ~Queued(m.src)
      BY <1>7, <2>1
    <3>2. Free(h)
      BY <1>2, <3>1 DEF WaitInv
    <3> QED
      BY <1>5, <3>2 DEF Free
  <2>2. CASE sender_q # <<>>
    <3>1. h = sender_q[1] /\ toRcv # {}
      BY <1>6, <2>2
    <3>2. (\A n \in toNcp : n.dst = h => n.cum_seq >= 0) /\ ~blocked[h]
      BY <2>2, <3>1 DEF WaitInv, HeadInv
    <3> QED
      BY <1>5, <3>2
  <2> QED
    BY <2>1, <2>2
<1> QED
  BY <1>4, <1>9, <1>10 DEF WaitInv

(* A switch drops nobody who is alive: it would be waiting, as everything   *)
(* is quiet, and a transfer of it would not be done.                        *)
LEMMA SwitchWait ==
  ASSUME Timely, \A s, t, u \in Senders : s = t \/ t = u \/ s = u,
         TypeOK, QueueInv, WaitInv, Switch
  PROVE  WaitInv'
<1>1. /\ sender_q' = NextQueue /\ done' = FALSE /\ UNCHANGED <<toRcv, ncp_pc, blocked>>
      /\ toRcv = {} /\ (\A m \in toNcp : ~Running(m.dst))
      /\ \A s \in Senders : Running(s) => blocked[s]
  BY DEF Switch, RcvTimeout, ncpVars, Quiet
<1>2. \A n \in toNcp' : n \in toNcp \/ n.cum_seq >= 0
  BY DEF Switch, RcvTimeout, ack_pkt, NextCumSeq, TypeOK, RcvTypeOK
<1>3. sender_q \in Seq(Senders) /\ ncp_pc \in [Senders -> {"idle", "run", "exit", "killed"}]
  BY DEF TypeOK, RcvTypeOK, NcpTypeOK
<1>4. CASE NextQueue = sender_q
  <2>1. \A s \in Senders : Running(s)' => Free(s)' \/ Queued(s)'
    BY <1>1, <1>2, <1>4 DEF WaitInv, Running, Free, Queued
  <2>2. HeadInv'
    BY <1>1, <1>2, <1>4 DEF WaitInv, HeadInv, Running
  <2> QED
    BY <1>1, <2>1, <2>2 DEF WaitInv
<1>5. CASE NextQueue # sender_q
  <2>1. done /\ sender_q # <<>> /\ NextQueue = Tail(sender_q)
    BY <1>5 DEF NextQueue
  <2> DEFINE h == sender_q[1]
  <2>2. /\ Len(sender_q) \in Nat /\ DOMAIN sender_q = 1 .. Len(sender_q) /\ 1 \in 1 .. Len(sender_q)
        /\ DOMAIN NextQueue = 1 .. Len(sender_q) - 1
        /\ \A i \in 1 .. Len(sender_q) - 1 : NextQueue[i] = sender_q[i + 1]
    BY <1>3, <2>1
  <2>3. h \in Senders /\ ncp_pc[h] # "idle"
    BY <1>3, <2>2 DEF QueueInv
  <2>4. ~Running(h)
    BY <1>1, <2>1, <2>3 DEF WaitInv, HeadInv
  <2>5. ASSUME NEW s \in Senders, Running(s)' PROVE Free(s)' \/ Queued(s)'
    <3>1. Running(s) /\ (Free(s) \/ Queued(s)) /\ s # h
      BY <1>1, <2>4, <2>5 DEF WaitInv, Running
    <3>2. CASE Free(s)
      BY <1>1, <1>2, <3>2 DEF Free
    <3>3. CASE Queued(s)
      <4>1. PICK i \in 1 .. Len(sender_q) : sender_q[i] = s
        BY <2>2, <3>3 DEF Queued
      <4>2. i - 1 \in 1 .. Len(sender_q) - 1 /\ (i - 1) + 1 = i
        BY <2>2, <3>1, <4>1
      <4>3. i - 1 \in DOMAIN NextQueue /\ NextQueue[i - 1] = s
        BY <2>2, <4>1, <4>2
      <4> QED
        BY <1>1, <4>3 DEF Queued
    <3> QED
      BY <3>1, <3>2, <3>3
  <2>6. HeadInv'
    <3> DEFINE g == NextQueue[1]
    <3> SUFFICES ASSUME NextQueue # <<>>, Running(g)
                 PROVE  /\ \A n \in toNcp' : n.dst = g => n.cum_seq >= 0
                        /\ \A t \in Senders : t # g => ncp_pc[t] \in {"exit", "killed"}
      BY <1>1 DEF HeadInv, Running
    <3>1. g \in Senders
      <4>1. NextQueue \in Seq(Senders)
        BY <1>3, <2>1
      <4> QED
        BY <4>1
    <3>2. g # h
      BY <2>4
    <3>3. \A t \in Senders : t # g => t = h
      BY <2>3, <3>1, <3>2
    <3>4. ncp_pc[h] \in {"exit", "killed"}
      BY <1>3, <2>3, <2>4 DEF Running
    <3> QED
      BY <1>1, <1>2, <3>3, <3>4
  <2> QED
    BY <1>1, <2>5, <2>6 DEF WaitInv
<1> QED
  BY <1>4, <1>5

LEMMA NextWait ==
  ASSUME Timely, \A s, t, u \in Senders : s = t \/ t = u \/ s = u,
         TypeOK, QueueInv, WaitInv, [Next]_vars
  PROVE  WaitInv'
<1>1. CASE Start \/ Kill \/ Transmit \/ AckIn \/ NackIn \/ StaleNack
  BY <1>1, NcpWait
<1>2. CASE Old \/ InOrder \/ Future \/ Ignored
  BY <1>2, RcvWait
<1>3. CASE Block
  <2>1. PICK m \in toRcv : RcvBlock(m)
    BY <1>3 DEF Block
  <2>2. UNCHANGED <<sender_q, done, ncp_pc, blocked>> /\ Queued(m.src) /\ sender_q[1] # m.src
    BY <1>3, <2>1 DEF Block, RcvBlock, rcvVars, ncpVars
  <2>3. \A n \in toNcp' : n \in toNcp \/ n.dst = m.src
    BY <2>1 DEF RcvBlock, ack_pkt
  <2>4. \A s \in Senders : Running(s)' => Free(s)' \/ Queued(s)'
    BY <2>2, <2>3 DEF WaitInv, Running, Free, Queued
  <2>5. HeadInv'
    BY <2>2, <2>3 DEF WaitInv, HeadInv, Running
  <2> QED
    BY <2>2, <2>4, <2>5 DEF WaitInv
<1>4. CASE Switch
  BY <1>4, SwitchWait
<1>5. CASE Lose
  <2>1. UNCHANGED <<sender_q, done, ncp_pc, blocked>> /\ toNcp' \subseteq toNcp /\ toRcv' \subseteq toRcv
    BY <1>5 DEF Lose, LoseData, LoseAck, ncpVars, rcvVars
  <2> QED
    BY <2>1 DEF WaitInv, HeadInv, Running, Free, Queued
<1>6. CASE UNCHANGED vars
  BY <1>6 DEF vars, ncpVars, rcvVars, netVars, WaitInv, HeadInv, Running, Free, Queued
<1> QED
  BY <1>1, <1>2, <1>3, <1>4, <1>5, <1>6 DEF Next

(***************************************************************************)
(* With at most two senders that start unblocked (ncp.cpp:57) and a timely *)
(* rcv (PairOfSenders, the premise of BlockedIsQueued), whoever waits to   *)
(* be called is in the queue, or rcv.cpp:284 would have dropped it while   *)
(* it waits for a call that was lost. With three senders the third one can *)
(* complete the transfer of a sender that waits.                           *)
(***************************************************************************)
THEOREM WaitingIsQueued == Spec => []BlockedIsQueued
<1>1. CASE PairOfSenders
  <2>1. Timely
    BY <1>1 DEF PairOfSenders
  <2>2. Init => WaitInv
    BY <1>1 DEF Init, NcpInit, RcvInit, NetInit, WaitInv, HeadInv, Running, Free, PairOfSenders
  <2>3. TypeOK /\ QueueInv /\ WaitInv /\ [Next]_vars => WaitInv'
    BY <1>1, NextWait DEF PairOfSenders
  <2>4. WaitInv => BlockedIsQueued
    BY DEF WaitInv, BlockedIsQueued, Free
  <2> QED
    BY <2>1, <2>2, <2>3, <2>4, TypeCorrect, QueueInvariant, PTL DEF Spec
<1>2. CASE ~PairOfSenders
  <2>1. BlockedIsQueued
    BY <1>2 DEF BlockedIsQueued
  <2> QED
    BY <2>1, PTL
<1> QED
  BY <1>1, <1>2

-------------------------------------------------------------------------------
(***************************************************************************)
(* With one sender the file arrives whole, in order and once, for every    *)
(* file size, packet size and window size.                                 *)
(***************************************************************************)
(***************************************************************************)
(* How fetch_next tiles a file.                                            *)
(***************************************************************************)
(* A packet that is not the end packet is full, and the next one starts     *)
(* where it stops, inside the file.                                         *)
LEMMA InnerPacket ==
  ASSUME NEW s \in Senders, NEW k \in Nat \ {0}, ~is_end(s, k)
  PROVE  /\ dt_size(s, k) = PKT_DT_SIZE
         /\ ftell(k + 1) = ftell(k) + dt_size(s, k)
         /\ ftell(k + 1) < FileSize[s]
<1>1. FileSize[s] \in Nat /\ PKT_DT_SIZE \in Nat \ {0} /\ ftell(k) \in Int
  BY PacketAssumption, FetchType
<1>2. ftell(k + 1) = ftell(k) + PKT_DT_SIZE
  BY <1>1 DEF ftell
<1>3. dt_size(s, k) = PKT_DT_SIZE /\ ftell(k) + dt_size(s, k) < FileSize[s]
  BY <1>1 DEF dt_size, is_end
<1> QED
  BY <1>2, <1>3

(* The end packet stops at the end of the file.                             *)
LEMMA EndPacket ==
  ASSUME NEW s \in Senders, NEW k \in Nat \ {0}, is_end(s, k)
  PROVE  ftell(k) + dt_size(s, k) = FileSize[s]
<1>1. FileSize[s] \in Nat /\ PKT_DT_SIZE \in Nat \ {0} /\ ftell(k) \in Int
  BY PacketAssumption, FetchType
<1> QED
  BY <1>1 DEF dt_size, is_end

(* No packet up to the end packet has a negative size.                      *)
LEMMA PacketSize ==
  ASSUME NEW s \in Senders, NEW k \in Nat \ {0},
         \A j \in 1 .. k - 1 : ~is_end(s, j)
  PROVE  dt_size(s, k) >= 0
<1>1. FileSize[s] \in Nat /\ PKT_DT_SIZE \in Nat \ {0} /\ ftell(k) \in Int
  BY PacketAssumption, FetchType
<1>2. ftell(k) <= FileSize[s]
  <2>1. CASE k = 1
    BY <1>1, <2>1 DEF ftell
  <2>2. CASE k # 1
    <3>1. k - 1 \in Nat \ {0} /\ ~is_end(s, k - 1)
      BY <2>2
    <3>2. ftell((k - 1) + 1) < FileSize[s]
      BY <3>1, InnerPacket
    <3>3. (k - 1) + 1 = k
      OBVIOUS
    <3> QED
      BY <1>1, <3>2, <3>3
  <2> QED
    BY <2>1, <2>2
<1> QED
  BY <1>1, <1>2 DEF dt_size

LEMMA PrefixFacts ==
  ASSUME NEW s \in Senders, NEW n \in Nat
  PROVE  /\ Prefix(s, n) \in Seq(Chunk)
         /\ Len(Prefix(s, n)) = n
         /\ \A k \in 1 .. n : Prefix(s, n)[k] = fetch_next(s, k)
<1>1. \A k \in 1 .. n : fetch_next(s, k) \in Chunk
  BY FetchType
<1>2. Prefix(s, n) \in [1 .. n -> Chunk]
  BY <1>1 DEF Prefix
<1>3. Prefix(s, n) \in Seq(Chunk) /\ Len(Prefix(s, n)) = n
  BY <1>2
<1> QED
  BY <1>3 DEF Prefix

(* The first n packets are the first bytes of the file, if none before the  *)
(* n-th is an end packet.                                                   *)
LEMMA PrefixInOrder ==
  ASSUME NEW s \in Senders, NEW n \in Nat,
         \A j \in 1 .. n - 1 : ~is_end(s, j)
  PROVE  InOrderBytes(s, Prefix(s, n))
<1>1. \A k : /\ fetch_next(s, k).src = s
             /\ fetch_next(s, k).off = ftell(k)
             /\ fetch_next(s, k).len = dt_size(s, k)
  BY DEF fetch_next
<1>2. \A i \in 1 .. n : dt_size(s, i) >= 0
  BY PacketSize
<1>3. n > 0 => ftell(1) = 0
  BY PacketAssumption DEF ftell
<1>4. \A i \in 2 .. n : ftell(i) = ftell(i - 1) + dt_size(s, i - 1)
  <2> SUFFICES ASSUME NEW i \in 2 .. n
               PROVE  ftell(i) = ftell(i - 1) + dt_size(s, i - 1)
    OBVIOUS
  <2>1. i - 1 \in Nat \ {0} /\ ~is_end(s, i - 1)
    OBVIOUS
  <2>2. ftell((i - 1) + 1) = ftell(i - 1) + dt_size(s, i - 1)
    BY <2>1, InnerPacket
  <2>3. (i - 1) + 1 = i
    OBVIOUS
  <2> QED
    BY <2>2, <2>3
<1>5. \A i \in 1 .. n : /\ Prefix(s, n)[i].src = s
                        /\ Prefix(s, n)[i].off = ftell(i)
                        /\ Prefix(s, n)[i].len = dt_size(s, i)
  BY <1>1, PrefixFacts
<1>6. \A i \in 2 .. n : i \in 1 .. n /\ i - 1 \in 1 .. n
  OBVIOUS
<1>7. Len(Prefix(s, n)) = n
  BY PrefixFacts
<1>8. \A i \in 2 .. n : Prefix(s, n)[i].off = Prefix(s, n)[i - 1].off + Prefix(s, n)[i - 1].len
  BY <1>4, <1>5, <1>6
<1> QED
  BY <1>2, <1>3, <1>5, <1>7, <1>8 DEF InOrderBytes

(* They are the whole file exactly if the n-th is the end packet.           *)
LEMMA PrefixWhole ==
  ASSUME NEW s \in Senders, NEW n \in Nat,
         \A j \in 1 .. n - 1 : ~is_end(s, j)
  PROVE  WholeFile(s, Prefix(s, n)) <=> n > 0 /\ is_end(s, n)
<1>1. InOrderBytes(s, Prefix(s, n))
  BY PrefixInOrder
<1>2. Len(Prefix(s, n)) = n
  BY PrefixFacts
<1>3. CASE n = 0
  BY <1>2, <1>3 DEF WholeFile
<1>4. CASE n > 0
  <2>1. Prefix(s, n)[n].off = ftell(n) /\ Prefix(s, n)[n].len = dt_size(s, n)
    <3>1. n \in 1 .. n
      BY <1>4
    <3>2. Prefix(s, n)[n] = fetch_next(s, n)
      BY <3>1, PrefixFacts
    <3> QED
      BY <3>2 DEF fetch_next
  <2>2. CASE is_end(s, n)
    BY <1>1, <1>2, <1>4, <2>1, <2>2, EndPacket DEF WholeFile
  <2>3. CASE ~is_end(s, n)
    <3>1. FileSize[s] \in Int /\ ftell(n) \in Int /\ dt_size(s, n) \in Int
      BY <1>4, FetchType, PacketAssumption
    <3>2. ftell(n) + dt_size(s, n) # FileSize[s]
      BY <2>3, <3>1 DEF is_end
    <3> QED
      BY <1>2, <1>4, <2>1, <2>3, <3>2 DEF WholeFile
  <2> QED
    BY <2>2, <2>3
<1> QED
  BY <1>3, <1>4

(* Writing the next packet gives the next prefix.                           *)
LEMMA PrefixAppend ==
  ASSUME NEW s \in Senders, NEW n \in Nat
  PROVE  Prefix(s, n) \o <<fetch_next(s, n + 1)>> = Prefix(s, n + 1)
<1>1. \A k \in 1 .. n + 1 : fetch_next(s, k) \in Chunk
  BY FetchType
<1>2. Prefix(s, n) \in Seq(Chunk) /\ Len(Prefix(s, n)) = n
  BY PrefixFacts
<1>3. fetch_next(s, n + 1) \in Chunk
  BY <1>1
<1> DEFINE p == Prefix(s, n) \o <<fetch_next(s, n + 1)>>
           q == Prefix(s, n + 1)
<1>4. p \in Seq(Chunk) /\ Len(p) = n + 1
  BY <1>2, <1>3
<1>5. q \in Seq(Chunk) /\ Len(q) = n + 1
  BY PrefixFacts
<1>6. \A k \in 1 .. n + 1 : p[k] = q[k]
  <2> SUFFICES ASSUME NEW k \in 1 .. n + 1 PROVE p[k] = q[k]
    OBVIOUS
  <2>1. q[k] = fetch_next(s, k)
    BY PrefixFacts
  <2>2. CASE k \in 1 .. n
    <3>1. p[k] = Prefix(s, n)[k]
      BY <1>2, <1>3, <2>2
    <3> QED
      BY <2>1, <2>2, <3>1, PrefixFacts
  <2>3. CASE k = n + 1
    <3>1. p[n + 1] = fetch_next(s, n + 1)
      BY <1>2, <1>3
    <3> QED
      BY <2>1, <2>3, <3>1
  <2>4. k \in 1 .. n \/ k = n + 1
    OBVIOUS
  <2> QED
    BY <2>2, <2>3, <2>4
<1> HIDE DEF p, q
<1> QED
  <2>1. p = q
    BY <1>4, <1>5, <1>6
  <2> QED
    BY <2>1 DEF p, q

(***************************************************************************)
(* One sender: its file on the side of rcv.                                *)
(***************************************************************************)
(* A datagram of the only sender is admitted, and acks go to that sender.   *)
LEMMA LoneDatagram ==
  ASSUME NEW a, Senders = {a}, TypeOK, LoneInv(a), NEW m \in toRcv
  PROVE  /\ m.src = a
         /\ m.seq \in Nat \ {0}
         /\ m.seq < pkt_cnt[a]
         /\ m.data = fetch_next(a, m.seq)
         /\ m.is_end = is_end(a, m.seq)
         /\ m.d_fname = d_fname[a]
         /\ QueueWith(m) = <<a>>
         /\ from_addr(m) = a
         /\ ~RcvBlock(m)
<1>1. IsNetPkt(m)
  BY DEF TypeOK, NetTypeOK
<1>2. /\ m.src = a
      /\ m.seq \in Nat \ {0}
      /\ m.data = fetch_next(a, m.seq)
      /\ m.is_end = is_end(a, m.seq)
      /\ m.d_fname = d_fname[a]
  BY <1>1, PacketFields
<1>3. m.seq < pkt_cnt[a]
  BY <1>2 DEF LoneInv, FetchedInv
<1>4. sender_q = <<>> \/ sender_q = <<a>>
  BY DEF LoneInv, ServesOnly
<1>5. QueueWith(m) = <<a>> /\ ~RcvBlock(m)
  <2>1. CASE sender_q = <<>>
    <3>1. ~Queued(m.src)
      BY <2>1 DEF Queued
    <3> QED
      BY <1>2, <2>1, <3>1 DEF QueueWith, RcvBlock
  <2>2. CASE sender_q = <<a>>
    <3>1. Queued(m.src) /\ sender_q[1] = a
      BY <1>2, <2>2 DEF Queued
    <3> QED
      BY <1>2, <2>2, <3>1 DEF QueueWith, RcvBlock
  <2> QED
    BY <1>4, <2>1, <2>2
<1>6. from_addr(m) = a
  BY <1>5 DEF from_addr
<1> QED
  BY <1>2, <1>3, <1>5, <1>6

(* The file of the only sender after "handle sender request".               *)
LEMMA LoneOpen ==
  ASSUME NEW a, Senders = {a}, TypeOK, LoneInv(a), NEW m \in toRcv
  PROVE  /\ DiskFor(m)[d_fname[a]] = Prefix(a, cum_seq)
         /\ OpenFor(m) = IF done THEN NoFile ELSE d_fname[a]
<1>1. m.d_fname = d_fname[a] /\ d_fname[a] \in Fnames /\ d_fname[a] # NoFile
  BY LoneDatagram, PacketAssumption, NoFileAssumption
<1>2. CASE rcv_start
  BY <1>1, <1>2 DEF DiskFor, OpenFor, LoneInv, ServesOnly, StreamOpenWhileReceiving
<1>3. CASE ~rcv_start
  <2>1. cum_seq = 0 /\ ~done
    BY <1>3 DEF LoneInv, StreamOpenWhileReceiving
  <2>2. Prefix(a, 0) = <<>>
    <3>1. Prefix(a, 0) \in Seq(Chunk) /\ Len(Prefix(a, 0)) = 0
      BY PrefixFacts
    <3> QED
      BY <3>1
  <2>3. DiskFor(m)[d_fname[a]] = <<>>
    BY <1>1, <1>3 DEF DiskFor, TypeOK, RcvTypeOK
  <2> QED
    BY <1>1, <1>3, <2>1, <2>2, <2>3 DEF OpenFor
<1> QED
  BY <1>2, <1>3

LEMMA LoneSequential ==
  ASSUME NEW a, Senders = {a}, TypeOK, LoneInv(a), NEW m \in toRcv,
         RcvSequential(m), UNCHANGED ncpVars
  PROVE  ServesOnly(a)' /\ ~done
<1>1. /\ m.src = a
      /\ m.seq \in Nat \ {0}
      /\ m.seq < pkt_cnt[a]
      /\ m.data = fetch_next(a, m.seq)
      /\ m.is_end = is_end(a, m.seq)
      /\ QueueWith(m) = <<a>>
  BY LoneDatagram
<1>2. /\ m.seq = cum_seq + 1
      /\ cum_seq' = m.seq
      /\ disk' = Write(DiskFor(m), OpenFor(m), <<m.data>>)
  BY SequentialEffect
<1>3. /\ sender_q' = <<a>>
      /\ rcv_start' = TRUE
      /\ done' = (done \/ m.is_end)
      /\ pd' = CloseIfDone(done', OpenFor(m))
  BY <1>1 DEF RcvSequential, HandleSender
<1>4. ~done
  <2>1. cum_seq \in Nat /\ pkt_cnt[a] \in Nat
    BY DEF TypeOK, RcvTypeOK, NcpTypeOK
  <2>2. cum_seq > 0 => cum_seq \in 1 .. pkt_cnt[a] - 2
    BY <1>1, <1>2, <2>1
  <2>3. cum_seq > 0 => ~is_end(a, cum_seq)
    BY <2>2 DEF LoneInv, FetchedInv
  <2> QED
    BY <2>3 DEF LoneInv, ServesOnly
<1>5. /\ OpenFor(m) = d_fname[a]
      /\ DiskFor(m)[d_fname[a]] = Prefix(a, cum_seq)
      /\ d_fname[a] \in Fnames
      /\ d_fname[a] # NoFile
  BY <1>4, LoneOpen, PacketAssumption, NoFileAssumption
<1>6. DiskFor(m) \in [Fnames -> Seq(Chunk)]
  BY HandleSenderType DEF TypeOK, NetTypeOK
<1>7. disk'[d_fname[a]] = Prefix(a, cum_seq')
  <2>1. disk'[d_fname[a]] = Prefix(a, cum_seq) \o <<fetch_next(a, cum_seq + 1)>>
    BY <1>1, <1>2, <1>5, <1>6 DEF Write
  <2>2. cum_seq \in Nat
    BY DEF TypeOK, RcvTypeOK
  <2> QED
    BY <1>2, <2>1, <2>2, PrefixAppend
<1>8. done' <=> cum_seq' > 0 /\ is_end(a, cum_seq')
  <2>1. done' <=> is_end(a, m.seq)
    BY <1>1, <1>3, <1>4
  <2>2. cum_seq' = m.seq /\ m.seq > 0
    BY <1>1, <1>2
  <2> QED
    BY <2>1, <2>2
<1>9. pd' # NoFile => pd' = d_fname[a]
  BY <1>3, <1>5 DEF CloseIfDone
<1>10. cum_seq' < pkt_cnt'[a]
  BY <1>1, <1>2 DEF ncpVars
<1> QED
  BY <1>3, <1>4, <1>7, <1>8, <1>9, <1>10 DEF ServesOnly, is_end, dt_size, ftell, Prefix, fetch_next

(* The other branches of "handle receive" change neither cum_seq nor done.  *)
LEMMA LoneOther ==
  ASSUME NEW a, Senders = {a}, TypeOK, LoneInv(a), NEW m \in toRcv,
         RcvOld(m) \/ RcvFuture(m) \/ RcvFutureIgnored(m), UNCHANGED ncpVars
  PROVE  /\ ServesOnly(a)'
         /\ UNCHANGED <<cum_seq, done>>
         /\ rcv_start'
         /\ disk' = DiskFor(m)
<1>1. /\ sender_q' = <<a>>
      /\ rcv_start' = TRUE
      /\ disk' = DiskFor(m)
      /\ UNCHANGED <<cum_seq, done>>
  BY LoneDatagram DEF RcvOld, RcvFuture, RcvFutureIgnored, HandleSender
<1>2. /\ DiskFor(m)[d_fname[a]] = Prefix(a, cum_seq)
      /\ OpenFor(m) = IF done THEN NoFile ELSE d_fname[a]
  BY LoneOpen
<1>3. pd' = OpenFor(m) \/ pd' = NoFile
  BY DEF RcvOld, RcvFuture, RcvFutureIgnored, CloseIfDone
<1>4. disk'[d_fname[a]] = Prefix(a, cum_seq')
  BY <1>1, <1>2
<1>5. pd' # NoFile => pd' = d_fname[a]
  BY <1>2, <1>3
<1>6. cum_seq' < pkt_cnt'[a] /\ (done' <=> cum_seq' > 0 /\ is_end(a, cum_seq'))
  BY <1>1 DEF ncpVars, LoneInv, ServesOnly
<1>7. ServesOnly(a)'
  BY <1>1, <1>4, <1>5, <1>6 DEF ServesOnly, is_end, dt_size, ftell, Prefix, fetch_next
<1> QED
  BY <1>1, <1>7

(* After a switch nobody is served.                                         *)
LEMMA LoneSwitch ==
  ASSUME NEW a, Senders = {a}, TypeOK, LoneInv(a), Switch
  PROVE  /\ ServesOnly(a)'
         /\ UNCHANGED <<disk, toRcv, ncpVars>>
         /\ IF done THEN cum_seq' = 0 /\ ~rcv_start'
                    ELSE UNCHANGED <<cum_seq, rcv_start>>
         /\ \A n \in toNcp' : n \in toNcp \/ n.cum_seq = cum_seq'
<1>1. /\ sender_q' = NextQueue
      /\ cum_seq' = NextCumSeq
      /\ done' = FALSE
      /\ rcv_start' = (rcv_start /\ ~done)
      /\ UNCHANGED <<pd, disk, toRcv, ncpVars>>
  BY DEF Switch, RcvTimeout
<1>2. \A n \in toNcp' : n \in toNcp \/ n.cum_seq = cum_seq'
  BY <1>1 DEF Switch, RcvTimeout, ack_pkt
<1>3. pkt_cnt[a] \in Nat \ {0} /\ pkt_cnt' = pkt_cnt
  BY <1>1 DEF TypeOK, NcpTypeOK, ncpVars
<1>4. CASE done
  <2>1. rcv_start /\ sender_q = <<a>> /\ pd = NoFile
    BY <1>4 DEF LoneInv, ServesOnly, StreamOpenWhileReceiving
  <2>2. sender_q' = <<>> /\ cum_seq' = 0 /\ ~rcv_start'
    <3>1. <<a>> # <<>> /\ Tail(<<a>>) = <<>>
      OBVIOUS
    <3>2. NextQueue = <<>>
      BY <1>4, <2>1, <3>1 DEF NextQueue
    <3> QED
      BY <1>1, <1>4, <3>2 DEF NextCumSeq
  <2>3. cum_seq' < pkt_cnt'[a] /\ ~(cum_seq' > 0)
    BY <1>3, <2>2
  <2>4. pd' = NoFile
    BY <1>1, <2>1
  <2>5. ServesOnly(a)'
    BY <1>1, <2>2, <2>3, <2>4 DEF ServesOnly
  <2> QED
    BY <1>1, <1>2, <1>4, <2>2, <2>5
<1>5. CASE ~done
  <2>1. UNCHANGED <<sender_q, cum_seq, done, rcv_start>>
    BY <1>1, <1>5 DEF NextQueue, NextCumSeq, TypeOK, RcvTypeOK
  <2>2. ServesOnly(a)'
    BY <1>1, <1>3, <2>1
       DEF LoneInv, ServesOnly, is_end, dt_size, ftell, Prefix, fetch_next
  <2> QED
    BY <1>1, <1>2, <1>5, <2>1, <2>2
<1> QED
  BY <1>4, <1>5

(* A step of ncp leaves rcv alone and only moves pkt_cnt forward.           *)
LEMMA LoneNcpStep ==
  ASSUME NEW a, Senders = {a}, TypeOK, LoneInv(a), UNCHANGED rcvVars,
         pkt_cnt'[a] \in Int, pkt_cnt'[a] >= pkt_cnt[a]
  PROVE  ServesOnly(a)'
<1>1. cum_seq \in Nat /\ pkt_cnt[a] \in Nat
  BY DEF TypeOK, RcvTypeOK, NcpTypeOK
<1>2. cum_seq' < pkt_cnt'[a]
  BY <1>1 DEF LoneInv, ServesOnly, rcvVars
<1> QED
  BY <1>2 DEF LoneInv, ServesOnly, rcvVars, is_end, dt_size, ftell, Prefix, fetch_next

(* pkt_cnt never goes back.                                                 *)
LEMMA PktCntGrows ==
  ASSUME TypeOK, NEW a \in Senders,
         Start \/ Kill \/ Transmit \/ AckIn \/ NackIn \/ StaleNack
  PROVE  /\ UNCHANGED rcvVars
         /\ pkt_cnt'[a] \in Int
         /\ pkt_cnt'[a] >= pkt_cnt[a]
<1>1. UNCHANGED rcvVars
  BY DEF Start, Kill, Transmit, AckIn, NackIn, StaleNack
<1>2. pkt_cnt \in [Senders -> Nat \ {0}]
  BY DEF TypeOK, NcpTypeOK
<1>3. CASE UNCHANGED pkt_cnt
  BY <1>1, <1>2, <1>3
<1>4. CASE Transmit
  <2>1. PICK s \in Senders : NcpTimeout(s)
    BY <1>4 DEF Transmit
  <2>2. PICK cnt : SendUnacked(s, cnt)
    BY <2>1 DEF NcpTimeout
  <2>3. cnt \in Nat \ {0} /\ cnt >= pkt_cnt[s]
    BY <2>2, FillWin DEF TypeOK, SendUnacked
  <2>4. pkt_cnt' = [pkt_cnt EXCEPT ![s] = cnt]
    BY <2>2 DEF SendUnacked
  <2> QED
    BY <1>1, <1>2, <2>3, <2>4
<1> QED
  BY <1>3, <1>4
     DEF Start, Kill, AckIn, NackIn, StaleNack, NcpStart, NcpKilled, NcpAck, NcpNack,
         NcpNackMissing

LEMMA NextServes ==
  ASSUME NEW a, Senders = {a}, TypeOK, LoneInv(a), [Next]_vars
  PROVE  ServesOnly(a)'
<1>1. CASE Start \/ Kill \/ Transmit \/ AckIn \/ NackIn \/ StaleNack
  BY <1>1, PktCntGrows, LoneNcpStep
<1>2. CASE Old \/ Future \/ Ignored
  BY <1>2, LoneOther DEF Old, Future, Ignored
<1>3. CASE InOrder
  BY <1>3, LoneSequential DEF InOrder
<1>4. CASE Block
  BY <1>4, LoneDatagram DEF Block
<1>5. CASE Switch
  BY <1>5, LoneSwitch
<1>6. CASE Lose \/ UNCHANGED vars
  <2>1. UNCHANGED <<rcvVars, pkt_cnt>>
    BY <1>6 DEF Lose, vars, ncpVars
  <2>2. pkt_cnt[a] \in Int
    BY DEF TypeOK, NcpTypeOK
  <2> QED
    BY <2>1, <2>2, LoneNcpStep
<1> QED
  BY <1>1, <1>2, <1>3, <1>4, <1>5, <1>6 DEF Next

LEMMA LoneInvariant ==
  ASSUME NEW a, Senders = {a}
  PROVE  Spec => []LoneInv(a)
<1>1. Init => ServesOnly(a)
  BY DEF Init, NcpInit, RcvInit, ServesOnly
<1>2. TypeOK /\ FetchedInv /\ StreamOpenWhileReceiving /\ ServesOnly(a) /\ [Next]_vars
        => ServesOnly(a)'
  BY NextServes DEF LoneInv
<1>3. LoneInv(a) <=> FetchedInv /\ StreamOpenWhileReceiving /\ ServesOnly(a)
  BY DEF LoneInv
<1> QED
  BY <1>1, <1>2, <1>3, TypeCorrect, StreamLifecycle, FetchedOnce, PTL DEF Spec

(***************************************************************************)
(* With one sender, and whatever the network and rcv's timeout do: the     *)
(* file that is being received is always the first cum_seq packets of the  *)
(* source, byte for byte, in order, without a gap and without a duplicate. *)
(***************************************************************************)
THEOREM LonePrefix ==
  ASSUME NEW a, Senders = {a}
  PROVE  Spec => []OpenFileIsPrefix
<1>1. ASSUME TypeOK, LoneInv(a) PROVE OpenFileIsPrefix
  <2> SUFFICES ASSUME pd # NoFile
               PROVE  /\ sender_q # <<>>
                      /\ Len(disk[pd]) = cum_seq
                      /\ InOrderBytes(sender_q[1], disk[pd])
    BY DEF OpenFileIsPrefix
  <2>1. rcv_start /\ sender_q = <<a>> /\ disk[pd] = Prefix(a, cum_seq)
    BY <1>1 DEF LoneInv, ServesOnly, StreamOpenWhileReceiving
  <2>2. cum_seq \in Nat /\ pkt_cnt[a] \in Nat /\ cum_seq < pkt_cnt[a]
    BY <1>1 DEF LoneInv, ServesOnly, TypeOK, RcvTypeOK, NcpTypeOK
  <2>3. \A j \in 1 .. cum_seq - 1 : ~is_end(a, j)
    BY <1>1, <2>2 DEF LoneInv, FetchedInv
  <2>4. InOrderBytes(a, Prefix(a, cum_seq)) /\ Len(Prefix(a, cum_seq)) = cum_seq
    BY <2>2, <2>3, PrefixInOrder, PrefixFacts
  <2> QED
    BY <2>1, <2>4
<1> QED
  BY <1>1, TypeCorrect, LoneInvariant, PTL

(***************************************************************************)
(* One sender, and a timeout of rcv that is longer than any silence of a   *)
(* live sender: the copy is complete when the sender exits.                *)
(***************************************************************************)
(* While it is being served, the file is whole exactly when done is set.    *)
LEMMA WholeIsDone ==
  ASSUME NEW a, Senders = {a}, TypeOK, LoneInv(a), rcv_start
  PROVE  WholeFile(a, disk[d_fname[a]]) <=> done
<1>1. cum_seq \in Nat /\ pkt_cnt[a] \in Nat /\ cum_seq < pkt_cnt[a]
  BY DEF LoneInv, ServesOnly, TypeOK, RcvTypeOK, NcpTypeOK
<1>2. \A j \in 1 .. cum_seq - 1 : ~is_end(a, j)
  BY <1>1 DEF LoneInv, FetchedInv
<1>3. WholeFile(a, Prefix(a, cum_seq)) <=> cum_seq > 0 /\ is_end(a, cum_seq)
  BY <1>1, <1>2, PrefixWhole
<1> QED
  BY <1>3 DEF LoneInv, ServesOnly

(* A whole file is not written to any more.                                 *)
LEMMA WholeStep ==
  ASSUME NEW a, Senders = {a}, TypeOK, LoneInv(a), TimelyInv(a), [Next]_vars,
         WholeFile(a, disk[d_fname[a]])
  PROVE  disk'[d_fname[a]] = disk[d_fname[a]]
<1>1. CASE UNCHANGED disk
  BY <1>1
<1>2. ASSUME NEW m \in toRcv
      PROVE  rcv_start
  <2>1. disk[d_fname[a]] # <<>>
    BY DEF WholeFile
  <2> QED
    BY <2>1 DEF TimelyInv
<1>3. CASE Old \/ Future \/ Ignored
  <2>1. PICK m \in toRcv : disk' = DiskFor(m)
    BY <1>3 DEF Old, Future, Ignored, RcvOld, RcvFuture, RcvFutureIgnored
  <2> QED
    BY <1>2, <2>1 DEF DiskFor
<1>4. CASE InOrder
  <2>1. PICK m \in toRcv : RcvSequential(m) /\ UNCHANGED ncpVars
    BY <1>4 DEF InOrder
  <2>2. rcv_start /\ ~done
    BY <1>2, <2>1, LoneSequential
  <2> QED
    BY <2>2, WholeIsDone
<1> QED
  BY <1>1, <1>3, <1>4
     DEF Next, Start, Kill, Transmit, AckIn, NackIn, StaleNack, Block, RcvBlock,
         Switch, RcvTimeout, Lose, vars, rcvVars

LEMMA NcpTimely ==
  ASSUME NEW a, Senders = {a}, TypeOK, LoneInv(a), TimelyInv(a),
         Start \/ Kill \/ Transmit \/ AckIn \/ NackIn \/ StaleNack
  PROVE  TimelyInv(a)'
<1>1. UNCHANGED rcvVars
  BY PktCntGrows
<1>2. /\ ncp_pc \in [Senders -> {"idle", "run", "exit", "killed"}]
      /\ pkt_cnt \in [Senders -> Nat \ {0}]
      /\ ncp_window \in [Senders -> SUBSET (Nat \ {0})]
      /\ blocked \in [Senders -> BOOLEAN]
      /\ last_pkt \in [Senders -> {-1} \cup (Nat \ {0})]
      /\ toNcp \subseteq AckPkt
      /\ cum_seq \in Nat
  BY DEF TypeOK, NcpTypeOK, RcvTypeOK, NetTypeOK
<1>3. CASE Start \/ Kill
  <2>1. /\ UNCHANGED <<ncp_window, pkt_cnt, blocked, toNcp, toRcv>>
        /\ ncp_pc[a] \in {"idle", "run"}
        /\ ncp_pc'[a] \in {"run", "killed"}
    BY <1>2, <1>3 DEF Start, Kill, NcpStart, NcpKilled, netVars, Running
  <2>2. rcv_start \/ disk[d_fname[a]] = <<>>
    BY <2>1 DEF TimelyInv
  <2> QED
    BY <1>1, <2>1, <2>2 DEF TimelyInv, rcvVars
<1>4. CASE Transmit
  <2>1. NcpTimeout(a)
    BY <1>4 DEF Transmit
  <2>2. PICK cnt : SendUnacked(a, cnt)
    BY <2>1 DEF NcpTimeout
  <2>3. ncp_pc[a] = "run" /\ ~blocked[a] /\ UNCHANGED <<ncp_pc, blocked, toNcp>>
    BY <2>1 DEF NcpTimeout, Running
  <2>4. cnt \in Nat \ {0} /\ cnt >= pkt_cnt[a]
    BY <2>2, FillWin DEF TypeOK, SendUnacked
  <2>5. /\ pkt_cnt'[a] = cnt
        /\ ncp_window'[a] = ncp_window[a] \cup (pkt_cnt[a] .. cnt - 1)
    BY <1>2, <2>2 DEF SendUnacked
  <2>6. \A k \in 1 .. pkt_cnt'[a] - 1 : k \notin ncp_window'[a] => k <= cum_seq'
    <3> SUFFICES ASSUME NEW k \in 1 .. cnt - 1, k \notin ncp_window'[a]
                 PROVE  k <= cum_seq
      BY <1>1, <2>5 DEF rcvVars
    <3>1. k \in 1 .. pkt_cnt[a] - 1 /\ k \notin ncp_window[a]
      BY <1>2, <2>4, <2>5
    <3> QED
      BY <2>3, <3>1 DEF TimelyInv
  <2>7. rcv_start \/ disk[d_fname[a]] = <<>>
    BY <2>3 DEF TimelyInv
  <2> QED
    BY <1>1, <2>3, <2>6, <2>7 DEF TimelyInv, rcvVars
<1>5. ASSUME NEW m \in toNcp, Running(a), ReadBlocked(m)
      PROVE  m.dst = a /\ blocked'[a] = FALSE
  <2>1. m.dst = a /\ m.cum_seq \in Int /\ m.cum_seq >= 0
    BY <1>2 DEF AckPkt, TimelyInv
  <2>2. (m.cum_seq < 0) = FALSE
    BY <2>1
  <2>3. blocked'[a] = (m.cum_seq < 0)
    BY <1>2, <1>5, <2>1 DEF ReadBlocked
  <2> QED
    BY <2>1, <2>2, <2>3
<1>6. CASE AckIn
  <2>1. PICK m \in toNcp : NcpAck(m)
    BY <1>6 DEF AckIn
  <2>2. m.dst = a /\ m.cum_seq \in Int /\ ~m.is_nack /\ ncp_pc[a] = "run"
    BY <1>2, <2>1 DEF NcpAck, AckPkt, Running
  <2>3. m.cum_seq <= cum_seq
    BY <2>1, <2>2 DEF TimelyInv
  <2>4. blocked'[a] = FALSE
    BY <1>5, <2>1, <2>2 DEF NcpAck, Running
  <2>5. /\ ncp_window'[a] = ncp_window[a] \ Acked(m)
        /\ UNCHANGED <<pkt_cnt, toRcv>>
        /\ toNcp' \subseteq toNcp
        /\ ncp_pc'[a] = IF AcksLast(m) THEN "exit" ELSE "run"
    BY <1>2, <2>1, <2>2 DEF NcpAck, Received
  <2>6. \A k \in 1 .. pkt_cnt'[a] - 1 : k \notin ncp_window'[a] => k <= cum_seq'
    <3> SUFFICES ASSUME NEW k \in 1 .. pkt_cnt[a] - 1, k \notin ncp_window'[a]
                 PROVE  k <= cum_seq
      BY <1>1, <2>5 DEF rcvVars
    <3>1. CASE k \notin ncp_window[a]
      BY <2>2, <3>1 DEF TimelyInv
    <3>2. CASE k \in ncp_window[a]
      <4>1. k <= m.cum_seq
        BY <2>2, <2>5, <3>2 DEF Acked
      <4> QED
        BY <1>2, <2>2, <2>3, <4>1
    <3> QED
      BY <3>1, <3>2
  <2>7. rcv_start \/ disk[d_fname[a]] = <<>>
    BY <2>2 DEF TimelyInv
  <2>8. AcksLast(m) => WholeFile(a, disk[d_fname[a]])
    <3> SUFFICES ASSUME AcksLast(m) PROVE WholeFile(a, disk[d_fname[a]])
      OBVIOUS
    <3>1. last_pkt[a] # -1 /\ m.cum_seq >= last_pkt[a]
      BY <2>2 DEF AcksLast
    <3>2. last_pkt[a] = pkt_cnt[a] - 1 /\ is_end(a, last_pkt[a])
      BY <3>1 DEF LoneInv, FetchedInv
    <3>3. last_pkt[a] \in Nat \ {0} /\ pkt_cnt[a] \in Nat /\ cum_seq < pkt_cnt[a]
      BY <1>2, <3>1 DEF LoneInv, ServesOnly
    <3>4. cum_seq = last_pkt[a] /\ cum_seq > 0
      BY <1>2, <2>2, <2>3, <3>1, <3>2, <3>3
    <3>5. done /\ rcv_start
      BY <3>2, <3>4 DEF LoneInv, ServesOnly, StreamOpenWhileReceiving
    <3> QED
      BY <3>5, WholeIsDone
  <2> QED
    BY <1>1, <2>2, <2>4, <2>5, <2>6, <2>7, <2>8 DEF TimelyInv, rcvVars
<1>7. CASE NackIn \/ StaleNack
  <2>1. PICK m \in toNcp : NcpNack(m) \/ NcpNackMissing(m)
    BY <1>7 DEF NackIn, StaleNack
  <2>2. ncp_pc[a] = "run" /\ blocked'[a] = FALSE
    <3>1. Running(m.dst) /\ ReadBlocked(m) /\ m.dst = a
      BY <1>2, <2>1 DEF NcpNack, NcpNackMissing, AckPkt
    <3> QED
      BY <1>5, <3>1 DEF Running
  <2>3. UNCHANGED <<ncp_pc, ncp_window, pkt_cnt>> /\ toNcp' \subseteq toNcp
    BY <2>1 DEF NcpNack, NcpNackMissing, Received
  <2>4. rcv_start \/ disk[d_fname[a]] = <<>>
    BY <2>2 DEF TimelyInv
  <2> QED
    BY <1>1, <2>2, <2>3, <2>4 DEF TimelyInv, rcvVars
<1> QED
  BY <1>3, <1>4, <1>6, <1>7

LEMMA RcvTimely ==
  ASSUME NEW a, Senders = {a}, TypeOK, LoneInv(a), TimelyInv(a),
         Old \/ InOrder \/ Future \/ Ignored
  PROVE  TimelyInv(a)'
<1>1. PICK m \in toRcv : /\ RcvOld(m) \/ RcvSequential(m) \/ RcvFuture(m) \/ RcvFutureIgnored(m)
                        /\ UNCHANGED ncpVars
  BY DEF Old, InOrder, Future, Ignored
<1>2. cum_seq \in Nat /\ m.seq \in Nat \ {0}
  BY LoneDatagram DEF TypeOK, RcvTypeOK
<1>3. rcv_start' = TRUE
  BY <1>1 DEF RcvOld, RcvSequential, RcvFuture, RcvFutureIgnored, HandleSender
<1>4. cum_seq' \in Nat /\ cum_seq' >= cum_seq
  <2>1. cum_seq' = cum_seq + 1 \/ cum_seq' = cum_seq
    <3>1. CASE RcvSequential(m)
      BY <3>1, SequentialEffect
    <3>2. CASE RcvOld(m) \/ RcvFuture(m) \/ RcvFutureIgnored(m)
      BY <3>2 DEF RcvOld, RcvFuture, RcvFutureIgnored
    <3> QED
      BY <1>1, <3>1, <3>2
  <2>2. cum_seq \in Nat
    BY <1>2
  <2> QED
    BY <2>1, <2>2
<1>5. ASSUME NEW n \in toNcp', n \notin toNcp
      PROVE  n.cum_seq \in Nat /\ (~n.is_nack => n.cum_seq = cum_seq')
  <2>1. CASE RcvOld(m)
    BY <1>2, <1>5, <2>1 DEF RcvOld, ack_pkt
  <2>2. CASE RcvSequential(m)
    BY <1>2, <1>5, <2>2 DEF RcvSequential, ack_pkt
  <2>3. CASE RcvFuture(m)
    <3>1. PICK k \in GappedSeqs(m) : n = ack_pkt(from_addr(m), k, TRUE)
      BY <1>5, <2>3 DEF RcvFuture
    <3>2. k \in Nat
      BY <1>2, <3>1 DEF GappedSeqs, WindowSeq
    <3> QED
      BY <3>1, <3>2 DEF ack_pkt
  <2>4. CASE RcvFutureIgnored(m)
    BY <1>5, <2>4 DEF RcvFutureIgnored
  <2> QED
    BY <1>1, <2>1, <2>2, <2>3, <2>4
<1>6. \A n \in toNcp : n.cum_seq \in Int
  BY DEF TypeOK, NetTypeOK, AckPkt
<1>7. \A n \in toNcp' : n.cum_seq >= 0
  BY <1>5 DEF TimelyInv
<1>8. ASSUME ncp_pc[a] \in {"idle", "run"}
      PROVE  /\ \A k \in 1 .. pkt_cnt[a] - 1 : k \notin ncp_window[a] => k <= cum_seq'
             /\ \A n \in toNcp' : ~n.is_nack => n.cum_seq <= cum_seq'
  <2>1. \A k \in 1 .. pkt_cnt[a] - 1 : k \notin ncp_window[a] => k <= cum_seq'
    <3>1. \A k \in 1 .. pkt_cnt[a] - 1 : k \notin ncp_window[a] => k <= cum_seq
      BY <1>8 DEF TimelyInv
    <3>2. pkt_cnt[a] \in Nat
      BY DEF TypeOK, NcpTypeOK
    <3> QED
      BY <1>2, <1>4, <3>1, <3>2
  <2>2. ASSUME NEW n \in toNcp', ~n.is_nack PROVE n.cum_seq <= cum_seq'
    <3>1. CASE n \in toNcp
      <4>1. n.cum_seq <= cum_seq /\ n.cum_seq \in Int
        BY <1>6, <1>8, <2>2, <3>1 DEF TimelyInv
      <4> QED
        BY <1>2, <1>4, <4>1
    <3>2. CASE n \notin toNcp
      BY <1>4, <1>5, <2>2, <3>2
    <3> QED
      BY <3>1, <3>2
  <2> QED
    BY <2>1, <2>2
<1>9. ncp_pc[a] = "exit" => WholeFile(a, disk'[d_fname[a]])
  <2>1. [Next]_vars
    BY DEF Next
  <2> QED
    BY <2>1, WholeStep DEF TimelyInv
<1> QED
  BY <1>1, <1>3, <1>7, <1>8, <1>9 DEF TimelyInv, ncpVars, WholeFile, InOrderBytes

LEMMA SwitchTimely ==
  ASSUME NEW a, Senders = {a}, Timely, TypeOK, LoneInv(a), TimelyInv(a), Switch
  PROVE  TimelyInv(a)'
<1>1. /\ UNCHANGED <<disk, toRcv, ncpVars>>
      /\ IF done THEN cum_seq' = 0 /\ ~rcv_start'
                 ELSE UNCHANGED <<cum_seq, rcv_start>>
      /\ \A n \in toNcp' : n \in toNcp \/ n.cum_seq = cum_seq'
  BY LoneSwitch
<1>2. toRcv = {} /\ (Running(a) => blocked[a])
  BY DEF Switch, Quiet
<1>3. /\ ncp_pc[a] \in {"idle", "run", "exit", "killed"}
      /\ pkt_cnt[a] \in Nat
      /\ cum_seq \in Nat
  BY DEF TypeOK, NcpTypeOK, RcvTypeOK
<1>4. done => ncp_pc[a] \in {"exit", "killed"}
  <2> SUFFICES ASSUME ncp_pc[a] \in {"idle", "run"} PROVE ~done
    BY <1>3
  <2>1. pkt_cnt[a] = 1
    BY <1>2 DEF TimelyInv, Running
  <2>2. ~(cum_seq > 0)
    BY <1>3, <2>1 DEF LoneInv, ServesOnly
  <2> QED
    BY <2>2 DEF LoneInv, ServesOnly
<1>5. CASE done
  BY <1>1, <1>2, <1>4, <1>5 DEF TimelyInv, ncpVars, WholeFile, InOrderBytes
<1>6. CASE ~done
  <2>1. cum_seq' = cum_seq /\ rcv_start' = rcv_start
    BY <1>1, <1>6
  <2>2. \A n \in toNcp' : n.cum_seq >= 0
    BY <1>1, <1>3, <2>1 DEF TimelyInv
  <2>3. ncp_pc[a] \in {"idle", "run"} =>
          \A n \in toNcp' : ~n.is_nack => n.cum_seq <= cum_seq'
    BY <1>1, <1>3, <2>1 DEF TimelyInv
  <2> QED
    BY <1>1, <2>1, <2>2, <2>3 DEF TimelyInv, ncpVars, WholeFile, InOrderBytes
<1> QED
  BY <1>5, <1>6

LEMMA NextTimely ==
  ASSUME NEW a, Senders = {a}, Timely, TypeOK, LoneInv(a), TimelyInv(a), [Next]_vars
  PROVE  TimelyInv(a)'
<1>1. CASE Start \/ Kill \/ Transmit \/ AckIn \/ NackIn \/ StaleNack
  BY <1>1, NcpTimely
<1>2. CASE Old \/ InOrder \/ Future \/ Ignored
  BY <1>2, RcvTimely
<1>3. CASE Block
  BY <1>3, LoneDatagram DEF Block
<1>4. CASE Switch
  BY <1>4, SwitchTimely
<1>5. CASE Lose
  BY <1>5 DEF Lose, LoseData, LoseAck, TimelyInv, ncpVars, rcvVars, Running,
              WholeFile, InOrderBytes
<1>6. CASE UNCHANGED vars
  BY <1>6 DEF vars, ncpVars, rcvVars, netVars, TimelyInv, Running, WholeFile, InOrderBytes
<1> QED
  BY <1>1, <1>2, <1>3, <1>4, <1>5, <1>6 DEF Next

LEMMA TimelyInvariant ==
  ASSUME NEW a, Senders = {a}, Timely
  PROVE  Spec => [](TypeOK /\ LoneInv(a) /\ TimelyInv(a))
<1>1. Init => TimelyInv(a)
  <2> SUFFICES ASSUME Init PROVE TimelyInv(a)
    OBVIOUS
  <2>1. d_fname[a] \in Fnames
    BY PacketAssumption
  <2> QED
    BY <2>1 DEF Init, NcpInit, RcvInit, NetInit, TimelyInv
<1>2. TypeOK /\ LoneInv(a) /\ TimelyInv(a) /\ [Next]_vars => TimelyInv(a)'
  BY NextTimely
<1> QED
  BY <1>1, <1>2, TypeCorrect, LoneInvariant, PTL DEF Spec

(***************************************************************************)
(* ncp returns from main only when the destination file is the whole       *)
(* source file. This rests on the ack of the end packet alone: NACKs,      *)
(* retransmissions, duplicates and the loss of any datagram do not matter. *)
(***************************************************************************)
THEOREM LoneExitMeansCopied ==
  ASSUME NEW a, Senders = {a}, Timely
  PROVE  Spec => []ExitMeansCopied
<1>1. TimelyInv(a) => ExitMeansCopied
  BY DEF TimelyInv, ExitMeansCopied
<1> QED
  BY <1>1, TimelyInvariant, PTL

(***************************************************************************)
(* ncp erases a packet from its window only when rcv has written it.       *)
(***************************************************************************)
THEOREM LoneDiscardedIsWritten ==
  ASSUME NEW a, Senders = {a}, Timely
  PROVE  Spec => []DiscardedIsWritten
<1>1. ASSUME TypeOK, LoneInv(a), TimelyInv(a) PROVE DiscardedIsWritten
  <2> SUFFICES ASSUME Running(a),
                      NEW k \in 1 .. (pkt_cnt[a] - 1), k \notin ncp_window[a]
               PROVE  /\ k <= Len(disk[d_fname[a]])
                      /\ disk[d_fname[a]][k] = fetch_next(a, k)
    BY DEF DiscardedIsWritten
  <2>1. cum_seq \in Nat /\ pkt_cnt[a] \in Nat
    BY <1>1 DEF TypeOK, RcvTypeOK, NcpTypeOK
  <2>2. k <= cum_seq
    BY <1>1 DEF TimelyInv, Running
  <2>3. k \in 1 .. cum_seq /\ cum_seq # 0
    BY <2>1, <2>2
  <2>4. disk[d_fname[a]] = Prefix(a, cum_seq)
    BY <1>1, <2>3 DEF LoneInv, ServesOnly, StreamOpenWhileReceiving
  <2>5. /\ Len(Prefix(a, cum_seq)) = cum_seq
        /\ Prefix(a, cum_seq)[k] = fetch_next(a, k)
    BY <2>1, <2>3, PrefixFacts
  <2> QED
    BY <2>2, <2>4, <2>5
<1> QED
  BY <1>1, TimelyInvariant, PTL

(***************************************************************************)
(* A file that has been copied completely is never truncated or appended   *)
(* to again.                                                               *)
(***************************************************************************)
THEOREM LoneCompleteStaysComplete ==
  ASSUME NEW a, Senders = {a}, Timely
  PROVE  Spec => CompleteStaysComplete
<1>1. TypeOK /\ LoneInv(a) /\ TimelyInv(a) /\ [Next]_vars =>
        [\A s \in Senders :
           WholeFile(s, disk[d_fname[s]]) => WholeFile(s, disk[d_fname[s]])']_vars
  <2> SUFFICES ASSUME TypeOK, LoneInv(a), TimelyInv(a), [Next]_vars,
                      WholeFile(a, disk[d_fname[a]])
               PROVE  WholeFile(a, disk[d_fname[a]])'
    OBVIOUS
  <2>1. disk'[d_fname[a]] = disk[d_fname[a]]
    BY WholeStep
  <2> QED
    BY <2>1 DEF WholeFile, InOrderBytes
<1> QED
  BY <1>1, TimelyInvariant, PTL DEF Spec, CompleteStaysComplete

(***************************************************************************)
(* One timely sender: the two programs implement ReliableCopy.             *)
(***************************************************************************)
LEMMA LoneIs ==
  ASSUME NEW a, Senders = {a}
  PROVE  Lone = a
<1>1. \E s \in Senders : TRUE
  OBVIOUS
<1>2. Lone \in Senders
  BY <1>1, Zenon DEF Lone
<1> QED
  BY <1>2

(* A datagram finds the first cum_seq packets in the file, also when it is  *)
(* the first one, and was sent by a process that has been launched.         *)
LEMMA LoneFile ==
  ASSUME NEW a, Senders = {a}, TypeOK, LoneInv(a), TimelyInv(a), NEW m \in toRcv
  PROVE  /\ disk[d_fname[a]] = Prefix(a, cum_seq)
         /\ ncp_pc[a] # "idle"
<1>1. ASSUME rcv_start
      PROVE  disk[d_fname[a]] = Prefix(a, cum_seq)
  BY <1>1 DEF LoneInv, ServesOnly
<1>2. ASSUME ~rcv_start
      PROVE  disk[d_fname[a]] = Prefix(a, cum_seq)
  <2>1. disk[d_fname[a]] = <<>> /\ cum_seq = 0
    BY <1>2 DEF TimelyInv, LoneInv, StreamOpenWhileReceiving
  <2>2. Prefix(a, 0) = <<>>
    <3>1. Prefix(a, 0) \in Seq(Chunk) /\ Len(Prefix(a, 0)) = 0
      BY PrefixFacts
    <3> QED
      BY <3>1
  <2> QED
    BY <2>1, <2>2
<1>3. m.seq \in Nat \ {0} /\ m.seq < pkt_cnt[a]
  BY LoneDatagram
<1>4. pkt_cnt[a] # 1
  BY <1>3
<1>5. ncp_pc[a] # "idle"
  BY <1>4 DEF TimelyInv
<1> QED
  BY <1>1, <1>2, <1>5

(* Where the first n packets end.                                           *)
LEMMA PromisedEnd ==
  ASSUME NEW a, Senders = {a}, NEW n \in Nat, disk[d_fname[a]] = Prefix(a, n)
  PROVE  /\ disk[d_fname[a]] = <<>> <=> n = 0
         /\ Promised!End = IF n = 0 THEN 0 ELSE ftell(n) + dt_size(a, n)
<1>1. /\ Prefix(a, n) \in Seq(Chunk) /\ Len(Prefix(a, n)) = n
      /\ \A k \in 1 .. n : Prefix(a, n)[k] = fetch_next(a, k)
  BY PrefixFacts
<1>2. Lone = a
  BY LoneIs
<1>3. disk[d_fname[a]] = <<>> <=> n = 0
  BY <1>1
<1>4. CASE n = 0
  BY <1>2, <1>3, <1>4 DEF Promised!End
<1>5. CASE n # 0
  <2>1. n \in 1 .. n
    BY <1>5
  <2>2. Prefix(a, n)[n].off = ftell(n) /\ Prefix(a, n)[n].len = dt_size(a, n)
    BY <1>1, <2>1 DEF fetch_next
  <2>3. Promised!End = disk[d_fname[a]][Len(disk[d_fname[a]])].off + disk[d_fname[a]][Len(disk[d_fname[a]])].len
    BY <1>2, <1>3, <1>5 DEF Promised!End
  <2> QED
    BY <1>1, <1>3, <1>5, <2>2, <2>3
<1> QED
  BY <1>3, <1>4, <1>5

(* A packet that can follow n packets holds the next bytes of the file.     *)
LEMMA NextPiece ==
  ASSUME NEW a, Senders = {a}, NEW n \in Nat, disk[d_fname[a]] = Prefix(a, n), n > 0 => ~is_end(a, n)
  PROVE  /\ ~Promised!Whole
         /\ ftell(n + 1) = Promised!End
         /\ dt_size(a, n + 1) \in IF FileSize[a] = 0 THEN {0} ELSE 1 .. FileSize[a] - Promised!End
<1>1. FileSize[a] \in Nat /\ PKT_DT_SIZE \in Nat \ {0} /\ ftell(n) \in Int /\ ftell(n + 1) \in Int
  <2>1. FileSize[a] \in Nat /\ PKT_DT_SIZE \in Nat \ {0}
    BY PacketAssumption
  <2> QED
    BY <2>1 DEF ftell
<1>2. /\ disk[d_fname[a]] = <<>> <=> n = 0
      /\ Promised!End = IF n = 0 THEN 0 ELSE ftell(n) + dt_size(a, n)
  BY PromisedEnd
<1>3. Lone = a
  BY LoneIs
<1>4. ftell(n + 1) = Promised!End /\ (n # 0 => ftell(n + 1) < FileSize[a])
  <2>1. CASE n = 0
    BY <1>1, <1>2, <2>1 DEF ftell
  <2>2. CASE n # 0
    BY <1>2, <2>2, InnerPacket
  <2> QED
    BY <2>1, <2>2
<1>5. ~Promised!Whole
  <2>1. CASE n = 0
    BY <1>2, <1>3, <2>1 DEF Promised!Whole
  <2>2. CASE n # 0
    BY <1>1, <1>3, <1>4, <2>2 DEF Promised!Whole
  <2> QED
    BY <2>1, <2>2
<1>6. ftell(n + 1) <= FileSize[a] /\ (FileSize[a] # 0 => ftell(n + 1) < FileSize[a])
      /\ (FileSize[a] = 0 => ftell(n + 1) = 0)
  <2>1. ftell(n + 1) \in Nat
    <3>1. \A x, y \in Nat : x * y \in Nat
      OBVIOUS
    <3>2. (n + 1) - 1 = n
      OBVIOUS
    <3> QED
      BY <1>1, <3>1, <3>2 DEF ftell
  <2> QED
    BY <1>1, <1>2, <1>4, <2>1
<1>7. dt_size(a, n + 1) \in IF FileSize[a] = 0 THEN {0} ELSE 1 .. FileSize[a] - ftell(n + 1)
  BY <1>1, <1>6 DEF dt_size
<1> QED
  BY <1>4, <1>5, <1>7

(* SEQUENTIAL PKT makes the file grow.                                      *)
LEMMA InOrderGrows ==
  ASSUME NEW a, Senders = {a}, TypeOK, LoneInv(a), TimelyInv(a), InOrder
  PROVE  Promised!Grow
<1>1. PICK m \in toRcv : RcvSequential(m) /\ UNCHANGED ncpVars
  BY DEF InOrder
<1> DEFINE n == cum_seq
<1>2. n \in Nat /\ disk[d_fname[a]] = Prefix(a, n) /\ ncp_pc[a] # "idle"
  BY LoneFile DEF TypeOK, RcvTypeOK
<1>3. ServesOnly(a)' /\ ~done
  BY <1>1, LoneSequential
<1>4. rcv_start' = TRUE /\ cum_seq' = n + 1 /\ UNCHANGED ncp_pc
  BY <1>1, SequentialEffect DEF RcvSequential, HandleSender, ncpVars
<1>5. disk'[d_fname[a]] = Prefix(a, n + 1)
  BY <1>3, <1>4 DEF ServesOnly, Prefix, fetch_next, dt_size, ftell
<1>6. n > 0 => ~is_end(a, n)
  BY <1>3 DEF LoneInv, ServesOnly
<1> HIDE DEF n
<1>7. /\ ~Promised!Whole /\ ftell(n + 1) = Promised!End
      /\ dt_size(a, n + 1) \in IF FileSize[a] = 0 THEN {0} ELSE 1 .. FileSize[a] - Promised!End
  BY <1>2, <1>6, NextPiece
<1>8. disk'[d_fname[a]] = Append(disk[d_fname[a]], fetch_next(a, n + 1))
  <2>1. Prefix(a, n) \in Seq(Chunk) /\ fetch_next(a, n + 1) \in Chunk
    BY <1>2, PrefixFacts, FetchType
  <2>2. Append(Prefix(a, n), fetch_next(a, n + 1)) = Prefix(a, n) \o <<fetch_next(a, n + 1)>>
    BY <2>1
  <2> QED
    BY <1>2, <1>5, <2>2, PrefixAppend
<1>9. fetch_next(a, n + 1) = [src |-> a, off |-> Promised!End, len |-> dt_size(a, n + 1)]
  BY <1>7 DEF fetch_next
<1>10. Lone = a
  BY LoneIs
<1> HIDE DEF n
<1>11. \E k \in IF FileSize[a] = 0 THEN {0} ELSE 1 .. FileSize[a] - Promised!End :
         disk'[d_fname[a]] = Append(disk[d_fname[a]], [src |-> a, off |-> Promised!End, len |-> k])
  BY <1>7, <1>8, <1>9
<1> QED
  BY <1>2, <1>4, <1>7, <1>10, <1>11 DEF Promised!Grow

(* Every step is a step of ReliableCopy, or leaves file and process alone.  *)
LEMMA PromiseStep ==
  ASSUME NEW a, Senders = {a}, Timely, TypeOK, LoneInv(a), TimelyInv(a), [Next]_vars
  PROVE  [Promised!CopyNext]_(Promised!copyVars)
<1>0. Lone = a /\ ncp_pc \in [Senders -> {"idle", "run", "exit", "killed"}]
  BY LoneIs DEF TypeOK, NcpTypeOK
<1>1. CASE Start
  <2>1. ncp_pc[a] = "idle" /\ ncp_pc'[a] = "run" /\ UNCHANGED disk
    BY <1>0, <1>1 DEF Start, NcpStart, rcvVars
  <2> QED
    BY <1>0, <2>1 DEF Promised!CopyNext, Promised!Launch
<1>2. CASE Kill
  <2>1. ncp_pc[a] = "run" /\ ncp_pc'[a] = "killed" /\ UNCHANGED disk
    BY <1>0, <1>2 DEF Kill, NcpKilled, Running, rcvVars
  <2> QED
    BY <1>0, <2>1 DEF Promised!CopyNext, Promised!Die
<1>3. CASE AckIn
  <2>1. ncp_pc[a] = "run" /\ ncp_pc'[a] \in {"run", "exit"} /\ UNCHANGED disk
    BY <1>0, <1>3 DEF AckIn, NcpAck, Running, rcvVars, TypeOK, NetTypeOK, AckPkt
  <2>2. CASE ncp_pc'[a] = "run"
    BY <1>0, <2>1, <2>2 DEF Promised!copyVars
  <2>3. CASE ncp_pc'[a] = "exit"
    <3>1. TimelyInv(a)'
      BY NextTimely
    <3>2. WholeFile(a, disk[d_fname[a]])
      BY <2>1, <2>3, <3>1 DEF TimelyInv, WholeFile, InOrderBytes
    <3>3. disk[d_fname[a]] \in Seq(Chunk)
      BY PacketAssumption DEF TypeOK, RcvTypeOK
    <3>4. Promised!Whole
      BY <1>0, <3>2, <3>3 DEF WholeFile, Promised!Whole, Promised!End
    <3> QED
      BY <1>0, <2>1, <2>3, <3>4 DEF Promised!CopyNext, Promised!Return
  <2> QED
    BY <2>1, <2>2, <2>3
<1>4. CASE InOrder
  BY <1>4, InOrderGrows DEF Promised!CopyNext
<1>5. CASE Old \/ Future \/ Ignored
  <2>1. PICK m \in toRcv : /\ RcvOld(m) \/ RcvFuture(m) \/ RcvFutureIgnored(m)
                          /\ UNCHANGED ncpVars
    BY <1>5 DEF Old, Future, Ignored
  <2>2. disk'[d_fname[a]] = Prefix(a, cum_seq)
    BY <2>1, LoneOther, LoneOpen
  <2>3. disk[d_fname[a]] = Prefix(a, cum_seq)
    BY LoneFile
  <2> QED
    BY <1>0, <2>1, <2>2, <2>3 DEF Promised!copyVars, ncpVars
<1>6. CASE UNCHANGED <<ncp_pc, disk>>
  BY <1>6 DEF Promised!copyVars
<1>7. Block => FALSE
  BY LoneDatagram DEF Block
<1>8. Transmit \/ NackIn \/ StaleNack \/ Switch \/ Lose \/ UNCHANGED vars => UNCHANGED <<ncp_pc, disk>>
  BY DEF Transmit, NcpTimeout, NackIn, NcpNack, StaleNack, NcpNackMissing, Switch, RcvTimeout,
         Lose, vars, ncpVars, rcvVars
<1> QED
  BY <1>1, <1>2, <1>3, <1>4, <1>5, <1>6, <1>7, <1>8 DEF Next

(***************************************************************************)
(* With one sender and a timely rcv, ncp and rcv implement ReliableCopy,   *)
(* for every file, packet and window size: the whole protocol, from        *)
(* outside, is a file that grows by its next bytes and an ncp that returns *)
(* when it is whole (ncp.cpp:112-150, rcv.cpp:120-185).                    *)
(***************************************************************************)
THEOREM LoneCopiesReliably ==
  ASSUME NEW a, Senders = {a}, Timely
  PROVE  Spec => CopiesReliably
<1>1. Init => Promised!CopyInit
  <2>1. Lone = a /\ d_fname[a] \in Fnames
    BY LoneIs, PacketAssumption
  <2> QED
    BY <2>1 DEF Init, NcpInit, RcvInit, Promised!CopyInit
<1>2. TypeOK /\ LoneInv(a) /\ TimelyInv(a) /\ [Next]_vars => [Promised!CopyNext]_(Promised!copyVars)
  BY PromiseStep
<1> QED
  BY <1>1, <1>2, TimelyInvariant, PTL DEF Spec, CopiesReliably, Promised!Copy
===============================================================================
