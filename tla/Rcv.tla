---------------------------------- MODULE Rcv ----------------------------------
(***************************************************************************)
(* proj1/rcv.cpp, the receiving half of the file-copy tool: one process    *)
(* that serves the senders one after the other. Each pass of its select    *)
(* loop is one action.                                                     *)
(*                                                                         *)
(* recvfrom reads every datagram into the one array mess_buf, and window   *)
(* is a vector of pointers into which only the address of mess_buf is ever *)
(* pushed. So the vector is fully described by its length, and reading     *)
(* window[i]->seq reads the seq of the datagram that is being handled.     *)
(*                                                                         *)
(* As in Ncp, Op_word stands before Op and is a faulty variant of it.      *)
(***************************************************************************)
EXTENDS UdpNet, Sequences

CONSTANT NoFile   \* pd is not open

ASSUME NoFileAssumption == NoFile \notin Fnames

VARIABLES
  sender_q,    \* addresses of the senders, the one being served first
  rcv_start,   \* a transfer has started
  pd,          \* the name under which the output stream is open, or NoFile
  disk,        \* content of each destination file
  cum_seq,     \* highest sequence number received in order
  rcv_window,  \* length of window
  done         \* the end packet of the transfer has been received

rcvVars == <<sender_q, rcv_start, pd, disk, cum_seq, rcv_window, done>>

RcvInit ==
  /\ sender_q = <<>>
  /\ rcv_start = FALSE
  /\ pd = NoFile
  /\ disk = [f \in Fnames |-> <<>>]
  /\ cum_seq = 0
  /\ rcv_window = 0
  /\ done = FALSE

RcvTypeOK ==
  /\ sender_q \in Seq(Senders)
  /\ rcv_start \in BOOLEAN
  /\ pd \in Fnames \cup {NoFile}
  /\ disk \in [Fnames -> Seq(Chunk)]
  /\ cum_seq \in Nat
  /\ rcv_window \in Nat
  /\ done \in BOOLEAN

(***************************************************************************)
(* "Handle sender request": the queue of senders and the output file.      *)
(***************************************************************************)
Queued(s) == \E i \in DOMAIN sender_q : sender_q[i] = s

(* A sender that is not in the queue yet is appended to it, and then its    *)
(* datagram goes on to "handle receive" whoever is being served; only a     *)
(* sender that is already waiting is turned away. pd.is_open() guards the   *)
(* opening of the file of a new transfer.                                   *)
Admitted(m) ==
  /\ Queued(m.src) => sender_q[1] = m.src
  /\ rcv_start \/ pd = NoFile

QueueWith_again(m) == Append(sender_q, m.src)

QueueWith(m) == IF Queued(m.src) THEN sender_q ELSE Append(sender_q, m.src)

OpenFor(m) == IF rcv_start THEN pd ELSE m.d_fname

(* Opening an ofstream truncates the file.                                  *)
DiskFor_afterDone(m) ==
  IF rcv_start /\ ~done THEN disk ELSE [disk EXCEPT ![m.d_fname] = <<>>]

DiskFor(m) == IF rcv_start THEN disk ELSE [disk EXCEPT ![m.d_fname] = <<>>]

HandleSender(m) ==
  /\ Admitted(m)
  /\ sender_q' = QueueWith(m)
  /\ rcv_start' = TRUE

(* from_addr, where every ack goes: the sender at the head of the queue.    *)
from_addr_source(m) == m.src

from_addr(m) == QueueWith(m)[1]

(* pd.write on a stream that is not open writes nothing.                    *)
Write(d, f, chunks) ==
  IF f = NoFile THEN d ELSE [d EXCEPT ![f] = @ \o chunks]

(* The tail of the handler: the stream is closed when the transfer is done. *)
CloseIfDone_never(isDone, f) == f

CloseIfDone(isDone, f) == IF isDone THEN NoFile ELSE f

(***************************************************************************)
(* "Handle receive".                                                       *)
(***************************************************************************)
(* A waiting sender: tell it that it is blocked. is_nack is not set.        *)
RcvBlock(m) ==
  /\ Queued(m.src)
  /\ sender_q[1] # m.src
  /\ toRcv' \in Received(toRcv, m)
  /\ \E garbage \in BOOLEAN : toNcp' = toNcp \cup {ack_pkt(m.src, -1, garbage)}
  /\ UNCHANGED rcvVars

(* OLD PKT: send the cumulative ack again.                                  *)
RcvOld(m) ==
  /\ m.seq <= cum_seq
  /\ HandleSender(m)
  /\ pd' = CloseIfDone(done, OpenFor(m))
  /\ disk' = DiskFor(m)
  /\ toRcv' \in Received(toRcv, m)
  /\ toNcp' = toNcp \cup {ack_pkt(from_addr(m), cum_seq, FALSE)}
  /\ UNCHANGED <<cum_seq, rcv_window, done>>

(* window[i]->seq while datagram m is in mess_buf.                          *)
WindowSeq(i, m) == m.seq

(* The loop that dequeues the buffer after an in-order packet: while the    *)
(* front of the window is the next packet. Its body sets cum_seq to         *)
(* pkt->seq and writes pkt->data once more.                                 *)
Dequeued_all(m) == rcv_window

Dequeued(m) ==
  IF rcv_window # 0 /\ WindowSeq(1, m) = m.seq + 1 THEN rcv_window ELSE 0

(* SEQUENTIAL PKT: advance cum_seq, ack it, write the payload and dequeue   *)
(* the buffer.                                                              *)
RcvSequential(m) ==
  /\ m.seq = cum_seq + 1
  /\ HandleSender(m)
  /\ cum_seq' = m.seq
  /\ done' = (done \/ m.is_end)
  /\ disk' = Write(DiskFor(m), OpenFor(m),
                   [i \in 1 .. (1 + Dequeued(m)) |-> m.data])
  /\ rcv_window' = rcv_window - Dequeued(m)
  /\ pd' = CloseIfDone(done', OpenFor(m))
  /\ toRcv' \in Received(toRcv, m)
  /\ toNcp' = toNcp \cup {ack_pkt(from_addr(m), m.seq, FALSE)}

(* The seqs nacked after a push: the gaps between cum_seq and the elements  *)
(* of the sorted window.                                                    *)
GappedSeqs(m) ==
  UNION {(IF i = 1 THEN cum_seq ELSE WindowSeq(i - 1, m)) + 1
            .. (WindowSeq(i, m) - 1) : i \in 1 .. (rcv_window + 1)}

PresentInWindow(m) == \E i \in 1 .. rcv_window : WindowSeq(i, m) = m.seq

(* FUTURE PKT that is not in the window: buffer it and nack the gaps.       *)
RcvFuture(m) ==
  /\ m.seq > cum_seq + 1
  /\ rcv_window < m.w_size
  /\ ~PresentInWindow(m)
  /\ HandleSender(m)
  /\ rcv_window' = rcv_window + 1
  /\ pd' = CloseIfDone(done, OpenFor(m))
  /\ disk' = DiskFor(m)
  /\ toRcv' \in Received(toRcv, m)
  /\ toNcp' = toNcp \cup {ack_pkt(from_addr(m), k, TRUE) : k \in GappedSeqs(m)}
  /\ UNCHANGED <<cum_seq, done>>

(* FUTURE PKT that the window seems to hold already, or no room for it.     *)
RcvFutureIgnored(m) ==
  /\ m.seq > cum_seq + 1
  /\ PresentInWindow(m) \/ rcv_window >= m.w_size
  /\ HandleSender(m)
  /\ pd' = CloseIfDone(done /\ rcv_window >= m.w_size, OpenFor(m))
  /\ disk' = DiskFor(m)
  /\ toRcv' \in Received(toRcv, m)
  /\ UNCHANGED <<toNcp, cum_seq, rcv_window, done>>

RcvDatagram(m) ==
  \/ RcvBlock(m) \/ RcvOld(m) \/ RcvSequential(m)
  \/ RcvFuture(m) \/ RcvFutureIgnored(m)

(* SWITCH SENDER: the queue and the cum_seq of the next transfer once the   *)
(* current one is done.                                                     *)
NextQueue_always == IF sender_q # <<>> THEN Tail(sender_q) ELSE sender_q

NextQueue == IF done /\ sender_q # <<>> THEN Tail(sender_q) ELSE sender_q

NextCumSeq == IF done THEN 0 ELSE cum_seq

(* select times out after 10 s: drop the sender whose transfer is done,     *)
(* then call the one at the head of the queue. is_nack is not set.          *)
RcvTimeout ==
  /\ sender_q' = NextQueue
  /\ cum_seq' = NextCumSeq
  /\ done' = FALSE
  /\ rcv_start' = (rcv_start /\ ~done)
  /\ \/ /\ NextQueue # <<>>
        /\ \E garbage \in BOOLEAN :
             toNcp' = toNcp \cup {ack_pkt(NextQueue[1], NextCumSeq, garbage)}
     \/ /\ NextQueue = <<>>
        /\ UNCHANGED toNcp
  /\ UNCHANGED <<pd, disk, rcv_window, toRcv>>
===============================================================================
