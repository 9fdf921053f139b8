-------------------------------- MODULE FileCopy --------------------------------
(***************************************************************************)
(* The file-copy tool of proj1: the ncp processes and the one rcv process  *)
(* over a UDP network that loses, delays, reorders and duplicates.         *)
(***************************************************************************)
EXTENDS Ncp, Rcv

CONSTANT
  Timely   \* is the 10 s of rcv's select longer than any silence of a
           \* sender that transmits and than any datagram's life time?

ASSUME TimelyAssumption == Timely \in BOOLEAN

vars == <<ncpVars, rcvVars, netVars>>

Init == NcpInit /\ RcvInit /\ NetInit

(* Nothing is on its way and no sender is transmitting. A running sender    *)
(* that is not blocked transmits every 0.4 or 4 ms.                         *)
Quiet ==
  /\ toRcv = {}
  /\ \A m \in toNcp : ~Running(m.dst)
  /\ \A s \in Senders : Running(s) => blocked[s]

Start     == \E s \in Senders : NcpStart(s) /\ UNCHANGED rcvVars
Kill      == \E s \in Senders : NcpKilled(s) /\ UNCHANGED rcvVars
Transmit  == \E s \in Senders : NcpTimeout(s) /\ UNCHANGED rcvVars
AckIn     == \E m \in toNcp : NcpAck(m) /\ UNCHANGED rcvVars
NackIn    == \E m \in toNcp : NcpNack(m) /\ UNCHANGED rcvVars
StaleNack == \E m \in toNcp : NcpNackMissing(m) /\ UNCHANGED rcvVars
Block     == \E m \in toRcv : RcvBlock(m) /\ UNCHANGED ncpVars
Old       == \E m \in toRcv : RcvOld(m) /\ UNCHANGED ncpVars
InOrder   == \E m \in toRcv : RcvSequential(m) /\ UNCHANGED ncpVars
Future    == \E m \in toRcv : RcvFuture(m) /\ UNCHANGED ncpVars
Ignored   == \E m \in toRcv : RcvFutureIgnored(m) /\ UNCHANGED ncpVars
Switch    == (Timely => Quiet) /\ RcvTimeout /\ UNCHANGED ncpVars
Lose      == (LoseData \/ LoseAck) /\ UNCHANGED <<ncpVars, rcvVars>>

Next ==
  \/ Start \/ Kill \/ Transmit \/ AckIn \/ NackIn \/ StaleNack
  \/ Block \/ Old \/ InOrder \/ Future \/ Ignored \/ Switch
  \/ Lose

Spec == Init /\ [][Next]_vars

(***************************************************************************)
(* Fairness. An ncp that is not blocked comes back to its timeout branch,  *)
(* since only finitely many acks answer each transmission. sendto_dbg and  *)
(* the network are fair-lossy: what is sent again and again is received    *)
(* again and again. The seqs that can matter are finitely many and cum_seq *)
(* and the window only move forward, so this is needed just for the kinds  *)
(* of datagram below, and not for each datagram.                           *)
(***************************************************************************)
Delivered(s) ==
  /\ SF_vars(\E m \in toRcv : m.src = s /\ RcvSequential(m) /\ UNCHANGED ncpVars)
  /\ SF_vars(\E m \in toRcv : m.src = s /\ RcvOld(m) /\ UNCHANGED ncpVars)
  /\ SF_vars(\E m \in toRcv : m.src = s /\ RcvBlock(m) /\ UNCHANGED ncpVars)

(* An ack that dequeues something or ends the process, a message that       *)
(* blocks it and one that calls it.                                         *)
Progress(m) == ~m.is_nack /\ (Acked(m) # {} \/ AcksLast(m))
Blocks(m)   == m.cum_seq < 0
Calls(m)    == m.cum_seq >= 0 /\ blocked[m.dst]

Answered(s) ==
  /\ SF_vars(\E m \in toNcp : m.dst = s /\ Progress(m) /\ NcpRecv(m) /\ UNCHANGED rcvVars)
  /\ SF_vars(\E m \in toNcp : m.dst = s /\ Blocks(m) /\ NcpRecv(m) /\ UNCHANGED rcvVars)
  /\ SF_vars(\E m \in toNcp : m.dst = s /\ Calls(m) /\ NcpRecv(m) /\ UNCHANGED rcvVars)

Fairness ==
  /\ \A s \in Senders :
       /\ WF_vars(NcpTimeout(s) /\ UNCHANGED rcvVars)
       /\ Delivered(s)
       /\ Answered(s)
  /\ WF_vars(Switch)

FairSpec == Spec /\ Fairness

(***************************************************************************)
(* Properties.                                                             *)
(***************************************************************************)
(* The variables have their types, and every datagram on its way to rcv is  *)
(* one that fill_win and fetch_next built.                                  *)
TypeOK == NcpTypeOK /\ RcvTypeOK /\ NetTypeOK

(* The output stream of rcv is open exactly while a transfer is being       *)
(* received: from the first datagram of a transfer, which opens it, to the  *)
(* end packet, which closes it. In particular "guard for re-open" never     *)
(* finds it open, and no transfer starts with the done flag or the cum_seq  *)
(* of the one before.                                                       *)
StreamOpenWhileReceiving ==
  /\ pd # NoFile <=> rcv_start /\ ~done
  /\ ~rcv_start => ~done /\ cum_seq = 0

(* d is the beginning of the file of sender s, byte for byte: its pieces    *)
(* come from that file, in order, without a gap and without an overlap.     *)
InOrderBytes(s, d) ==
  /\ \A i \in 1 .. Len(d) : d[i].src = s /\ d[i].len >= 0
  /\ Len(d) > 0 => d[1].off = 0
  /\ \A i \in 2 .. Len(d) : d[i].off = d[i - 1].off + d[i - 1].len

(* d is the whole file of sender s.                                         *)
WholeFile(s, d) ==
  /\ InOrderBytes(s, d)
  /\ Len(d) > 0
  /\ d[Len(d)].off + d[Len(d)].len = FileSize[s]

(* While a file is being received, it holds the first cum_seq packets of    *)
(* the sender at the head of the queue, in order and without a gap.         *)
OpenFileIsPrefix ==
  pd # NoFile =>
    /\ sender_q # <<>>
    /\ Len(disk[pd]) = cum_seq
    /\ InOrderBytes(sender_q[1], disk[pd])

(* An ncp drops a packet from its window only when rcv has written it: the  *)
(* packets it has fetched and no longer keeps are in the destination file.  *)
DiscardedIsWritten ==
  \A s \in Senders : Running(s) =>
    \A k \in 1 .. (pkt_cnt[s] - 1) :
      k \notin ncp_window[s] =>
        /\ k <= Len(disk[d_fname[s]])
        /\ disk[d_fname[s]][k] = fetch_next(s, k)

(* An ncp that has returned from main has copied its file: the destination  *)
(* file is the whole source file.                                           *)
ExitMeansCopied ==
  \A s \in Senders : ncp_pc[s] = "exit" => WholeFile(s, disk[d_fname[s]])

(* A file that has been copied completely stays complete: late duplicates   *)
(* and the retransmissions of a sender that has not seen the last ack do    *)
(* not open it again.                                                       *)
CompleteStaysComplete ==
  [][\A s \in Senders :
       WholeFile(s, disk[d_fname[s]]) => WholeFile(s, disk[d_fname[s]])']_vars

(* With one sender, ncp and rcv implement ReliableCopy: whatever is lost,   *)
(* duplicated, reordered or sent again, the destination file grows by the   *)
(* next bytes of the source until it is whole, and is then left alone; and  *)
(* ncp returns only then (ncp.cpp:112-150, rcv.cpp:120-185).                *)
Lone == CHOOSE s \in Senders : TRUE

Promised == INSTANCE ReliableCopy WITH
  Source <- Lone,
  Size <- FileSize[Lone],
  proc <- ncp_pc[Lone],
  file <- disk[d_fname[Lone]]

CopiesReliably == Promised!Copy

(* At most two senders, which start unblocked, and a timely rcv.            *)
PairOfSenders ==
  /\ Timely /\ BlockedInit \subseteq {FALSE}
  /\ \A s, t, u \in Senders : s = t \/ t = u \/ s = u

(* Of at most two senders, one that believes it is blocked is in the queue  *)
(* of rcv, so that SWITCH SENDER will call it one day, whichever blocking   *)
(* messages and calls are lost or late (rcv.cpp:128, 284). A third sender   *)
(* can complete the transfer of one that waits, which is then dropped.      *)
BlockedIsQueued ==
  PairOfSenders => \A s \in Senders : Running(s) /\ blocked[s] => Queued(s)

(* No sender is in the queue twice, so no sender is served twice.           *)
QueuedOnce ==
  \A i, j \in 1 .. Len(sender_q) : sender_q[i] = sender_q[j] => i = j

(* Only the sender at the head of the queue can be reached by an ack, a     *)
(* nack or a call, whoever's datagram rcv was handling when it sent it and  *)
(* whoever has been at the head since then.                                 *)
OnlyServedIsAcked ==
  \A m \in toNcp : Running(m.dst) /\ m.cum_seq >= 0 =>
    sender_q # <<>> /\ sender_q[1] = m.dst

(* Every ncp that runs ends.                                                *)
EveryCopyEnds == \A s \in Senders : Running(s) ~> ~Running(s)

(***************************************************************************)
(* The inductive invariants behind the theorems of FileCopyProofs.         *)
(***************************************************************************)
(* The first n packets of the file of sender s.                             *)
Prefix(s, n) == [k \in 1 .. n |-> fetch_next(s, k)]

(* What an ncp has fetched: no packet before the last one it has fetched is *)
(* an end packet; last_pkt is the last one exactly if that is the end       *)
(* packet; only fetched packets are in the window and on the network.       *)
FetchedInv ==
  /\ \A s \in Senders :
       /\ \A k \in 1 .. pkt_cnt[s] - 2 : ~is_end(s, k)
       /\ \A k \in ncp_window[s] : k < pkt_cnt[s]
       /\ last_pkt[s] = -1 => \A k \in 1 .. pkt_cnt[s] - 1 : ~is_end(s, k)
       /\ last_pkt[s] # -1 => last_pkt[s] = pkt_cnt[s] - 1 /\ is_end(s, last_pkt[s])
  /\ \A m \in toRcv : m.seq < pkt_cnt[m.src]

(* The queue of rcv: nobody is in it twice, only processes that have been   *)
(* started are in it or have datagrams on the network, and what the network *)
(* still holds for a live sender other than the first says "blocked".       *)
QueueInv ==
  /\ QueuedOnce
  /\ \A i \in 1 .. Len(sender_q) : ncp_pc[sender_q[i]] # "idle"
  /\ \A m \in toRcv : ncp_pc[m.src] # "idle"
  /\ \A m \in toNcp : ncp_pc[m.dst] # "idle"
  /\ OnlyServedIsAcked

(* rcv, when s is the only sender: it serves s or nobody, the file of s     *)
(* holds the first cum_seq packets, and done says that the last of them is  *)
(* the end packet.                                                          *)
ServesOnly(s) ==
  /\ sender_q = IF rcv_start THEN <<s>> ELSE <<>>
  /\ pd # NoFile => pd = d_fname[s]
  /\ cum_seq < pkt_cnt[s]
  /\ rcv_start => disk[d_fname[s]] = Prefix(s, cum_seq)
  /\ done <=> cum_seq > 0 /\ is_end(s, cum_seq)

LoneInv(s) == FetchedInv /\ StreamOpenWhileReceiving /\ ServesOnly(s)

(* The two of them together, when s is the only sender and rcv's timeout is *)
(* longer than the silence of a live sender: what s has dropped and what it *)
(* has been or will be told is behind cum_seq, and after a switch nothing   *)
(* is left that could open the file of s again.                             *)
TimelyInv(s) ==
  /\ \A m \in toNcp : m.cum_seq >= 0
  /\ blocked[s] => pkt_cnt[s] = 1
  /\ ncp_pc[s] = "idle" => pkt_cnt[s] = 1
  /\ ncp_pc[s] \in {"idle", "run"} =>
       /\ \A k \in 1 .. pkt_cnt[s] - 1 : k \notin ncp_window[s] => k <= cum_seq
       /\ \A m \in toNcp : ~m.is_nack => m.cum_seq <= cum_seq
  /\ ~rcv_start =>
       \/ disk[d_fname[s]] = <<>>
       \/ toRcv = {} /\ ncp_pc[s] \in {"exit", "killed"}
  /\ ncp_pc[s] = "exit" => WholeFile(s, disk[d_fname[s]])

(* The invariant of a single timely sender, stated for every sender so that *)
(* it can be checked when there is just one.                                *)
LoneTimelyInv == \A s \in Senders : LoneInv(s) /\ TimelyInv(s)
===============================================================================
