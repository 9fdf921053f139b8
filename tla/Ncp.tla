---------------------------------- MODULE Ncp ----------------------------------
(***************************************************************************)
(* proj1/ncp.cpp, the sending half of the file-copy tool: one instance per *)
(* element of Senders. Each pass of its select loop is one action, the     *)
(* arrival of an ack_pkt or the expiry of the timeout.                     *)
(*                                                                         *)
(* The window vector is filled in the order of pkt_cnt and erased only at  *)
(* its front, so it is always sorted: it is modelled by the set of the     *)
(* sequence numbers in it. umap is modelled by the set of the numbers it   *)
(* labels 'u', the only label the program tests for.                       *)
(*                                                                         *)
(* A definition Op_word that stands before Op is a faulty variant of it: a *)
(* bug this code could plausibly have, which some property must notice.    *)
(***************************************************************************)
EXTENDS UdpNet, FiniteSets

CONSTANTS
  BlockedInit,  \* values the uninitialized local "blocked" may start with
  Mortal        \* the ncp processes that may be killed while they run

ASSUME NcpAssumption == BlockedInit \subseteq BOOLEAN /\ Mortal \subseteq Senders

VARIABLES
  ncp_pc,      \* "idle" before the process is launched, "run", "exit"
               \* after main has returned, "killed" after a signal
  ncp_window,  \* seqs of the packets in window
  umap,        \* seqs labelled 'u'
  pkt_cnt,     \* seq of the next packet to fetch
  last_pkt,    \* seq of the end packet once it has been seen, else -1
  blocked      \* rcv said that another transfer is going on

ncpVars == <<ncp_pc, ncp_window, umap, pkt_cnt, last_pkt, blocked>>

NcpInit ==
  /\ ncp_pc = [s \in Senders |-> "idle"]
  /\ ncp_window = [s \in Senders |-> {}]
  /\ umap = [s \in Senders |-> {}]
  /\ pkt_cnt = [s \in Senders |-> 1]
  /\ last_pkt = [s \in Senders |-> -1]
  /\ blocked \in [Senders -> BlockedInit]

NcpTypeOK ==
  /\ ncp_pc \in [Senders -> {"idle", "run", "exit", "killed"}]
  /\ ncp_window \in [Senders -> SUBSET (Nat \ {0})]
  /\ \A s \in Senders : IsFiniteSet(ncp_window[s])
  /\ umap \in [Senders -> SUBSET (Nat \ {0})]
  /\ pkt_cnt \in [Senders -> Nat \ {0}]
  /\ last_pkt \in [Senders -> {-1} \cup (Nat \ {0})]
  /\ blocked \in [Senders -> BOOLEAN]

Running(s) == ncp_pc[s] = "run"

(* The process is launched: arguments, file and socket are set up.          *)
NcpStart(s) ==
  /\ ncp_pc[s] = "idle"
  /\ ncp_pc' = [ncp_pc EXCEPT ![s] = "run"]
  /\ UNCHANGED <<ncp_window, umap, pkt_cnt, last_pkt, blocked, netVars>>

(* The process is ended by a signal.                                        *)
NcpKilled(s) ==
  /\ s \in Mortal
  /\ Running(s)
  /\ ncp_pc' = [ncp_pc EXCEPT ![s] = "killed"]
  /\ UNCHANGED <<ncp_window, umap, pkt_cnt, last_pkt, blocked, netVars>>

(* fill_win: if the window has room and the end packet has not been sent,   *)
(* fetch new_amt packets, but break off after the one that reached the end  *)
(* of the file. cnt is the pkt_cnt it leaves behind.                        *)
new_amt(s) == W_SIZE - Cardinality(ncp_window[s])

CanFill(s) == Cardinality(ncp_window[s]) < W_SIZE /\ last_pkt[s] = -1

fill_win(s, cnt) ==
  \/ ~CanFill(s) /\ cnt = pkt_cnt[s]
  \/ /\ CanFill(s)
     /\ cnt \in pkt_cnt[s] + 1 .. pkt_cnt[s] + new_amt(s)
     /\ \A k \in pkt_cnt[s] .. cnt - 2 : ~is_end(s, k)
     /\ cnt = pkt_cnt[s] + new_amt(s) \/ is_end(s, cnt - 1)

(* The labels after a pass: a packet that was not labelled 'u' is labelled  *)
(* now, so that the next pass sends it.                                     *)
Relabelled_never(s, win) == umap[s] \cup {k \in win : ~is_end(s, k)}

Relabelled(s, win) == umap[s] \cup win

(* "send un-acked packets": top the window up, send every packet labelled   *)
(* 'u', label all the others 'u' for the next pass, and note the end        *)
(* packet. fill_win labels what it fetches 'u', except the end packet.      *)
SendUnacked(s, cnt) ==
  LET new   == pkt_cnt[s] .. cnt - 1
      win   == ncp_window[s] \cup new
      fresh == {k \in new : ~is_end(s, k)}
      last  == {k \in win : is_end(s, k)}
  IN
  /\ fill_win(s, cnt)
  /\ pkt_cnt' = [pkt_cnt EXCEPT ![s] = cnt]
  /\ ncp_window' = [ncp_window EXCEPT ![s] = win]
  /\ toRcv' = toRcv \cup {net_pkt(s, k) : k \in win \cap (umap[s] \cup fresh)}
  /\ umap' = [umap EXCEPT ![s] = Relabelled(s, win)]
  /\ \/ \E k \in last : last_pkt' = [last_pkt EXCEPT ![s] = k]
     \/ last = {} /\ UNCHANGED last_pkt

(* select times out. A blocked process goes back to select.                 *)
NcpTimeout(s) ==
  /\ Running(s)
  /\ ~blocked[s]
  /\ \E cnt \in pkt_cnt[s] .. pkt_cnt[s] + W_SIZE : SendUnacked(s, cnt)
  /\ UNCHANGED <<ncp_pc, blocked, toNcp>>

(* Every ack_pkt, whatever else it says, carries the blocked signal in the  *)
(* sign of cum_seq.                                                         *)
ReadBlocked(m) == blocked' = [blocked EXCEPT ![m.dst] = m.cum_seq < 0]

(* The front of the window that a cumulative ack dequeues.                  *)
Acked_oneMore(m) == {k \in ncp_window[m.dst] : k <= m.cum_seq + 1}

Acked(m) == {k \in ncp_window[m.dst] : k <= m.cum_seq}

(* An ack of the end packet, once the end packet has been sent.             *)
AcksLast_oneEarly(m) == last_pkt[m.dst] # -1 /\ m.cum_seq >= last_pkt[m.dst] - 1

AcksLast(m) == last_pkt[m.dst] # -1 /\ m.cum_seq >= last_pkt[m.dst]

(* A cumulative ack: erase the acknowledged front of the window. Only the   *)
(* label of cum_seq itself is erased from umap, and only if something was   *)
(* dequeued. An ack of the end packet ends the process.                     *)
NcpAck(m) ==
  LET s == m.dst IN
  /\ Running(s)
  /\ ~m.is_nack
  /\ ReadBlocked(m)
  /\ ncp_window' = [ncp_window EXCEPT ![s] = @ \ Acked(m)]
  /\ umap' = [umap EXCEPT ![s] = IF Acked(m) = {} THEN @ ELSE @ \ {m.cum_seq}]
  /\ ncp_pc' = [ncp_pc EXCEPT ![s] = IF AcksLast(m) THEN "exit" ELSE @]
  /\ toNcp' \in Received(toNcp, m)
  /\ UNCHANGED <<pkt_cnt, last_pkt, toRcv>>

(* A nack of a packet in the window: send it again and skip it in the next  *)
(* pass.                                                                    *)
NcpNack(m) ==
  LET s == m.dst IN
  /\ Running(s)
  /\ m.is_nack
  /\ m.cum_seq \in ncp_window[s]
  /\ ReadBlocked(m)
  /\ toRcv' = toRcv \cup {net_pkt(s, m.cum_seq)}
  /\ umap' = [umap EXCEPT ![s] = @ \ {m.cum_seq}]
  /\ toNcp' \in Received(toNcp, m)
  /\ UNCHANGED <<ncp_pc, ncp_window, pkt_cnt, last_pkt>>

(* A nack of a seq that is not in the window (an old nack, or a blocking or *)
(* calling message, whose is_nack is never set): find_if returns end() and  *)
(* the code dereferences it. The slot after the last element holds either a *)
(* pointer the vector has used before, and that packet is sent, or no valid *)
(* pointer, and sendto fails with EFAULT.                                   *)
NcpNackMissing(m) ==
  LET s == m.dst IN
  /\ Running(s)
  /\ m.is_nack
  /\ m.cum_seq \notin ncp_window[s]
  /\ ReadBlocked(m)
  /\ \E stale \in {{}} \cup {{net_pkt(s, k)} : k \in 1 .. (pkt_cnt[s] - 1)} :
       toRcv' = toRcv \cup stale
  /\ umap' = [umap EXCEPT ![s] = @ \ {m.cum_seq}]
  /\ toNcp' \in Received(toNcp, m)
  /\ UNCHANGED <<ncp_pc, ncp_window, pkt_cnt, last_pkt>>

NcpRecv(m) == NcpAck(m) \/ NcpNack(m) \/ NcpNackMissing(m)
===============================================================================
