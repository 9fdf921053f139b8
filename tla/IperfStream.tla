------------------------------- MODULE IperfStream -------------------------------
(***************************************************************************)
(* The streams of a UDP test and their statistics (iperf_udp.c and the     *)
(* callbacks of iperf_api.c), as operators on the record of one stream or  *)
(* on all streams of one side. A datagram has the size blksize and carries *)
(* its sequence number. Times are those of IperfTime.                      *)
(*                                                                         *)
(* Op_word stands before Op and is a faulty variant of it.                 *)
(***************************************************************************)
EXTENDS IperfTime, Functions

CONSTANTS
  num_streams, \* -P
  blksize,     \* -l, in bytes
  rate,        \* -b, in bits per second; 0 for no limit
  INT_MAX      \* the largest int: the counters of a stream are ints

ASSUME StreamAssumption ==
  /\ num_streams \in Nat \ {0} /\ blksize \in Nat \ {0}
  /\ rate \in Nat /\ INT_MAX \in Nat \ {0}

Streams == 1 .. num_streams

(* An int one larger, on a machine on which it wraps.                       *)
IntInc(x) == IF x = INT_MAX THEN -INT_MAX - 1 ELSE x + 1

AsInt(x) == IF x > INT_MAX THEN x - 2 * (INT_MAX + 1) ELSE x

(* iperf_new_stream: the structure is zeroed. iperf_add_stream numbers the  *)
(* streams 1, 3, 4, ... in the order of their creation.                     *)
iperf_new_stream(i) ==
  [id |-> IF i = 1 THEN 1 ELSE i + 1,
   packet_count |-> 0, cnt_error |-> 0, outoforder |-> 0, peer_packets |-> 0,
   om_packets |-> 0, om_error |-> 0, om_order |-> 0,
   sent |-> 0, sent_omit |-> 0, received |-> 0, sent_iv |-> 0, received_iv |-> 0,
   green |-> FALSE, send_timer |-> NULL,
   start_time |-> [secs |-> 0, usecs |-> 0], intervals |-> <<>>]

(* iperf_udp_send: the datagram has its number before it is written.        *)
iperf_udp_send(s) ==
  [s EXCEPT !.packet_count = IntInc(@), !.sent = @ + blksize, !.sent_iv = @ + blksize]

(* The same if write says ENOBUFS: the number is used up.                   *)
iperf_udp_send_soft(s) == [s EXCEPT !.packet_count = IntInc(@)]

(* Is pcount beyond all numbers so far? The sum is an int; as it is         *)
(* compared with a uint64_t, a negative one counts as a huge one.           *)
Forward(s, pcount) ==
  LET expected == IntInc(s.packet_count) IN expected >= 0 /\ pcount >= expected

(* iperf_udp_recv of the datagram with number pcount in state TEST_RUNNING. *)
iperf_udp_recv_late(s, pcount) ==
  LET r == [s EXCEPT !.received = @ + blksize, !.received_iv = @ + blksize] IN
  IF Forward(s, pcount)
  THEN [r EXCEPT !.cnt_error = @ + ((pcount - 1) - s.packet_count), !.packet_count = AsInt(pcount)]
  ELSE [r EXCEPT !.outoforder = @ + 1]
iperf_udp_recv(s, pcount) ==
  LET r == [s EXCEPT !.received = @ + blksize, !.received_iv = @ + blksize] IN
  IF Forward(s, pcount)
  THEN [r EXCEPT !.cnt_error = @ + ((pcount - 1) - s.packet_count), !.packet_count = AsInt(pcount)]
  ELSE [r EXCEPT !.outoforder = @ + 1,
                 !.cnt_error = IF @ > 0 THEN @ - 1 ELSE @]

(* iperf_check_throttle: may the stream send, `elapsed` microseconds after  *)
(* its start? The division is exact enough for this comparison.             *)
iperf_check_throttle_slack(s, elapsed, done) ==
  IF done \/ rate = 0 THEN s
  ELSE [s EXCEPT !.green = (s.sent - 2 * blksize) * 8 * MILLION < rate * elapsed]
iperf_check_throttle(s, elapsed, done) ==
  IF done \/ rate = 0 THEN s
  ELSE [s EXCEPT !.green = s.sent * 8 * MILLION < rate * elapsed]

(* iperf_reset_stats, for one stream, when the omitted time is over.        *)
iperf_reset_stats_keep(s, now) ==
  [s EXCEPT !.start_time = now,
            !.om_packets = s.packet_count, !.om_error = s.cnt_error,
            !.om_order = s.outoforder, !.received = 0, !.sent_iv = 0, !.received_iv = 0]
iperf_reset_stats(s, now) ==
  [s EXCEPT !.start_time = now,
            !.om_packets = s.packet_count, !.om_error = s.cnt_error,
            !.om_order = s.outoforder, !.sent_omit = s.sent, !.received = 0,
            !.sent_iv = 0, !.received_iv = 0]

(* iperf_stats_callback, for one stream: a new entry of interval_results,   *)
(* from the end of the entry before it, or from the start of the stream,    *)
(* to now. The counts of an interval are what has come since that entry.    *)
iperf_stats_callback(s, sender, omitting, now) ==
  LET irp == s.intervals
      before == IF irp = <<>> THEN [packet_count |-> 0, cnt_error |-> 0, end |-> s.start_time]
                ELSE irp[Len(irp)]
      entry == [start |-> before.end, end |-> now,
                bytes |-> IF sender THEN s.sent_iv ELSE s.received_iv, omitted |-> omitting,
                packets |-> s.packet_count - before.packet_count,
                lost |-> s.cnt_error - before.cnt_error,
                packet_count |-> s.packet_count, cnt_error |-> s.cnt_error]
  IN [s EXCEPT !.intervals = Append(@, entry), !.sent_iv = 0, !.received_iv = 0]

(* iperf_print_intermediate and print_interval_results: what is printed for *)
(* the last interval and its sum over the streams. Nothing is printed if    *)
(* every stream has a short interval with no bytes, or none.                *)
iperf_print_intermediate(st, interval) ==
  LET has == {i \in Streams : st[i].intervals # <<>>}
      last == [i \in has |-> st[i].intervals[Len(st[i].intervals)]]
      length(irp) == iperf_time_in_usecs(iperf_time_diff(irp.start, irp.end).diff)
      ok == \E i \in has : length(last[i]) * 10 >= interval \/ last[i].bytes > 0
  IN IF ~ok \/ has # Streams THEN <<>>
     ELSE <<[end |-> last[1].end,
             bytes |-> SumFunction([i \in Streams |-> last[i].bytes]),
             packets |-> SumFunction([i \in Streams |-> last[i].packets]),
             lost |-> SumFunction([i \in Streams |-> last[i].lost])]>>

(* What send_results tells the other side of a stream.                      *)
send_results(s, sender) ==
  [id |-> s.id, bytes |-> IF sender THEN s.sent - s.sent_omit ELSE s.received,
   errors |-> s.cnt_error, packets |-> s.packet_count]

(* get_results finds the stream with the same id, and takes over what only  *)
(* the other side knows.                                                    *)
get_results(s, sender, results) ==
  LET j == results[CHOOSE i \in DOMAIN results : results[i].id = s.id] IN
  IF sender
  THEN [s EXCEPT !.cnt_error = j.errors, !.peer_packets = j.packets, !.received = j.bytes]
  ELSE [s EXCEPT !.peer_packets = j.packets, !.sent = j.bytes]

(* iperf_print_results: the sums over all streams at the end of the test.   *)
iperf_print_results(st, sender) ==
  LET sender_packets(s) == IF sender THEN s.packet_count ELSE s.peer_packets
      receiver_packets(s) == IF sender THEN s.peer_packets ELSE s.packet_count
      packets(s) == IF sender_packets(s) # 0 THEN sender_packets(s) ELSE receiver_packets(s)
  IN [sent |-> SumFunction([i \in Streams |-> st[i].sent - st[i].sent_omit]),
      received |-> SumFunction([i \in Streams |-> st[i].received]),
      packets |-> SumFunction([i \in Streams |-> packets(st[i]) - st[i].om_packets]),
      lost |-> SumFunction([i \in Streams |-> st[i].cnt_error - st[i].om_error])]
===============================================================================
