--------------------------- MODULE IperfTrafficProofs ---------------------------
(***************************************************************************)
(* Theorems about a UDP test of iperf3, for any streams, sizes, rates,     *)
(* timers and clock.                                                       *)
(***************************************************************************)
EXTENDS IperfTraffic, FiniteSetTheorems, SequenceTheorems, WellFoundedInduction, TLAPS

Entries ==
  [start : Time, end : Time, bytes : Int, omitted : BOOLEAN, packets : Int, lost : Int,
   packet_count : Int, cnt_error : Int]

(* s is the record of a stream. What kind of value names a timer, and the   *)
(* counts that are only reported, do not matter here.                       *)
IsStream(s) ==
  /\ DOMAIN s = {"id", "packet_count", "cnt_error", "outoforder", "peer_packets", "om_packets",
                 "om_error", "om_order", "sent", "sent_omit", "received", "sent_iv",
                 "received_iv", "green", "send_timer", "start_time", "intervals"}
  /\ s.packet_count \in Int /\ s.cnt_error \in Int
  /\ s.sent \in Int /\ s.sent_omit \in Int /\ s.received \in Int
  /\ s.sent_iv \in Int /\ s.received_iv \in Int /\ s.green \in BOOLEAN
  /\ s.start_time \in Time /\ s.intervals \in Seq(Entries)

---------------------------------------------------------------------------------
(* Times. The number MILLION stays a name wherever a range could be         *)
(* enumerated.                                                              *)
LEMMA Million == MILLION \in Nat \ {0}
  BY SMT DEF MILLION

LEMMA TimeFields ==
  /\ \A t \in Time : /\ t.secs \in Nat /\ t.usecs \in Nat /\ t.usecs < MILLION
                     /\ t = [secs |-> t.secs, usecs |-> t.usecs]
  /\ \A s, u \in Nat : u < MILLION => [secs |-> s, usecs |-> u] \in Time
  BY Million DEF Time

LEMMA Divides ==
  ASSUME NEW u \in Nat
  PROVE  /\ u % MILLION \in Nat /\ u % MILLION < MILLION /\ u \div MILLION \in Nat
         /\ u = (u \div MILLION) * MILLION + (u % MILLION)
  BY SMT DEF MILLION

LEMMA AddType ==
  ASSUME NEW t \in Time, NEW u \in Nat
  PROVE  /\ iperf_time_add_usecs(t, u) \in Time
         /\ iperf_time_in_usecs(iperf_time_add_usecs(t, u)) = iperf_time_in_usecs(t) + u
<1> DEFINE w == t.usecs + (u % MILLION)
<1>1. t.secs \in Nat /\ t.usecs \in Nat /\ t.usecs < MILLION
  BY TimeFields
<1>2. /\ u % MILLION \in Nat /\ u % MILLION < MILLION /\ u \div MILLION \in Nat
      /\ u = (u \div MILLION) * MILLION + (u % MILLION)
  BY Divides
<1>3. w \in Nat
  BY <1>1, <1>2, SMT
<1>4. /\ w % MILLION \in Nat /\ w % MILLION < MILLION /\ w \div MILLION \in Nat
      /\ w = (w \div MILLION) * MILLION + (w % MILLION)
  BY <1>3, Divides
<1>5. CASE w >= MILLION
  <2>1. iperf_time_add_usecs(t, u)
          = [secs |-> t.secs + (u \div MILLION) + (w \div MILLION), usecs |-> w % MILLION]
    BY <1>5 DEF iperf_time_add_usecs
  <2>2. t.secs + (u \div MILLION) + (w \div MILLION) \in Nat
    BY <1>1, <1>2, <1>4, SMT
  <2>3. iperf_time_add_usecs(t, u) \in Time
    BY <1>4, <2>1, <2>2, TimeFields
  <2>4. (t.secs + (u \div MILLION) + (w \div MILLION)) * MILLION + (w % MILLION)
          = t.secs * MILLION + t.usecs + u
    <3>1. \A x, y, z \in Nat : (x + y + z) * MILLION = x * MILLION + y * MILLION + z * MILLION
      BY SMT DEF MILLION
    <3> HIDE DEF w
    <3>a. t.secs \in Nat /\ u \div MILLION \in Nat /\ w \div MILLION \in Nat
      BY <1>1, <1>2, <1>4, Zenon
    <3>2. (t.secs + (u \div MILLION) + (w \div MILLION)) * MILLION
            = t.secs * MILLION + (u \div MILLION) * MILLION + (w \div MILLION) * MILLION
      BY <3>1, <3>a, Zenon
    <3>4. t.secs * MILLION + (u \div MILLION) * MILLION + (w \div MILLION) * MILLION + (w % MILLION)
            = t.secs * MILLION + t.usecs + u
      <4>1. t.usecs + (u % MILLION) = (w \div MILLION) * MILLION + (w % MILLION)
        BY <1>4 DEF w
      <4> DEFINE x == t.secs
                 y == t.usecs
                 q == u \div MILLION
                 r == u % MILLION
                 q2 == w \div MILLION
                 r2 == w % MILLION
      <4>2. /\ x \in Nat /\ y \in Nat /\ q \in Nat /\ r \in Nat /\ q2 \in Nat /\ r2 \in Nat
            /\ u = q * MILLION + r /\ y + r = q2 * MILLION + r2
        BY <1>1, <1>2, <1>4, <4>1
      <4> HIDE DEF x, y, q, r, q2, r2
      <4>3. x * MILLION + q * MILLION + q2 * MILLION + r2 = x * MILLION + y + u
        BY <4>2, SMT DEF MILLION
      <4> QED
        BY <4>3 DEF x, y, q, q2, r2
    <3> QED
      BY <3>2, <3>4, Zenon
  <2> QED
    BY <2>1, <2>3, <2>4 DEF iperf_time_in_usecs
<1>6. CASE ~(w >= MILLION)
  <2>1. iperf_time_add_usecs(t, u) = [secs |-> t.secs + (u \div MILLION), usecs |-> w]
    BY <1>6 DEF iperf_time_add_usecs
  <2>2. t.secs + (u \div MILLION) \in Nat /\ w < MILLION
    BY <1>1, <1>2, <1>3, <1>6, Million, SMT
  <2>3. iperf_time_add_usecs(t, u) \in Time
    BY <1>3, <2>1, <2>2, TimeFields
  <2>4. (t.secs + (u \div MILLION)) * MILLION + w = t.secs * MILLION + t.usecs + u
    <3>1. \A x, y \in Nat : (x + y) * MILLION = x * MILLION + y * MILLION
      BY SMT DEF MILLION
    <3> QED
      BY <1>1, <1>2, <3>1, SMT DEF MILLION
  <2> QED
    BY <2>1, <2>3, <2>4 DEF iperf_time_in_usecs
<1> QED
  BY <1>5, <1>6

LEMMA NowType ==
  ASSUME clock \in Nat
  PROVE  Now \in Time /\ iperf_time_in_usecs(Now) = clock * TICK
<1>1. clock * TICK \in Nat
  BY TrafficAssumption
<1>2. [secs |-> 0, usecs |-> 0] \in Time
  BY TimeFields, Million
<1>3. iperf_time_in_usecs([secs |-> 0, usecs |-> 0]) = 0
  BY Million DEF iperf_time_in_usecs
<1>4. 0 + clock * TICK = clock * TICK
  BY <1>1
<1> QED
  BY <1>1, <1>2, <1>3, <1>4, AddType DEF Now

(* Comparing times is comparing microseconds.                               *)
LEMMA CompareTimes ==
  ASSUME NEW t \in Time, NEW u \in Time
  PROVE  /\ iperf_time_in_usecs(t) \in Nat /\ iperf_time_in_usecs(u) \in Nat
         /\ iperf_time_compare(t, u) \in {-1, 0, 1}
         /\ iperf_time_compare(t, u) = -1 <=> iperf_time_in_usecs(t) < iperf_time_in_usecs(u)
         /\ iperf_time_compare(t, u) = 1 <=> iperf_time_in_usecs(t) > iperf_time_in_usecs(u)
         /\ iperf_time_compare(t, u) = 0 <=> iperf_time_in_usecs(t) = iperf_time_in_usecs(u)
         /\ iperf_time_compare(t, u) = 0 => t = u
<1>1. /\ t.secs \in Nat /\ t.usecs \in Nat /\ t.usecs < MILLION
      /\ u.secs \in Nat /\ u.usecs \in Nat /\ u.usecs < MILLION
  BY TimeFields
<1>2. t.secs = u.secs /\ t.usecs = u.usecs => t = u
  BY TimeFields
<1> QED
  BY <1>1, <1>2, SMT DEF MILLION, iperf_time_in_usecs, iperf_time_compare

(* The distance of two times in microseconds.                               *)
LEMMA MinusTimes ==
  ASSUME NEW t \in Time, NEW u \in Time, iperf_time_in_usecs(t) <= iperf_time_in_usecs(u)
  PROVE  /\ Minus(u, t) \in Time
         /\ iperf_time_in_usecs(Minus(u, t)) = iperf_time_in_usecs(u) - iperf_time_in_usecs(t)
<1>1. /\ t.secs \in Nat /\ t.usecs \in Nat /\ t.usecs < MILLION
      /\ u.secs \in Nat /\ u.usecs \in Nat /\ u.usecs < MILLION
  BY TimeFields
<1>2. t.secs * MILLION + t.usecs <= u.secs * MILLION + u.usecs
  BY DEF iperf_time_in_usecs
<1>3. CASE u.usecs < t.usecs
  <2>1. Minus(u, t) = [secs |-> u.secs - t.secs - 1, usecs |-> u.usecs + MILLION - t.usecs]
    BY <1>3 DEF Minus
  <2>2. /\ u.secs - t.secs - 1 \in Nat
        /\ u.usecs + MILLION - t.usecs \in Nat /\ u.usecs + MILLION - t.usecs < MILLION
        /\ (u.secs - t.secs - 1) * MILLION + (u.usecs + MILLION - t.usecs)
             = (u.secs * MILLION + u.usecs) - (t.secs * MILLION + t.usecs)
    BY <1>1, <1>2, <1>3, SMT DEF MILLION
  <2> QED
    BY <2>1, <2>2, TimeFields DEF iperf_time_in_usecs
<1>4. CASE ~(u.usecs < t.usecs)
  <2>1. Minus(u, t) = [secs |-> u.secs - t.secs, usecs |-> u.usecs - t.usecs]
    BY <1>4 DEF Minus
  <2>2. /\ u.secs - t.secs \in Nat
        /\ u.usecs - t.usecs \in Nat /\ u.usecs - t.usecs < MILLION
        /\ (u.secs - t.secs) * MILLION + (u.usecs - t.usecs)
             = (u.secs * MILLION + u.usecs) - (t.secs * MILLION + t.usecs)
    BY <1>1, <1>2, <1>4, SMT DEF MILLION
  <2> QED
    BY <2>1, <2>2, TimeFields DEF iperf_time_in_usecs
<1> QED
  BY <1>3, <1>4

LEMMA DiffTimes ==
  ASSUME NEW t \in Time, NEW u \in Time
  PROVE  /\ iperf_time_diff(t, u).diff \in Time
         /\ iperf_time_in_usecs(t) <= iperf_time_in_usecs(u) =>
              iperf_time_in_usecs(iperf_time_diff(t, u).diff)
                = iperf_time_in_usecs(u) - iperf_time_in_usecs(t)
<1> DEFINE a == iperf_time_in_usecs(t)
           b == iperf_time_in_usecs(u)
           cmp == iperf_time_compare(t, u)
<1>1. /\ a \in Nat /\ b \in Nat /\ cmp \in {-1, 0, 1}
      /\ cmp = -1 <=> a < b
      /\ cmp = 1 <=> a > b
      /\ cmp = 0 <=> a = b
  BY CompareTimes
<1>2. CASE cmp = 0
  <2>1. iperf_time_diff(t, u).diff = [secs |-> 0, usecs |-> 0]
    BY <1>2 DEF iperf_time_diff
  <2>2. [secs |-> 0, usecs |-> 0] \in Time /\ iperf_time_in_usecs([secs |-> 0, usecs |-> 0]) = 0
    <3>1. [secs |-> 0, usecs |-> 0] \in Time
      BY TimeFields, Million
    <3> QED
      BY <3>1, Million DEF iperf_time_in_usecs
  <2>3. b - a = 0
    BY <1>1, <1>2
  <2> QED
    BY <2>1, <2>2, <2>3
<1>3. CASE cmp = 1
  <2>1. iperf_time_diff(t, u).diff = Minus(t, u)
    BY <1>3 DEF iperf_time_diff
  <2>2. a > b /\ b <= a /\ ~(a <= b)
    BY <1>1, <1>3
  <2>3. Minus(t, u) \in Time
    BY <2>2, MinusTimes
  <2> QED
    BY <2>1, <2>2, <2>3
<1>4. CASE cmp = -1
  <2>1. iperf_time_diff(t, u).diff = Minus(u, t)
    BY <1>4 DEF iperf_time_diff
  <2>2. a <= b
    BY <1>1, <1>4
  <2>3. Minus(u, t) \in Time /\ iperf_time_in_usecs(Minus(u, t)) = b - a
    BY <2>2, MinusTimes
  <2> QED
    BY <2>1, <2>2, <2>3
<1> QED
  BY <1>1, <1>2, <1>3, <1>4

---------------------------------------------------------------------------------
(* What the operations do to the record of a stream.                        *)

IsStreamNo(i, s) == IsStream(s) /\ s.id = (IF i = 1 THEN 1 ELSE i + 1)

(* r is s but for its light, its timer and its start time.                  *)
Same(s, r) ==
  /\ r.packet_count = s.packet_count /\ r.cnt_error = s.cnt_error
  /\ r.sent = s.sent /\ r.sent_omit = s.sent_omit /\ r.received = s.received
  /\ r.sent_iv = s.sent_iv /\ r.received_iv = s.received_iv /\ r.intervals = s.intervals

(* r is s after iperf_stats_callback.                                       *)
Collected(s, r, sender, o) ==
  /\ r.packet_count = s.packet_count /\ r.cnt_error = s.cnt_error
  /\ r.sent = s.sent /\ r.sent_omit = s.sent_omit /\ r.received = s.received
  /\ r.sent_iv = 0 /\ r.received_iv = 0 /\ r.green = s.green /\ r.send_timer = s.send_timer
  /\ \E e \in Entries : /\ r.intervals = Append(s.intervals, e) /\ e.omitted = o
                        /\ e.bytes = IF sender THEN s.sent_iv ELSE s.received_iv

(* r is s after iperf_reset_stats.                                          *)
HasReset(s, r) ==
  /\ r.packet_count = s.packet_count /\ r.cnt_error = s.cnt_error
  /\ r.sent = s.sent /\ r.sent_omit = s.sent /\ r.received = 0
  /\ r.sent_iv = 0 /\ r.received_iv = 0 /\ r.intervals = s.intervals /\ r.green = s.green
  /\ r.send_timer = s.send_timer

(* A stream of the sender before and after iperf_send: it has sent, at e    *)
(* microseconds, d if the test was done, or it has run into ENOBUFS.        *)
HasSent(s, r, e, d) ==
  /\ r.packet_count = IntInc(s.packet_count) /\ r.cnt_error = s.cnt_error
  /\ r.sent = s.sent + blksize /\ r.sent_iv = s.sent_iv + blksize
  /\ r.sent_omit = s.sent_omit /\ r.received = s.received
  /\ r.received_iv = s.received_iv /\ r.intervals = s.intervals
  /\ r.send_timer = s.send_timer
  /\ ~(d \/ rate = 0) => (r.green <=> r.sent * 8 * MILLION < rate * e)

HasFailed(s, r) ==
  /\ r.packet_count = IntInc(s.packet_count) /\ r.cnt_error = s.cnt_error
  /\ r.sent = s.sent /\ r.sent_iv = s.sent_iv
  /\ r.sent_omit = s.sent_omit /\ r.received = s.received
  /\ r.received_iv = s.received_iv /\ r.intervals = s.intervals /\ r.green = s.green
  /\ r.send_timer = s.send_timer

(* A stream of the receiver before and after the datagram with number n.    *)
HasReceived(s, r, n) ==
  /\ r.received = s.received + blksize /\ r.received_iv = s.received_iv + blksize
  /\ r.sent = s.sent /\ r.sent_iv = s.sent_iv /\ r.sent_omit = s.sent_omit
  /\ r.green = s.green /\ r.intervals = s.intervals /\ r.send_timer = s.send_timer
  /\ Forward(s, n) => /\ r.packet_count = AsInt(n)
                      /\ r.cnt_error = s.cnt_error + ((n - 1) - s.packet_count)
  /\ ~Forward(s, n) => /\ r.packet_count = s.packet_count
                       /\ r.cnt_error = IF s.cnt_error > 0 THEN s.cnt_error - 1 ELSE s.cnt_error

(* A stream of the sender or of the receiver before and after get_results,  *)
(* with o the stream of the other side.                                     *)
HasResults(s, r, sender, o) ==
  /\ r.packet_count = s.packet_count /\ r.green = s.green /\ r.intervals = s.intervals
  /\ r.sent_iv = s.sent_iv /\ r.sent_omit = s.sent_omit /\ r.received_iv = s.received_iv
  /\ r.send_timer = s.send_timer
  /\ sender => r.sent = s.sent /\ r.received = o.received
  /\ ~sender => r.received = s.received /\ r.cnt_error = s.cnt_error

LEMMA ZeroTime == [secs |-> 0, usecs |-> 0] \in Time
  BY TimeFields, Million

LEMMA NewStream ==
  ASSUME NEW i, NEW r, r = iperf_new_stream(i)
  PROVE  /\ IsStreamNo(i, r)
         /\ r.packet_count = 0 /\ r.cnt_error = 0 /\ r.sent = 0 /\ r.sent_omit = 0
         /\ r.received = 0 /\ r.sent_iv = 0 /\ r.received_iv = 0 /\ r.intervals = <<>>
         /\ r.green = FALSE
<1>1. [secs |-> 0, usecs |-> 0] \in Time
  BY ZeroTime
<1>2. <<>> \in Seq(Entries)
  OBVIOUS
<1> QED
  BY <1>1, <1>2 DEF iperf_new_stream, IsStream, IsStreamNo

LEMMA SendStream ==
  ASSUME NEW s, IsStream(s), NEW r, r = iperf_udp_send(s)
  PROVE  /\ IsStream(r) /\ r.packet_count = IntInc(s.packet_count)
         /\ r.sent = s.sent + blksize /\ r.sent_iv = s.sent_iv + blksize
         /\ r.id = s.id /\ r.cnt_error = s.cnt_error /\ r.sent_omit = s.sent_omit
         /\ r.received = s.received /\ r.received_iv = s.received_iv
         /\ r.intervals = s.intervals /\ r.send_timer = s.send_timer
<1>1. /\ IntInc(s.packet_count) \in Int /\ s.sent + blksize \in Int
      /\ s.sent_iv + blksize \in Int
  BY StreamAssumption DEF IsStream, IntInc
<1>2. r = [s EXCEPT !.packet_count = IntInc(s.packet_count), !.sent = s.sent + blksize,
                    !.sent_iv = s.sent_iv + blksize]
  BY DEF iperf_udp_send
<1> QED
  BY <1>1, <1>2 DEF IsStream

LEMMA SoftStream ==
  ASSUME NEW i, NEW s, IsStreamNo(i, s), NEW r, r = iperf_udp_send_soft(s)
  PROVE  IsStreamNo(i, r) /\ HasFailed(s, r)
  BY StreamAssumption DEF IsStream, IsStreamNo, HasFailed, iperf_udp_send_soft, IntInc

LEMMA ResetStream ==
  ASSUME NEW i, NEW s, IsStreamNo(i, s), NEW t \in Time, NEW r, r = iperf_reset_stats(s, t)
  PROVE  IsStreamNo(i, r) /\ HasReset(s, r)
  BY DEF IsStream, IsStreamNo, HasReset, iperf_reset_stats

LEMMA StartStream ==
  ASSUME NEW i, NEW s, IsStreamNo(i, s), NEW t \in Time
  PROVE  /\ \A id : LET r == [s EXCEPT !.start_time = t, !.green = TRUE, !.send_timer = id]
                    IN  IsStreamNo(i, r) /\ Same(s, r) /\ r.green
         /\ LET r == [s EXCEPT !.start_time = t]
            IN  IsStreamNo(i, r) /\ Same(s, r) /\ r.green = s.green
<1>1. ASSUME NEW id
      PROVE  LET r == [s EXCEPT !.start_time = t, !.green = TRUE, !.send_timer = id]
             IN  IsStreamNo(i, r) /\ Same(s, r) /\ r.green
  BY DEF IsStream, IsStreamNo, Same
<1>2. LET r == [s EXCEPT !.start_time = t]
      IN  IsStreamNo(i, r) /\ Same(s, r) /\ r.green = s.green
  BY DEF IsStream, IsStreamNo, Same
<1> QED
  BY <1>1, <1>2

LEMMA FreeStream ==
  ASSUME NEW i, NEW s, IsStreamNo(i, s), NEW r, r = [s EXCEPT !.send_timer = NULL]
  PROVE  IsStreamNo(i, r) /\ Same(s, r) /\ r.green = s.green
  BY DEF IsStream, IsStreamNo, Same

(* What iperf_udp_recv does to s in any case.                               *)
Counts(s, r) ==
  /\ DOMAIN r = DOMAIN s /\ r.id = s.id /\ r.start_time = s.start_time
  /\ r.received = s.received + blksize /\ r.received_iv = s.received_iv + blksize
  /\ r.sent = s.sent /\ r.sent_iv = s.sent_iv /\ r.sent_omit = s.sent_omit
  /\ r.green = s.green /\ r.intervals = s.intervals /\ r.send_timer = s.send_timer

LEMMA RecvStream ==
  ASSUME NEW i, NEW s, IsStreamNo(i, s), NEW n \in Int, NEW r, r = iperf_udp_recv(s, n)
  PROVE  IsStreamNo(i, r) /\ HasReceived(s, r, n)
<1>1. CASE Forward(s, n)
  <2>1. r = [s EXCEPT !.received = @ + blksize, !.received_iv = @ + blksize,
                      !.cnt_error = @ + ((n - 1) - s.packet_count), !.packet_count = AsInt(n)]
    BY <1>1 DEF iperf_udp_recv, IsStream, IsStreamNo
  <2>2. AsInt(n) \in Int
    BY StreamAssumption DEF AsInt
  <2>3. /\ Counts(s, r) /\ r.packet_count = AsInt(n)
        /\ r.cnt_error = s.cnt_error + ((n - 1) - s.packet_count)
    BY <2>1 DEF IsStream, IsStreamNo, Counts
  <2>4. /\ s.cnt_error + ((n - 1) - s.packet_count) \in Int
        /\ s.received + blksize \in Int /\ s.received_iv + blksize \in Int
    BY StreamAssumption DEF IsStream, IsStreamNo
  <2>5. IsStreamNo(i, r)
    BY <2>2, <2>3, <2>4 DEF IsStream, IsStreamNo, Counts
  <2> QED
    BY <1>1, <2>3, <2>5 DEF HasReceived, Counts
<1>2. CASE ~Forward(s, n)
  <2>1. r = [s EXCEPT !.received = @ + blksize, !.received_iv = @ + blksize,
                      !.outoforder = @ + 1,
                      !.cnt_error = IF @ > 0 THEN @ - 1 ELSE @]
    BY <1>2 DEF iperf_udp_recv, IsStream, IsStreamNo
  <2>2. /\ Counts(s, r) /\ r.packet_count = s.packet_count
        /\ r.cnt_error = IF s.cnt_error > 0 THEN s.cnt_error - 1 ELSE s.cnt_error
    BY <2>1 DEF IsStream, IsStreamNo, Counts
  <2>3. IsStreamNo(i, r)
    BY <2>2, StreamAssumption DEF IsStream, IsStreamNo, Counts
  <2> QED
    BY <1>2, <2>2, <2>3 DEF HasReceived, Counts
<1> QED
  BY <1>1, <1>2

LEMMA ThrottleStream ==
  ASSUME NEW s, IsStream(s), NEW e, NEW d, NEW r, r = iperf_check_throttle(s, e, d)
  PROVE  /\ IsStream(r) /\ r.id = s.id /\ Same(s, r) /\ r.send_timer = s.send_timer
         /\ d \/ rate = 0 => r.green = s.green
         /\ ~(d \/ rate = 0) => (r.green <=> s.sent * 8 * MILLION < rate * e)
<1>1. CASE d \/ rate = 0
  BY <1>1 DEF IsStream, Same, iperf_check_throttle
<1>2. CASE ~(d \/ rate = 0)
  <2> DEFINE g == s.sent * 8 * MILLION < rate * e
  <2>1. r = [s EXCEPT !.green = g]
    BY <1>2 DEF iperf_check_throttle
  <2>2. g \in BOOLEAN
    OBVIOUS
  <2> HIDE DEF g
  <2>4. /\ IsStream(r) /\ r.id = s.id /\ Same(s, r) /\ r.green = g
        /\ r.send_timer = s.send_timer
    BY <2>1, <2>2 DEF IsStream, Same
  <2> QED
    BY <1>2, <2>4 DEF g
<1> QED
  BY <1>1, <1>2

(* A datagram, and iperf_check_throttle after it.                           *)
LEMMA SentStream ==
  ASSUME NEW i, NEW s, IsStreamNo(i, s), NEW e, NEW d,
         NEW r, r = iperf_check_throttle(iperf_udp_send(s), e, d)
  PROVE  IsStreamNo(i, r) /\ HasSent(s, r, e, d)
<1> DEFINE m == iperf_udp_send(s)
<1>1. /\ IsStream(m) /\ m.packet_count = IntInc(s.packet_count)
      /\ m.sent = s.sent + blksize /\ m.sent_iv = s.sent_iv + blksize
      /\ m.id = s.id /\ m.cnt_error = s.cnt_error /\ m.sent_omit = s.sent_omit
      /\ m.received = s.received /\ m.received_iv = s.received_iv
      /\ m.intervals = s.intervals /\ m.send_timer = s.send_timer
  BY SendStream DEF IsStreamNo
<1> HIDE DEF m
<1>2. /\ IsStream(r) /\ r.id = m.id /\ Same(m, r) /\ r.send_timer = m.send_timer
      /\ ~(d \/ rate = 0) => (r.green <=> m.sent * 8 * MILLION < rate * e)
  <2>1. r = iperf_check_throttle(m, e, d)
    BY DEF m
  <2> QED
    BY <1>1, <2>1, ThrottleStream
<1>3. m.sent = r.sent
  BY <1>2 DEF Same
<1> QED
  BY <1>1, <1>2, <1>3 DEF IsStreamNo, Same, HasSent

LEMMA StatsStream ==
  ASSUME NEW i, NEW s, IsStreamNo(i, s), NEW sender \in BOOLEAN, NEW o \in BOOLEAN,
         NEW t \in Time, NEW r, r = iperf_stats_callback(s, sender, o, t)
  PROVE  IsStreamNo(i, r) /\ Collected(s, r, sender, o)
<1> DEFINE before == IF s.intervals = <<>>
                     THEN [packet_count |-> 0, cnt_error |-> 0, end |-> s.start_time]
                     ELSE s.intervals[Len(s.intervals)]
           e == [start |-> before.end, end |-> t,
                 bytes |-> IF sender THEN s.sent_iv ELSE s.received_iv, omitted |-> o,
                 packets |-> s.packet_count - before.packet_count,
                 lost |-> s.cnt_error - before.cnt_error,
                 packet_count |-> s.packet_count, cnt_error |-> s.cnt_error]
<1>1. /\ s.intervals \in Seq(Entries) /\ s.start_time \in Time /\ s.packet_count \in Int
      /\ s.cnt_error \in Int /\ s.sent_iv \in Int /\ s.received_iv \in Int
  BY DEF IsStream, IsStreamNo
<1>2. before.end \in Time /\ before.packet_count \in Int /\ before.cnt_error \in Int
  <2>1. CASE s.intervals = <<>>
    BY <1>1, <2>1
  <2>2. CASE s.intervals # <<>>
    <3>1. s.intervals[Len(s.intervals)] \in Entries
      BY <1>1, <2>2
    <3>2. \A x \in Entries : x.end \in Time /\ x.packet_count \in Int /\ x.cnt_error \in Int
      BY DEF Entries
    <3> QED
      BY <2>2, <3>1, <3>2
  <2> QED
    BY <2>1, <2>2
<1>3. r = [s EXCEPT !.intervals = Append(@, e), !.sent_iv = 0, !.received_iv = 0]
  BY DEF iperf_stats_callback
<1> HIDE DEF before
<1>4. e \in Entries /\ e.omitted = o /\ e.bytes = IF sender THEN s.sent_iv ELSE s.received_iv
  BY <1>1, <1>2 DEF Entries
<1> HIDE DEF e
<1>5. Append(s.intervals, e) \in Seq(Entries)
  BY <1>1, <1>4
<1>6. /\ IsStream(r) /\ r.packet_count = s.packet_count
      /\ r.sent = s.sent /\ r.sent_iv = 0 /\ r.sent_omit = s.sent_omit
      /\ r.id = s.id /\ r.cnt_error = s.cnt_error
      /\ r.received = s.received /\ r.received_iv = 0 /\ r.green = s.green
      /\ r.intervals = Append(s.intervals, e) /\ r.send_timer = s.send_timer
  BY <1>3, <1>5 DEF IsStream, IsStreamNo
<1> QED
  BY <1>4, <1>6 DEF IsStreamNo, Collected

(* get_results takes over what belongs to the other side.                   *)
Taken(s, sender, j) ==
  IF sender
  THEN [s EXCEPT !.cnt_error = j.errors, !.peer_packets = j.packets, !.received = j.bytes]
  ELSE [s EXCEPT !.peer_packets = j.packets, !.sent = j.bytes]

LEMMA TakeResults ==
  ASSUME NEW i, NEW s, IsStreamNo(i, s), NEW sender \in BOOLEAN,
         NEW j, j.errors \in Int, j.bytes \in Int, NEW o, sender => j.bytes = o.received,
         NEW r, r = Taken(s, sender, j)
  PROVE  IsStreamNo(i, r) /\ HasResults(s, r, sender, o)
<1>1. CASE sender
  <2>1. r = [s EXCEPT !.cnt_error = j.errors, !.peer_packets = j.packets, !.received = j.bytes]
    BY <1>1 DEF Taken
  <2> QED
    BY <1>1, <2>1, ZenonT(40) DEF IsStream, IsStreamNo, HasResults
<1>2. CASE ~sender
  <2>1. r = [s EXCEPT !.peer_packets = j.packets, !.sent = j.bytes]
    BY <1>2 DEF Taken
  <2> QED
    BY <1>2, <2>1 DEF IsStream, IsStreamNo, HasResults
<1> QED
  BY <1>1, <1>2

(* It finds the stream of the other side by its id.                         *)
LEMMA GetStream ==
  ASSUME NEW i \in Streams, NEW s, IsStreamNo(i, s), NEW sender \in BOOLEAN,
         NEW f, \A k \in Streams : IsStreamNo(k, f[k]),
         NEW r, r = get_results(s, sender, [k \in Streams |-> send_results(f[k], ~sender)])
  PROVE  IsStreamNo(i, r) /\ HasResults(s, r, sender, f[i])
<1> DEFINE results == [k \in Streams |-> send_results(f[k], ~sender)]
           j == results[CHOOSE k \in DOMAIN results : results[k].id = s.id]
<1>1. ASSUME NEW k \in Streams
      PROVE  /\ results[k].id = f[k].id /\ results[k].errors = f[k].cnt_error
             /\ results[k].bytes = IF ~sender THEN f[k].sent - f[k].sent_omit ELSE f[k].received
  BY DEF send_results
<1>2. ASSUME NEW k \in Streams
      PROVE  results[k].id = s.id <=> k = i
  <2>1. k \in Nat /\ i \in Nat /\ k # 0
    BY StreamAssumption DEF Streams
  <2>2. /\ results[k].id = (IF k = 1 THEN 1 ELSE k + 1) /\ s.id = (IF i = 1 THEN 1 ELSE i + 1)
    BY <1>1, Zenon DEF IsStreamNo
  <2>3. (IF k = 1 THEN 1 ELSE k + 1) = (IF i = 1 THEN 1 ELSE i + 1) <=> k = i
    <3>1. \A a, b \in Nat : a # 0 /\ b # 0 =>
            ((IF a = 1 THEN 1 ELSE a + 1) = (IF b = 1 THEN 1 ELSE b + 1) <=> a = b)
      OBVIOUS
    <3>2. i # 0
      BY StreamAssumption DEF Streams
    <3> QED
      BY <2>1, <3>1, <3>2, Zenon
  <2> QED
    BY <2>2, <2>3, Zenon
<1>3. DOMAIN results = Streams
  OBVIOUS
<1> HIDE DEF results
<1>4. j = results[i]
  <2>1. (CHOOSE k \in DOMAIN results : results[k].id = s.id) = i
    BY <1>2, <1>3, Zenon
  <2> QED
    BY <2>1, Zenon
<1>5. /\ j.errors \in Int /\ j.bytes \in Int
      /\ sender => j.bytes = f[i].received
  <2>1. /\ j.errors = f[i].cnt_error
        /\ j.bytes = IF ~sender THEN f[i].sent - f[i].sent_omit ELSE f[i].received
    BY <1>1, <1>4
  <2>2. /\ f[i].cnt_error \in Int /\ f[i].sent \in Int /\ f[i].sent_omit \in Int
        /\ f[i].received \in Int
    BY Zenon DEF IsStreamNo, IsStream
  <2> HIDE DEF j
  <2> QED
    BY <2>1, <2>2
<1>6. r = Taken(s, sender, j)
  BY Zenon DEF get_results, results, Taken
<1> HIDE DEF j
<1> QED
  BY <1>5, <1>6, TakeResults, Zenon

---------------------------------------------------------------------------------
(* The streams of both sides, and what a step does to them.                 *)

StreamsTyped ==
  /\ DOMAIN st = Sides
  /\ \A p \in Sides : DOMAIN st[p] = Streams /\ \A i \in Streams : IsStreamNo(i, st[p][i])

TrafficTyped ==
  /\ reverse \in BOOLEAN /\ clock \in Nat
  /\ done \in [Sides -> BOOLEAN] /\ omitting \in [Sides -> BOOLEAN] /\ start \in [Sides -> Time]
  /\ net \subseteq Streams \X Int /\ DOMAIN counted = Streams
  /\ StreamsTyped

(* No stream gets another timer.                                            *)
TimersKept == \A p \in Sides : \A i \in Streams : st'[p][i].send_timer = st[p][i].send_timer

(* A stream that sends nothing gets a green light only as it is behind its  *)
(* rate.                                                                    *)
LightsKept ==
  \A p \in Sides : \A i \in Streams :
    st'[p][i].green => st[p][i].green \/ st[p][i].sent * 8 * MILLION < rate * Elapsed(p)

(* The kinds of steps, as far as the statistics of the streams go.          *)
SameStep ==
  /\ \A p \in Sides : \A i \in Streams : Same(st[p][i], st'[p][i])
  /\ net' \subseteq net /\ counted' = counted
  /\ (omitting' = omitting /\ TimersKept) \/ ServerStarts \/ ClientStarts
       \/ (omitting' = omitting /\ (ServerTimer \/ ServerEnds))
  /\ LightsKept \/ ServerStarts \/ ClientStarts

StatsStep ==
  /\ \E p \in Sides :
       /\ \A i \in Streams : Collected(st[p][i], st'[p][i], p = Snd, omitting[p])
       /\ \A q \in Sides : q # p => st'[q] = st[q]
  /\ net' = net /\ counted' = counted /\ omitting' = omitting

OmitStep ==
  /\ \E p \in Sides :
       /\ OmitTimer(p)
       /\ \A i \in Streams : HasReset(st[p][i], st'[p][i])
       /\ \A q \in Sides : q # p => st'[q] = st[q]
  /\ net' = net /\ counted' = counted

SendStep ==
  /\ Selects(Snd) /\ (Snd = "server" => ~done["server"])
  /\ \E sent \in SUBSET Streams, failed \in SUBSET Streams :
       /\ sent \cap failed = {}
       /\ \A i \in sent \cup failed :
            st[Snd][i].green /\ st[Snd][i].packet_count < MAX_PACKETS
       /\ \A i \in sent : HasSent(st[Snd][i], st'[Snd][i], Elapsed(Snd), done[Snd])
       /\ \A i \in failed : HasFailed(st[Snd][i], st'[Snd][i])
       /\ \A i \in Streams \ (sent \cup failed) : st'[Snd][i] = st[Snd][i]
       /\ net' = net \cup {<<i, st'[Snd][i].packet_count>> : i \in sent}
  /\ st'[Rcv] = st[Rcv] /\ counted' = counted /\ omitting' = omitting

ReceiveStep ==
  /\ \E D \in SUBSET net :
       /\ net' = net \ D
       /\ \A i \in Streams :
            \/ /\ \A d \in D : d[1] # i
               /\ st'[Rcv][i] = st[Rcv][i] /\ counted'[i] = counted[i]
            \/ \E d \in D : /\ d[1] = i /\ HasReceived(st[Rcv][i], st'[Rcv][i], d[2])
                            /\ counted'[i] = counted[i] \cup {d[2]}
  /\ st'[Snd] = st[Snd] /\ omitting' = omitting

ResultStep ==
  /\ ClientResults
  /\ \A p \in Sides : \A i \in Streams :
       \E o : HasResults(st[p][i], st'[p][i], p = Snd, o) /\ (p = Snd => o = st[Rcv][i])

(* The streams of side p become f, those of the other side stay.            *)
LEMMA OneSide ==
  ASSUME StreamsTyped, NEW p \in Sides, NEW f, DOMAIN f = Streams,
         \A i \in Streams : IsStreamNo(i, f[i]), st' = [st EXCEPT ![p] = f]
  PROVE  /\ StreamsTyped' /\ st'[p] = f
         /\ \A q \in Sides : q # p => st'[q] = st[q]
<1>1. st'[p] = f /\ \A q \in Sides : q # p => st'[q] = st[q]
  BY DEF StreamsTyped
<1>2. DOMAIN st' = Sides
  BY DEF StreamsTyped
<1>3. ASSUME NEW q \in Sides
      PROVE  DOMAIN st'[q] = Streams /\ \A i \in Streams : IsStreamNo(i, st'[q][i])
  BY <1>1 DEF StreamsTyped
<1> QED
  BY <1>1, <1>2, <1>3 DEF StreamsTyped

LEMMA SideOfSender ==
  /\ Snd \in Sides /\ Rcv \in Sides /\ Snd # Rcv /\ Sides = {Snd, Rcv}
  /\ reverse' = reverse => Snd' = Snd /\ Rcv' = Rcv
  BY DEF Sides, Snd, Rcv

LEMMA TypedInit ==
  ASSUME TrafficInit
  PROVE  TrafficTyped
<1>1. [secs |-> 0, usecs |-> 0] \in Time
  BY ZeroTime
<1>2. StreamsTyped
  BY NewStream DEF TrafficInit, StreamsTyped, IsStreamNo
<1>3. reverse \in BOOLEAN
  BY TrafficAssumption DEF TrafficInit
<1> QED
  BY <1>1, <1>2, <1>3 DEF TrafficInit, TrafficTyped

(* What StartTest does, with names for the lists of timers in between.      *)
StartLast(p) == (duration + omit + (IF p = "server" THEN grace_period ELSE 0)) * MILLION

StartBody(p, a, b, c, d) ==
  /\ start' = [start EXCEPT ![p] = Now]
  /\ ptr' = [ptr EXCEPT ![p] =
              [timer |-> a.id, stats |-> b.id, reporter |-> c.id, omit |-> d.id]]
  /\ omitting' = [omitting EXCEPT ![p] = omit # 0]
  /\ IF p = Snd
     THEN /\ tmr' = [tmr EXCEPT ![p] = iperf_create_send_timers(d)[num_streams].L]
          /\ st' = [st EXCEPT ![p] = [i \in Streams |->
                      [st[p][i] EXCEPT !.start_time = Now, !.green = TRUE,
                                       !.send_timer = iperf_create_send_timers(d)[i].id]]]
     ELSE /\ tmr' = [tmr EXCEPT ![p] = d.L]
          /\ st' = [st EXCEPT ![p] = [i \in Streams |-> [st[p][i] EXCEPT !.start_time = Now]]]

LEMMA StartParts ==
  ASSUME NEW p, StartTest(p)
  PROVE  \E a, b, c, d :
           /\ a = Create(tmr[p], duration # 0, "test", NULL, StartLast(p), FALSE)
           /\ b = Create(a.L, stats_interval # 0, "stats", NULL, stats_interval, TRUE)
           /\ c = Create(b.L, reporter_interval # 0, "reporter", NULL, reporter_interval, TRUE)
           /\ d = Create(c.L, omit # 0, "omit", NULL, omit * MILLION, FALSE)
           /\ StartBody(p, a, b, c, d)
<1>1. \E a \in {Create(tmr[p], duration # 0, "test", NULL, StartLast(p), FALSE)} :
      \E b \in {Create(a.L, stats_interval # 0, "stats", NULL, stats_interval, TRUE)} :
      \E c \in {Create(b.L, reporter_interval # 0, "reporter", NULL, reporter_interval, TRUE)} :
      \E d \in {Create(c.L, omit # 0, "omit", NULL, omit * MILLION, FALSE)} :
        StartBody(p, a, b, c, d)
  BY Zenon DEF StartTest, StartLast, StartBody
<1> QED
  BY <1>1, Zenon

LEMMA StartStep ==
  ASSUME TrafficTyped, NEW p \in Sides, StartTest(p)
  PROVE  /\ StreamsTyped' /\ \A q \in Sides : \A i \in Streams : Same(st[q][i], st'[q][i])
         /\ start' \in [Sides -> Time] /\ omitting' \in [Sides -> BOOLEAN]
<1>1. Now \in Time
  BY NowType DEF TrafficTyped
<1>2. start' = [start EXCEPT ![p] = Now] /\ omitting' = [omitting EXCEPT ![p] = omit # 0]
  BY DEF StartTest
<1>3. start' \in [Sides -> Time] /\ omitting' \in [Sides -> BOOLEAN]
  BY <1>1, <1>2 DEF TrafficTyped
<1>4. PICK d :
        \/ st' = [st EXCEPT ![p] = [i \in Streams |->
                    [st[p][i] EXCEPT !.start_time = Now, !.green = TRUE,
                                     !.send_timer = iperf_create_send_timers(d)[i].id]]]
        \/ st' = [st EXCEPT ![p] = [i \in Streams |-> [st[p][i] EXCEPT !.start_time = Now]]]
  <2>1. PICK a, b, c, d : StartBody(p, a, b, c, d)
    BY StartParts, Zenon
  <2> QED
    BY <2>1, Zenon DEF StartBody
<1>5. PICK f : /\ st' = [st EXCEPT ![p] = f] /\ DOMAIN f = Streams
               /\ \A i \in Streams : IsStreamNo(i, f[i]) /\ Same(st[p][i], f[i])
  <2>1. \A i \in Streams : IsStreamNo(i, st[p][i])
    BY DEF TrafficTyped, StreamsTyped
  <2>2. CASE st' = [st EXCEPT ![p] = [i \in Streams |-> [st[p][i] EXCEPT !.start_time = Now]]]
    <3> DEFINE f == [i \in Streams |-> [st[p][i] EXCEPT !.start_time = Now]]
    <3>1. \A i \in Streams : IsStreamNo(i, f[i]) /\ Same(st[p][i], f[i])
      BY <1>1, <2>1, StartStream
    <3> QED
      BY <2>2, <3>1
  <2>3. CASE st' = [st EXCEPT ![p] = [i \in Streams |->
                    [st[p][i] EXCEPT !.start_time = Now, !.green = TRUE,
                                     !.send_timer = iperf_create_send_timers(d)[i].id]]]
    <3> DEFINE f == [i \in Streams |->
                    [st[p][i] EXCEPT !.start_time = Now, !.green = TRUE,
                                     !.send_timer = iperf_create_send_timers(d)[i].id]]
    <3>1. \A i \in Streams : IsStreamNo(i, f[i]) /\ Same(st[p][i], f[i])
      BY <1>1, <2>1, StartStream
    <3> QED
      BY <2>3, <3>1
  <2> QED
    BY <1>4, <2>2, <2>3
<1>6. StreamsTyped' /\ st'[p] = f /\ \A q \in Sides : q # p => st'[q] = st[q]
  BY <1>5, OneSide DEF TrafficTyped
<1>7. \A q \in Sides : \A i \in Streams : Same(st[q][i], st'[q][i])
  BY <1>5, <1>6 DEF Same
<1> QED
  BY <1>3, <1>6, <1>7

(* The streams of side p are collected.                                     *)
LEMMA CollectStep ==
  ASSUME TrafficTyped, NEW p \in Sides, NEW o \in BOOLEAN,
         st' = [st EXCEPT ![p] = [i \in Streams |->
                  iperf_stats_callback(st[p][i], p = Snd, o, Now)]]
  PROVE  /\ StreamsTyped'
         /\ \A i \in Streams : Collected(st[p][i], st'[p][i], p = Snd, o)
         /\ \A q \in Sides : q # p => st'[q] = st[q]
<1> DEFINE f == [i \in Streams |-> iperf_stats_callback(st[p][i], p = Snd, o, Now)]
<1>1. Now \in Time /\ (p = Snd) \in BOOLEAN
  BY NowType DEF TrafficTyped
<1>2. \A i \in Streams : IsStreamNo(i, st[p][i])
  BY DEF TrafficTyped, StreamsTyped
<1>3. \A i \in Streams : IsStreamNo(i, f[i]) /\ Collected(st[p][i], f[i], p = Snd, o)
  BY <1>1, <1>2, StatsStream
<1>4. DOMAIN f = Streams /\ st' = [st EXCEPT ![p] = f]
  OBVIOUS
<1> HIDE DEF f
<1>5. StreamsTyped' /\ st'[p] = f /\ \A q \in Sides : q # p => st'[q] = st[q]
  BY <1>3, <1>4, OneSide DEF TrafficTyped
<1> QED
  BY <1>3, <1>5

LEMMA ResetStep ==
  ASSUME TrafficTyped, NEW p \in Sides,
         st' = [st EXCEPT ![p] = [i \in Streams |-> iperf_reset_stats(st[p][i], Now)]]
  PROVE  /\ StreamsTyped' /\ \A i \in Streams : HasReset(st[p][i], st'[p][i])
         /\ \A q \in Sides : q # p => st'[q] = st[q]
<1> DEFINE f == [i \in Streams |-> iperf_reset_stats(st[p][i], Now)]
<1>1. Now \in Time
  BY NowType DEF TrafficTyped
<1>2. \A i \in Streams : IsStreamNo(i, st[p][i])
  BY DEF TrafficTyped, StreamsTyped
<1>3. \A i \in Streams : IsStreamNo(i, f[i]) /\ HasReset(st[p][i], f[i])
  BY <1>1, <1>2, ResetStream
<1>4. DOMAIN f = Streams /\ st' = [st EXCEPT ![p] = f]
  OBVIOUS
<1> HIDE DEF f
<1>5. StreamsTyped' /\ st'[p] = f /\ \A q \in Sides : q # p => st'[q] = st[q]
  BY <1>3, <1>4, OneSide DEF TrafficTyped
<1> QED
  BY <1>3, <1>5

LEMMA FreeStep ==
  ASSUME TrafficTyped, NEW p \in Sides,
         st' = [st EXCEPT ![p] = [i \in Streams |-> [st[p][i] EXCEPT !.send_timer = NULL]]]
  PROVE  /\ StreamsTyped'
         /\ \A q \in Sides : \A i \in Streams :
              Same(st[q][i], st'[q][i]) /\ st'[q][i].green = st[q][i].green
<1> DEFINE f == [i \in Streams |-> [st[p][i] EXCEPT !.send_timer = NULL]]
<1>2. \A i \in Streams : IsStreamNo(i, st[p][i])
  BY DEF TrafficTyped, StreamsTyped
<1>3. \A i \in Streams :
        IsStreamNo(i, f[i]) /\ Same(st[p][i], f[i]) /\ f[i].green = st[p][i].green
  BY <1>2, FreeStream
<1>4. DOMAIN f = Streams /\ st' = [st EXCEPT ![p] = f]
  OBVIOUS
<1> HIDE DEF f
<1>5. StreamsTyped' /\ st'[p] = f /\ \A q \in Sides : q # p => st'[q] = st[q]
  BY <1>3, <1>4, OneSide DEF TrafficTyped
<1> QED
  BY <1>3, <1>5 DEF Same

LEMMA ThrottleStep ==
  ASSUME TrafficTyped, NEW p \in Sides, NEW i,
         st' = [st EXCEPT ![p][i] = iperf_check_throttle(st[p][i], Elapsed(p), done[p])]
  PROVE  /\ StreamsTyped'
         /\ \A q \in Sides : \A k \in Streams :
              /\ Same(st[q][k], st'[q][k]) /\ st'[q][k].send_timer = st[q][k].send_timer
              /\ \/ st'[q][k].green = st[q][k].green
                 \/ ~(done[q] \/ rate = 0) /\
                    (st'[q][k].green <=> st[q][k].sent * 8 * MILLION < rate * Elapsed(q))
<1> DEFINE f == [st[p] EXCEPT ![i] = iperf_check_throttle(st[p][i], Elapsed(p), done[p])]
<1>1. \A k \in Streams : IsStreamNo(k, st[p][k])
  BY DEF TrafficTyped, StreamsTyped
<1>2. ASSUME NEW k \in Streams
      PROVE  /\ IsStreamNo(k, f[k]) /\ Same(st[p][k], f[k])
             /\ f[k].send_timer = st[p][k].send_timer
             /\ \/ f[k].green = st[p][k].green
                \/ ~(done[p] \/ rate = 0) /\
                   (f[k].green <=> st[p][k].sent * 8 * MILLION < rate * Elapsed(p))
  <2>1. CASE k = i
    <3>1. f[k] = iperf_check_throttle(st[p][k], Elapsed(p), done[p])
      BY <2>1 DEF TrafficTyped, StreamsTyped
    <3>2. IsStream(st[p][k]) /\ st[p][k].id = (IF k = 1 THEN 1 ELSE k + 1)
      BY <1>1 DEF IsStreamNo
    <3> HIDE DEF f
    <3>3. /\ IsStream(f[k]) /\ f[k].id = st[p][k].id /\ Same(st[p][k], f[k])
          /\ f[k].send_timer = st[p][k].send_timer
          /\ done[p] \/ rate = 0 => f[k].green = st[p][k].green
          /\ ~(done[p] \/ rate = 0) =>
               (f[k].green <=> st[p][k].sent * 8 * MILLION < rate * Elapsed(p))
      BY <3>1, <3>2, ThrottleStream
    <3> QED
      BY <3>2, <3>3, Zenon DEF IsStreamNo
  <2>2. CASE k # i
    <3>1. f[k] = st[p][k]
      BY <2>2 DEF TrafficTyped, StreamsTyped
    <3> QED
      BY <1>1, <3>1, Zenon DEF Same
  <2> QED
    BY <2>1, <2>2
<1>3. DOMAIN f = Streams /\ st' = [st EXCEPT ![p] = f]
  BY DEF TrafficTyped, StreamsTyped
<1> HIDE DEF f
<1>4. StreamsTyped' /\ st'[p] = f /\ \A q \in Sides : q # p => st'[q] = st[q]
  BY <1>2, <1>3, OneSide DEF TrafficTyped
<1>5. ASSUME NEW q \in Sides, NEW k \in Streams
      PROVE  /\ Same(st[q][k], st'[q][k]) /\ st'[q][k].send_timer = st[q][k].send_timer
             /\ \/ st'[q][k].green = st[q][k].green
                \/ ~(done[q] \/ rate = 0) /\
                   (st'[q][k].green <=> st[q][k].sent * 8 * MILLION < rate * Elapsed(q))
  <2>1. CASE q = p
    BY <1>2, <1>4, <2>1, Zenon
  <2>2. CASE q # p
    <3>1. st'[q] = st[q]
      BY <1>4, <2>2
    <3> QED
      BY <3>1, Zenon DEF Same
  <2> QED
    BY <2>1, <2>2
<1> QED
  BY <1>4, <1>5

LEMMA SendDoes ==
  ASSUME TrafficTyped, Send, Selects(Snd), Snd = "server" => ~done["server"],
         reverse' = reverse, omitting' = omitting
  PROVE  StreamsTyped' /\ net' \subseteq Streams \X Int /\ DOMAIN counted' = Streams /\ SendStep
<1> DEFINE go == {i \in Streams : st[Snd][i].green}
           sent(n) == {i \in go : i < n}
           After(n, s, i) ==
             CASE i \in sent(n) ->
                    iperf_check_throttle(iperf_udp_send(s), Elapsed(Snd), done[Snd])
               [] i = n -> iperf_udp_send_soft(s)
               [] OTHER -> s
<1>1. \A i \in go : st[Snd][i].packet_count < MAX_PACKETS
  BY DEF Send
<1>2. PICK n \in {num_streams + 1} \cup go :
         /\ st' = [st EXCEPT ![Snd] = [i \in Streams |-> After(n, st[Snd][i], i)]]
         /\ net' = net \cup {<<i, st'[Snd][i].packet_count>> : i \in sent(n)}
         /\ counted' = counted
  <2>1. (IF "nobufs" \in Faults THEN go ELSE {}) \subseteq go
    OBVIOUS
  <2> QED
    BY <2>1, ZenonT(40) DEF Send
<1> DEFINE f == [i \in Streams |-> After(n, st[Snd][i], i)]
           failed == {i \in go : i = n}
<1>3. \A i \in Streams : IsStreamNo(i, st[Snd][i])
  BY SideOfSender DEF TrafficTyped, StreamsTyped
<1>4. ASSUME NEW i \in sent(n)
      PROVE  IsStreamNo(i, f[i]) /\ HasSent(st[Snd][i], f[i], Elapsed(Snd), done[Snd])
  <2>2. i \in Streams /\ i # n
    BY StreamAssumption DEF Streams
  <2>1. f[i] = iperf_check_throttle(iperf_udp_send(st[Snd][i]), Elapsed(Snd), done[Snd])
    BY <2>2
  <2> QED
    BY <1>3, <2>1, SentStream
<1>5. ASSUME NEW i \in failed
      PROVE  IsStreamNo(i, f[i]) /\ HasFailed(st[Snd][i], f[i])
  <2>1. i \notin sent(n)
    BY StreamAssumption DEF Streams
  <2>2. f[i] = iperf_udp_send_soft(st[Snd][i])
    BY <2>1
  <2> QED
    BY <1>3, <2>2, SoftStream
<1>6. ASSUME NEW i \in Streams \ (sent(n) \cup failed)
      PROVE  IsStreamNo(i, f[i]) /\ f[i] = st[Snd][i]
  <2>1. i \notin sent(n)
    OBVIOUS
  <2>2. i # n
    <3>1. num_streams + 1 \notin Streams
      BY StreamAssumption DEF Streams
    <3> QED
      BY <3>1
  <2>3. f[i] = st[Snd][i]
    BY <2>1, <2>2
  <2> QED
    BY <1>3, <2>3
<1>7. sent(n) \in SUBSET Streams /\ failed \in SUBSET Streams /\ sent(n) \cap failed = {}
  BY StreamAssumption DEF Streams
<1>8. \A i \in sent(n) \cup failed : st[Snd][i].green /\ st[Snd][i].packet_count < MAX_PACKETS
  BY <1>1
<1>9. DOMAIN f = Streams /\ st' = [st EXCEPT ![Snd] = f]
  BY <1>2
<1>10. \A i \in Streams : IsStreamNo(i, f[i])
  BY <1>4, <1>5, <1>6
<1> HIDE DEF f
<1>11. StreamsTyped' /\ st'[Snd] = f /\ st'[Rcv] = st[Rcv]
  BY <1>9, <1>10, OneSide, SideOfSender DEF TrafficTyped
<1> HIDE DEF sent, failed, go
<1>12. net' \subseteq Streams \X Int /\ DOMAIN counted' = Streams
  <2>1. \A i \in Streams : st'[Snd][i].packet_count \in Int
    BY <1>10, <1>11 DEF IsStreamNo, IsStream
  <2>2. \A i \in sent(n) : <<i, st'[Snd][i].packet_count>> \in Streams \X Int
    BY <1>7, <2>1
  <2>3. {<<i, st'[Snd][i].packet_count>> : i \in sent(n)} \subseteq Streams \X Int
    BY <2>2, Zenon
  <2> QED
    BY <1>2, <2>3 DEF TrafficTyped
<1>13. /\ \A i \in sent(n) : HasSent(st[Snd][i], st'[Snd][i], Elapsed(Snd), done[Snd])
       /\ \A i \in failed : HasFailed(st[Snd][i], st'[Snd][i])
       /\ \A i \in Streams \ (sent(n) \cup failed) : st'[Snd][i] = st[Snd][i]
  BY <1>4, <1>5, <1>6, <1>11
<1>14. SendStep
  BY <1>2, <1>7, <1>8, <1>11, <1>13, Zenon DEF SendStep
<1> QED
  BY <1>11, <1>12, <1>14

LEMMA ReceiveDoes ==
  ASSUME TrafficTyped, Receive, reverse' = reverse, omitting' = omitting
  PROVE  StreamsTyped' /\ net' \subseteq Streams \X Int /\ DOMAIN counted' = Streams /\ ReceiveStep
<1>1. PICK D \in (SUBSET net) \ {{}} :
        /\ \A d, e \in D : d[1] = e[1] => d = e
        /\ net' = net \ D
        /\ st' = [st EXCEPT ![Rcv] = [i \in Streams |->
                    IF \E d \in D : d[1] = i
                    THEN iperf_udp_recv(st[Rcv][i], (CHOOSE d \in D : d[1] = i)[2])
                    ELSE st[Rcv][i]]]
        /\ counted' = [i \in Streams |-> counted[i] \cup {d[2] : d \in {d \in D : d[1] = i}}]
  BY Zenon DEF Receive
<1> DEFINE f == [i \in Streams |->
                   IF \E d \in D : d[1] = i
                   THEN iperf_udp_recv(st[Rcv][i], (CHOOSE d \in D : d[1] = i)[2])
                   ELSE st[Rcv][i]]
<1>2. \A i \in Streams : IsStreamNo(i, st[Rcv][i])
  BY SideOfSender DEF TrafficTyped, StreamsTyped
<1>3. ASSUME NEW i \in Streams
      PROVE  /\ IsStreamNo(i, f[i])
             /\ \/ /\ \A d \in D : d[1] # i
                   /\ f[i] = st[Rcv][i] /\ counted'[i] = counted[i]
                \/ \E d \in D : /\ d[1] = i /\ HasReceived(st[Rcv][i], f[i], d[2])
                                /\ counted'[i] = counted[i] \cup {d[2]}
  <2>1. CASE \E d \in D : d[1] = i
    <3> DEFINE d == CHOOSE d \in D : d[1] = i
    <3>1. d \in D /\ d[1] = i
      BY <2>1
    <3>2. f[i] = iperf_udp_recv(st[Rcv][i], d[2])
      BY <2>1
    <3> HIDE DEF d
    <3>3. {e[2] : e \in {e \in D : e[1] = i}} = {d[2]}
      <4>1. {e \in D : e[1] = i} = {d}
        BY <1>1, <3>1
      <4> QED
        BY <4>1
    <3>4. counted'[i] = counted[i] \cup {d[2]}
      BY <1>1, <3>3
    <3>5. d[2] \in Int
      BY <3>1 DEF TrafficTyped
    <3> HIDE DEF f
    <3>6. IsStreamNo(i, f[i]) /\ HasReceived(st[Rcv][i], f[i], d[2])
      BY <1>2, <3>2, <3>5, RecvStream
    <3> QED
      BY <3>1, <3>4, <3>6, Zenon
  <2>2. CASE ~ \E d \in D : d[1] = i
    <3>1. f[i] = st[Rcv][i]
      BY <2>2
    <3>2. {e \in D : e[1] = i} = {}
      BY <2>2
    <3>3. counted'[i] = counted[i]
      BY <1>1, <3>2
    <3> QED
      BY <1>2, <2>2, <3>1, <3>3
  <2> QED
    BY <2>1, <2>2
<1>4. DOMAIN f = Streams /\ st' = [st EXCEPT ![Rcv] = f]
  BY <1>1
<1> HIDE DEF f
<1>5. StreamsTyped' /\ st'[Rcv] = f /\ st'[Snd] = st[Snd]
  BY <1>3, <1>4, OneSide, SideOfSender DEF TrafficTyped
<1>6. net' \subseteq Streams \X Int /\ DOMAIN counted' = Streams
  BY <1>1 DEF TrafficTyped
<1>7. ReceiveStep
  <2>1. \A i \in Streams :
          \/ /\ \A d \in D : d[1] # i
             /\ st'[Rcv][i] = st[Rcv][i] /\ counted'[i] = counted[i]
          \/ \E d \in D : /\ d[1] = i /\ HasReceived(st[Rcv][i], st'[Rcv][i], d[2])
                          /\ counted'[i] = counted[i] \cup {d[2]}
    BY <1>3, <1>5
  <2>2. D \in SUBSET net /\ net' = net \ D
    BY <1>1
  <2> QED
    BY <1>5, <2>1, <2>2, Zenon DEF ReceiveStep
<1> QED
  BY <1>5, <1>6, <1>7

LEMMA ResultDoes ==
  ASSUME TrafficTyped, ClientResults
  PROVE  StreamsTyped' /\ ResultStep
<1> DEFINE other(p) == IF p = "client" THEN "server" ELSE "client"
<1>1. st' = [p \in Sides |-> [i \in Streams |-> get_results(st[p][i], p = Snd, Results(other(p)))]]
  BY Zenon DEF ClientResults
<1>2. ASSUME NEW p \in Sides, NEW i \in Streams
      PROVE  /\ IsStreamNo(i, st'[p][i])
             /\ HasResults(st[p][i], st'[p][i], p = Snd, st[other(p)][i])
             /\ p = Snd => other(p) = Rcv
  <2>1. /\ other(p) \in Sides /\ (other(p) = Snd) = ~(p = Snd)
        /\ p = Snd => other(p) = Rcv
    BY DEF Sides, Snd, Rcv, TrafficTyped
  <2>2. IsStreamNo(i, st[p][i]) /\ \A k \in Streams : IsStreamNo(k, st[other(p)][k])
    BY <2>1 DEF TrafficTyped, StreamsTyped
  <2>3. Results(other(p)) = [k \in Streams |-> send_results(st[other(p)][k], ~(p = Snd))]
    BY <2>1, Zenon DEF Results
  <2>4. st'[p][i] = get_results(st[p][i], p = Snd, Results(other(p)))
    BY <1>1
  <2> DEFINE sender == p = Snd
             f == st[other(p)]
  <2>5. sender \in BOOLEAN
    OBVIOUS
  <2>6. /\ st'[p][i] = get_results(st[p][i], sender, [k \in Streams |-> send_results(f[k], ~sender)])
        /\ \A k \in Streams : IsStreamNo(k, f[k])
    BY <2>2, <2>3, <2>4
  <2> HIDE DEF sender, f
  <2>7. IsStreamNo(i, st'[p][i]) /\ HasResults(st[p][i], st'[p][i], sender, f[i])
    BY <2>2, <2>5, <2>6, GetStream
  <2> QED
    BY <2>1, <2>7 DEF sender, f
<1>3. StreamsTyped'
  <2>1. DOMAIN st' = Sides /\ \A p \in Sides : DOMAIN st'[p] = Streams
    BY <1>1
  <2> QED
    BY <1>2, <2>1 DEF StreamsTyped
<1>4. ResultStep
  BY <1>2, Zenon DEF ResultStep
<1> QED
  BY <1>3, <1>4

Kind == SameStep \/ StatsStep \/ OmitStep \/ SendStep \/ ReceiveStep \/ ResultStep

(* A step that leaves the streams and omitting alone and sends nothing.     *)
LEMMA QuietStep ==
  ASSUME TrafficTyped, st' = st, omitting' = omitting, net' \subseteq net, counted' = counted,
         reverse' = reverse, clock' \in Nat, done' \in [Sides -> BOOLEAN], start' = start
  PROVE  TrafficTyped' /\ Kind
<1>1. SameStep
  BY DEF SameStep, Same, TimersKept, LightsKept
<1>2. StreamsTyped'
  BY DEF StreamsTyped, TrafficTyped
<1> QED
  BY <1>1, <1>2 DEF TrafficTyped, Kind

LEMMA HandshakeKind ==
  ASSUME TrafficTyped, reverse' = reverse,
         \/ UdpConnect \/ UdpAccept \/ UdpConnected \/ UdpConnectFails
         \/ ClientRuns \/ ClientTerminates \/ ClientClosed \/ Tick
  PROVE  TrafficTyped' /\ Kind
<1>1. /\ st' = st /\ omitting' = omitting /\ net' \subseteq net /\ counted' = counted
      /\ done' = done /\ start' = start
  BY DEF UdpConnect, UdpAccept, UdpConnected, UdpConnectFails, ClientRuns, ClientTerminates,
         ClientClosed, Tick, testVars
<1>2. clock' \in Nat
  <2>1. clock' = clock \/ clock' = clock + 1
    BY DEF UdpConnect, UdpAccept, UdpConnected, UdpConnectFails, ClientRuns, ClientTerminates,
           ClientClosed, Tick
  <2> QED
    BY <2>1 DEF TrafficTyped
<1>3. done' \in [Sides -> BOOLEAN]
  BY <1>1 DEF TrafficTyped
<1> QED
  BY <1>1, <1>2, <1>3, QuietStep

LEMMA StartKind ==
  ASSUME TrafficTyped, reverse' = reverse, ServerStarts \/ ClientStarts
  PROVE  TrafficTyped' /\ Kind
<1>1. \E p \in Sides : StartTest(p)
  BY DEF ServerStarts, ClientStarts, Sides
<1>2. /\ StreamsTyped' /\ \A q \in Sides : \A i \in Streams : Same(st[q][i], st'[q][i])
      /\ start' \in [Sides -> Time] /\ omitting' \in [Sides -> BOOLEAN]
  BY <1>1, StartStep
<1>3. clock' = clock /\ done' = done /\ net' = net /\ counted' = counted
  BY DEF ServerStarts, ClientStarts
<1>4. SameStep
  BY <1>2, <1>3 DEF SameStep
<1> QED
  BY <1>2, <1>3, <1>4 DEF TrafficTyped, Kind

LEMMA PassKind ==
  ASSUME TrafficTyped, reverse' = reverse, ClientPass \/ ServerPass
  PROVE  TrafficTyped' /\ Kind
<1>1. clock' = clock /\ start' = start /\ done' = done /\ omitting' = omitting
  BY DEF ClientPass, ServerPass
<1>2. \/ NoTraffic
      \/ Send /\ Selects(Snd) /\ (Snd = "server" => ~done["server"])
      \/ Receive
  <2>1. CASE ClientPass
    BY <2>1 DEF ClientPass, Traffic, Snd
  <2>2. CASE ServerPass
    BY <2>2 DEF ServerPass, Traffic, Snd
  <2> QED
    BY <2>1, <2>2
<1>3. CASE NoTraffic
  <2>1. st' = st /\ net' = net /\ counted' = counted
    BY <1>3 DEF NoTraffic
  <2>2. done' \in [Sides -> BOOLEAN] /\ clock' \in Nat
    BY <1>1 DEF TrafficTyped
  <2> QED
    BY <1>1, <2>1, <2>2, QuietStep
<1>4. CASE Send /\ Selects(Snd) /\ (Snd = "server" => ~done["server"])
  <2>1. StreamsTyped' /\ net' \subseteq Streams \X Int /\ DOMAIN counted' = Streams /\ SendStep
    BY <1>1, <1>4, SendDoes
  <2> QED
    BY <1>1, <2>1 DEF TrafficTyped, Kind
<1>5. CASE Receive
  <2>1. StreamsTyped' /\ net' \subseteq Streams \X Int /\ DOMAIN counted' = Streams /\ ReceiveStep
    BY <1>1, <1>5, ReceiveDoes
  <2> QED
    BY <1>1, <2>1 DEF TrafficTyped, Kind
<1> QED
  BY <1>2, <1>3, <1>4, <1>5

LEMMA TimerKind ==
  ASSUME TrafficTyped, reverse' = reverse,
         \/ TestTimer \/ ServerTimer
         \/ \E p \in Sides : \/ TimersRun(p) \/ StatsTimer(p) \/ ReporterTimer(p)
                             \/ OmitTimer(p) \/ SendTimer(p)
  PROVE  TrafficTyped' /\ Kind
<1>1. clock' = clock /\ start' = start /\ net' = net /\ counted' = counted
  BY DEF TestTimer, ServerTimer, TimersRun, StatsTimer, ReporterTimer, OmitTimer, SendTimer, Fires
<1>2. clock' \in Nat /\ start' \in [Sides -> Time]
  BY <1>1 DEF TrafficTyped
<1>3. CASE TestTimer \/ \E p \in Sides : TimersRun(p) \/ ReporterTimer(p)
  <2>1. st' = st /\ omitting' = omitting
    BY <1>3 DEF TestTimer, TimersRun, ReporterTimer
  <2>2. done' = done \/ done' = [done EXCEPT !["client"] = TRUE]
    BY <1>3 DEF TestTimer, TimersRun, ReporterTimer
  <2>3. done' \in [Sides -> BOOLEAN]
    BY <2>2 DEF TrafficTyped
  <2> QED
    BY <1>1, <1>2, <2>1, <2>3, QuietStep
<1>4. CASE ServerTimer
  <2>1. omitting' = omitting /\ done' = [done EXCEPT !["server"] = TRUE]
    BY <1>4 DEF ServerTimer
  <2>2. done' \in [Sides -> BOOLEAN]
    BY <2>1 DEF TrafficTyped
  <2>3. CASE st' = st
    BY <1>1, <1>2, <2>1, <2>2, <2>3, QuietStep
  <2>4. CASE st' # st
    <3>1. st' = [st EXCEPT !["server"] = [i \in Streams |->
                   [st["server"][i] EXCEPT !.send_timer = NULL]]]
      BY <1>4, <2>4 DEF ServerTimer
    <3>2. /\ StreamsTyped'
          /\ \A q \in Sides : \A i \in Streams :
               Same(st[q][i], st'[q][i]) /\ st'[q][i].green = st[q][i].green
      BY <3>1, FreeStep DEF Sides
    <3>3. SameStep
      BY <1>1, <1>4, <2>1, <3>2 DEF SameStep, LightsKept
    <3> QED
      BY <1>1, <1>2, <2>1, <2>2, <3>2, <3>3 DEF TrafficTyped, Kind
  <2> QED
    BY <2>3, <2>4
<1>5. ASSUME NEW p \in Sides, StatsTimer(p)
      PROVE  TrafficTyped' /\ Kind
  <2>1. omitting' = omitting /\ done' = done
    BY <1>5 DEF StatsTimer
  <2>2. done' \in [Sides -> BOOLEAN] /\ omitting[p] \in BOOLEAN
    BY <2>1 DEF TrafficTyped
  <2>3. CASE st' = st
    BY <1>1, <1>2, <2>1, <2>2, <2>3, QuietStep
  <2>4. CASE st' # st
    <3>1. st' = [st EXCEPT ![p] = [i \in Streams |->
                   iperf_stats_callback(st[p][i], p = Snd, omitting[p], Now)]]
      BY <1>5, <2>4 DEF StatsTimer
    <3>2. /\ StreamsTyped'
          /\ \A i \in Streams : Collected(st[p][i], st'[p][i], p = Snd, omitting[p])
          /\ \A q \in Sides : q # p => st'[q] = st[q]
      BY <2>2, <3>1, CollectStep
    <3>3. StatsStep
      BY <1>1, <2>1, <3>2, Zenon DEF StatsStep
    <3> QED
      BY <1>1, <1>2, <2>1, <2>2, <3>2, <3>3 DEF TrafficTyped, Kind
  <2> QED
    BY <2>3, <2>4
<1>6. ASSUME NEW p \in Sides, OmitTimer(p)
      PROVE  TrafficTyped' /\ Kind
  <2>1. /\ omitting' = [omitting EXCEPT ![p] = FALSE] /\ done' = done
        /\ st' = [st EXCEPT ![p] = [i \in Streams |-> iperf_reset_stats(st[p][i], Now)]]
    BY <1>6 DEF OmitTimer
  <2>2. done' \in [Sides -> BOOLEAN] /\ omitting' \in [Sides -> BOOLEAN]
    BY <2>1 DEF TrafficTyped
  <2>3. /\ StreamsTyped' /\ \A i \in Streams : HasReset(st[p][i], st'[p][i])
        /\ \A q \in Sides : q # p => st'[q] = st[q]
    BY <2>1, ResetStep
  <2>4. OmitStep
    BY <1>1, <1>6, <2>3, Zenon DEF OmitStep
  <2> QED
    BY <1>1, <1>2, <2>2, <2>3, <2>4 DEF TrafficTyped, Kind
<1>7. ASSUME NEW p \in Sides, SendTimer(p)
      PROVE  TrafficTyped' /\ Kind
  <2>1. PICK i : st' = [st EXCEPT ![p][i] =
                         iperf_check_throttle(st[p][i], Elapsed(p), done[p])]
    BY <1>7, Zenon DEF SendTimer
  <2>2. omitting' = omitting /\ done' = done
    BY <1>7 DEF SendTimer
  <2>3. /\ StreamsTyped' /\ TimersKept /\ LightsKept
        /\ \A q \in Sides : \A k \in Streams : Same(st[q][k], st'[q][k])
    BY <2>1, ThrottleStep, Zenon DEF TimersKept, LightsKept
  <2>4. SameStep
    BY <1>1, <2>2, <2>3 DEF SameStep
  <2> QED
    BY <1>1, <1>2, <2>2, <2>3, <2>4 DEF TrafficTyped, Kind
<1> QED
  BY <1>3, <1>4, <1>5, <1>6, <1>7

LEMMA EndKind ==
  ASSUME TrafficTyped, reverse' = reverse,
         ClientChecks \/ ClientDrains \/ ServerTestEnd \/ ClientResults \/ ServerEnds
  PROVE  TrafficTyped' /\ Kind
<1>1. clock' = clock /\ start' = start /\ counted' = counted /\ omitting' = omitting
  BY DEF ClientChecks, ClientDrains, ServerTestEnd, ClientResults, ServerEnds
<1>2. clock' \in Nat /\ start' \in [Sides -> Time]
  BY <1>1 DEF TrafficTyped
<1>3. net' \subseteq net
  BY DEF ClientChecks, ClientDrains, ServerTestEnd, ClientResults, ServerEnds
<1>4. done' \in [Sides -> BOOLEAN]
  <2>1. done' = done \/ \E p \in Sides : done' = [done EXCEPT ![p] = TRUE]
    BY DEF ClientChecks, ClientDrains, ServerTestEnd, ClientResults, ServerEnds, Sides
  <2> QED
    BY <2>1 DEF TrafficTyped
<1>5. CASE st' = st
  BY <1>1, <1>2, <1>3, <1>4, <1>5, QuietStep
<1>6. ASSUME NEW p \in Sides, NEW o \in BOOLEAN, o = omitting[p], net' = net,
             st' = [st EXCEPT ![p] = [i \in Streams |->
                      iperf_stats_callback(st[p][i], p = Snd, o, Now)]]
      PROVE  TrafficTyped' /\ Kind
  <2>1. /\ StreamsTyped'
        /\ \A i \in Streams : Collected(st[p][i], st'[p][i], p = Snd, omitting[p])
        /\ \A q \in Sides : q # p => st'[q] = st[q]
    BY <1>6, CollectStep
  <2>2. StatsStep
    BY <1>1, <1>6, <2>1, Zenon DEF StatsStep
  <2> QED
    BY <1>1, <1>2, <1>4, <1>6, <2>1, <2>2 DEF TrafficTyped, Kind
<1>7. CASE ClientChecks /\ st' # st
  <2>1. /\ ~omitting["client"] /\ net' = net
        /\ st' = [st EXCEPT !["client"] = [i \in Streams |->
                    iperf_stats_callback(st["client"][i], "client" = Snd, FALSE, Now)]]
    BY <1>7 DEF ClientChecks
  <2>2. FALSE = omitting["client"] /\ "client" \in Sides
    BY <2>1 DEF TrafficTyped, Sides
  <2> QED
    BY <1>6, <2>1, <2>2
<1>8. CASE ServerTestEnd
  <2>1. /\ net' = net
        /\ st' = [st EXCEPT !["server"] = [i \in Streams |->
                    iperf_stats_callback(st["server"][i], "server" = Snd, omitting["server"], Now)]]
    BY <1>8 DEF ServerTestEnd
  <2>2. omitting["server"] \in BOOLEAN /\ "server" \in Sides
    BY DEF TrafficTyped, Sides
  <2> QED
    BY <1>6, <2>1, <2>2
<1>9. CASE ServerEnds
  <2>1. st' = [st EXCEPT !["server"] = [i \in Streams |->
                 [st["server"][i] EXCEPT !.send_timer = NULL]]]
    BY <1>9 DEF ServerEnds
  <2>2. /\ StreamsTyped' /\ LightsKept
        /\ \A q \in Sides : \A i \in Streams : Same(st[q][i], st'[q][i])
    BY <2>1, FreeStep DEF Sides, LightsKept
  <2>3. SameStep
    BY <1>1, <1>3, <1>9, <2>2 DEF SameStep
  <2> QED
    BY <1>1, <1>2, <1>3, <1>4, <2>2, <2>3 DEF TrafficTyped, Kind
<1>10. CASE ClientResults
  <2>1. StreamsTyped' /\ ResultStep
    BY <1>10, ResultDoes
  <2> QED
    BY <1>1, <1>2, <1>3, <1>4, <2>1 DEF TrafficTyped, Kind
<1>11. CASE ClientDrains
  BY <1>5, <1>11 DEF ClientDrains
<1> QED
  BY <1>5, <1>7, <1>8, <1>9, <1>10, <1>11

LEMMA NextKind ==
  ASSUME TrafficTyped, Next
  PROVE  TrafficTyped' /\ Kind /\ reverse' = reverse
<1>1. reverse' = reverse
  BY DEF Next, Steps
<1> QED
  BY <1>1, HandshakeKind, StartKind, PassKind, TimerKind, EndKind, Zenon DEF Next, Steps

---------------------------------------------------------------------------------
(* The loss count. The numbers in flight are numbers that have been sent    *)
(* and not counted; the receiver's count is the largest one it has counted, *)
(* or nothing was counted.                                                  *)

LossOf(s, r, C) ==
  /\ s.packet_count \in Nat /\ s.packet_count <= MAX_PACKETS
  /\ r.packet_count \in Nat /\ r.packet_count <= s.packet_count
  /\ C \subseteq 1 .. r.packet_count
  /\ r.packet_count = 0 \/ r.packet_count \in C
  /\ r.cnt_error = r.packet_count - Cardinality(C)

InFlight(i, s, C) == \A d \in net : d[1] = i => d[2] \in 1 .. s.packet_count /\ d[2] \notin C

LossInv ==
  \A i \in Streams :
    LossOf(st[Snd][i], st[Rcv][i], counted[i]) /\ InFlight(i, st[Snd][i], counted[i])

LEMMA CountNumbers ==
  ASSUME NEW k \in Nat, NEW C, C \subseteq 1 .. k
  PROVE  /\ Cardinality(C) \in Nat
         /\ \A n : n \notin C => Cardinality(C \cup {n}) = Cardinality(C) + 1
         /\ \A n \in 1 .. k : n \notin C => Cardinality(C) < k
<1>1. IsFiniteSet(1 .. k) /\ Cardinality(1 .. k) = k
  <2>1. Cardinality(1 .. k) = IF 1 <= k THEN k - 1 + 1 ELSE 0
    BY FS_Interval
  <2> QED
    BY <2>1, FS_Interval
<1>2. IsFiniteSet(C) /\ Cardinality(C) \in Nat
  BY <1>1, FS_Subset, FS_CardinalityType
<1>3. ASSUME NEW n, n \notin C
      PROVE  Cardinality(C \cup {n}) = Cardinality(C) + 1
  BY <1>2, <1>3, FS_AddElement
<1>4. ASSUME NEW n \in 1 .. k, n \notin C
      PROVE  Cardinality(C) < k
  <2>1. C \cup {n} \subseteq 1 .. k
    OBVIOUS
  <2>2. Cardinality(C \cup {n}) <= k
    BY <1>1, <2>1, FS_Subset
  <2> QED
    BY <1>2, <1>3, <1>4, <2>2
<1> QED
  BY <1>2, <1>3, <1>4

(* A datagram that counts once keeps the loss count true, whether it comes  *)
(* in order, after a gap or late.                                           *)
LEMMA LossReceive ==
  ASSUME MAX_PACKETS <= INT_MAX, NEW s, NEW r, NEW C, LossOf(s, r, C), IsStream(r),
         NEW n \in 1 .. s.packet_count, n \notin C, NEW t, HasReceived(r, t, n)
  PROVE  LossOf(s, t, C \cup {n})
<1> DEFINE k == r.packet_count
<1>1. /\ s.packet_count \in Nat /\ s.packet_count <= MAX_PACKETS
      /\ k \in Nat /\ k <= s.packet_count /\ C \subseteq 1 .. k
      /\ k = 0 \/ k \in C
      /\ r.cnt_error = k - Cardinality(C)
  BY DEF LossOf
<1>2. n \in Nat /\ n >= 1 /\ n <= s.packet_count
  BY <1>1
<1>3. MAX_PACKETS \in Nat /\ INT_MAX \in Nat
  BY TrafficAssumption, StreamAssumption
<1>4. /\ Cardinality(C) \in Nat /\ Cardinality(C \cup {n}) = Cardinality(C) + 1
      /\ n \in 1 .. k => Cardinality(C) < k
  <2> HIDE DEF k
  <2> QED
    BY <1>1, CountNumbers
<1>5. Forward(r, n) <=> n > k
  BY <1>1, <1>2, <1>3 DEF Forward, IntInc
<1>6. CASE n > k
  <2>1. t.packet_count = AsInt(n) /\ t.cnt_error = r.cnt_error + ((n - 1) - k)
    BY <1>5, <1>6 DEF HasReceived
  <2>2. AsInt(n) = n
    BY <1>1, <1>2, <1>3 DEF AsInt
  <2> DEFINE c == Cardinality(C)
  <2> HIDE DEF c, k
  <2>3. c \in Nat /\ Cardinality(C \cup {n}) = c + 1 /\ r.cnt_error = k - c
    BY <1>1, <1>4 DEF c
  <2>4. t.cnt_error = n - (c + 1)
    BY <1>1, <1>2, <2>1, <2>3
  <2>5. C \cup {n} \subseteq 1 .. n
    BY <1>1, <1>2, <1>6
  <2> QED
    BY <1>1, <1>2, <2>1, <2>2, <2>3, <2>4, <2>5 DEF LossOf
<1>7. CASE ~(n > k)
  <2>1. /\ t.packet_count = k
        /\ t.cnt_error = IF r.cnt_error > 0 THEN r.cnt_error - 1 ELSE r.cnt_error
    BY <1>5, <1>7 DEF HasReceived
  <2> DEFINE c == Cardinality(C)
  <2> HIDE DEF c, k
  <2>2. n \in 1 .. k
    BY <1>1, <1>2, <1>7
  <2>3. c \in Nat /\ Cardinality(C \cup {n}) = c + 1 /\ r.cnt_error = k - c /\ c < k
    BY <1>1, <1>4, <2>2 DEF c
  <2>4. t.cnt_error = k - (c + 1)
    BY <1>1, <2>1, <2>3
  <2>5. C \cup {n} \subseteq 1 .. k /\ (k = 0 \/ k \in C \cup {n})
    BY <1>1, <2>2
  <2> QED
    BY <1>1, <2>1, <2>3, <2>4, <2>5 DEF LossOf
<1> QED
  BY <1>6, <1>7

LEMMA LossFollows ==
  ASSUME LossInv
  PROVE  LossIsTrue
<1> SUFFICES ASSUME NEW i \in Streams
             PROVE  /\ st[Rcv][i].packet_count = Largest(counted[i])
                    /\ st[Rcv][i].cnt_error = st[Rcv][i].packet_count - Cardinality(counted[i])
  BY DEF LossIsTrue
<1> DEFINE k == st[Rcv][i].packet_count
           C == counted[i]
<1>1. /\ k \in Nat /\ C \subseteq 1 .. k
      /\ k = 0 \/ k \in C
      /\ st[Rcv][i].cnt_error = k - Cardinality(C)
  BY DEF LossInv, LossOf
<1> HIDE DEF k, C
<1>2. k \in C \cup {0} /\ \A m \in C : m <= k
  BY <1>1
<1>3. \A n \in C \cup {0} : (\A m \in C : m <= n) => n = k
  BY <1>1
<1>4. Largest(C) = k
  BY <1>2, <1>3 DEF Largest
<1> QED
  BY <1>1, <1>4 DEF k, C

LEMMA LossNext ==
  ASSUME MAX_PACKETS <= INT_MAX, TrafficTyped, LossInv, Next
  PROVE  LossInv'
<1>1. TrafficTyped' /\ Kind /\ reverse' = reverse
  BY NextKind
<1>2. Snd' = Snd /\ Rcv' = Rcv /\ Snd \in Sides /\ Rcv \in Sides /\ Snd # Rcv
  BY <1>1, SideOfSender
<1> SUFFICES ASSUME NEW i \in Streams
             PROVE  /\ LossOf(st'[Snd][i], st'[Rcv][i], counted'[i])
                    /\ InFlight(i, st[Snd][i], counted[i])'
  BY <1>2 DEF LossInv
<1> DEFINE s == st[Snd][i]
           r == st[Rcv][i]
           C == counted[i]
<1>3. LossOf(s, r, C) /\ InFlight(i, s, C)
  BY DEF LossInv
<1>4. ASSUME st'[Snd][i].packet_count = s.packet_count, st'[Rcv][i].packet_count = r.packet_count,
             st'[Rcv][i].cnt_error = r.cnt_error, net' \subseteq net, counted' = counted
      PROVE  /\ LossOf(st'[Snd][i], st'[Rcv][i], counted'[i])
             /\ InFlight(i, st[Snd][i], counted[i])'
  <2>1. LossOf(st'[Snd][i], st'[Rcv][i], counted'[i])
    BY <1>3, <1>4 DEF LossOf
  <2>2. InFlight(i, st[Snd][i], counted[i])'
    BY <1>2, <1>3, <1>4 DEF InFlight
  <2> QED
    BY <2>1, <2>2
<1>5. CASE SameStep
  BY <1>2, <1>4, <1>5 DEF SameStep, Same
<1>6. CASE StatsStep
  <2>1. PICK p \in Sides :
          /\ \A k \in Streams : Collected(st[p][k], st'[p][k], p = Snd, omitting[p])
          /\ \A q \in Sides : q # p => st'[q] = st[q]
    BY <1>6 DEF StatsStep
  <2>2. \A q \in Sides : /\ st'[q][i].packet_count = st[q][i].packet_count
                         /\ st'[q][i].cnt_error = st[q][i].cnt_error
    BY <2>1 DEF Collected
  <2>3. net' \subseteq net /\ counted' = counted
    BY <1>6 DEF StatsStep
  <2> QED
    BY <1>2, <1>4, <2>2, <2>3
<1>7. CASE OmitStep
  <2>1. PICK p \in Sides : /\ \A k \in Streams : HasReset(st[p][k], st'[p][k])
                           /\ \A q \in Sides : q # p => st'[q] = st[q]
    BY <1>7 DEF OmitStep
  <2>2. \A q \in Sides : /\ st'[q][i].packet_count = st[q][i].packet_count
                         /\ st'[q][i].cnt_error = st[q][i].cnt_error
    BY <2>1 DEF HasReset
  <2>3. net' \subseteq net /\ counted' = counted
    BY <1>7 DEF OmitStep
  <2> QED
    BY <1>2, <1>4, <2>2, <2>3
<1>8. CASE ResultStep
  <2>1. net' \subseteq net /\ counted' = counted
    BY <1>8 DEF ResultStep, ClientResults
  <2>2. \A q \in Sides : st'[q][i].packet_count = st[q][i].packet_count
    BY <1>8 DEF ResultStep, HasResults
  <2>3. st'[Rcv][i].cnt_error = r.cnt_error
    <3>1. \E o : HasResults(r, st'[Rcv][i], Rcv = Snd, o)
      BY <1>2, <1>8 DEF ResultStep
    <3> QED
      BY <1>2, <3>1 DEF HasResults
  <2> QED
    BY <1>2, <1>4, <2>1, <2>2, <2>3
<1>9. CASE SendStep
  <2>1. PICK sent \in SUBSET Streams, failed \in SUBSET Streams :
          /\ sent \cap failed = {}
          /\ \A k \in sent \cup failed : st[Snd][k].packet_count < MAX_PACKETS
          /\ \A k \in sent : HasSent(st[Snd][k], st'[Snd][k], Elapsed(Snd), done[Snd])
          /\ \A k \in failed : HasFailed(st[Snd][k], st'[Snd][k])
          /\ \A k \in Streams \ (sent \cup failed) : st'[Snd][k] = st[Snd][k]
          /\ net' = net \cup {<<k, st'[Snd][k].packet_count>> : k \in sent}
    BY <1>9, Zenon DEF SendStep
  <2>2. st'[Rcv] = st[Rcv] /\ counted' = counted
    BY <1>9 DEF SendStep
  <2>3. /\ s.packet_count \in Nat /\ s.packet_count <= MAX_PACKETS
        /\ r.packet_count \in Nat /\ r.packet_count <= s.packet_count
        /\ C \subseteq 1 .. r.packet_count
    BY <1>3 DEF LossOf
  <2>4. MAX_PACKETS \in Nat /\ INT_MAX \in Nat
    BY TrafficAssumption, StreamAssumption
  <2>5. s.packet_count < MAX_PACKETS => IntInc(s.packet_count) = s.packet_count + 1
    BY <2>3, <2>4 DEF IntInc
  <2>6. CASE i \in sent
    <3>1. s.packet_count < MAX_PACKETS /\ st'[Snd][i].packet_count = s.packet_count + 1
      BY <2>1, <2>5, <2>6 DEF HasSent
    <3>2. LossOf(st'[Snd][i], st'[Rcv][i], counted'[i])
      BY <1>3, <2>2, <2>3, <2>4, <3>1 DEF LossOf
    <3>3. ASSUME NEW d \in net', d[1] = i
          PROVE  d[2] \in 1 .. st'[Snd][i].packet_count /\ d[2] \notin counted'[i]
      <4>1. CASE d \in net
        <5>1. d[2] \in 1 .. s.packet_count /\ d[2] \notin C
          BY <1>3, <3>3, <4>1 DEF InFlight
        <5> QED
          BY <2>2, <2>3, <3>1, <5>1
      <4>2. CASE d \notin net
        <5>1. PICK k \in sent : d = <<k, st'[Snd][k].packet_count>>
          BY <2>1, <4>2
        <5>2. d[2] = s.packet_count + 1
          BY <3>1, <3>3, <5>1
        <5> QED
          BY <2>2, <2>3, <3>1, <5>2
      <4> QED
        BY <4>1, <4>2
    <3> QED
      BY <1>2, <3>2, <3>3 DEF InFlight
  <2>7. CASE i \notin sent
    <3>1. /\ st'[Snd][i].packet_count \in Nat /\ s.packet_count <= st'[Snd][i].packet_count
          /\ st'[Snd][i].packet_count <= MAX_PACKETS
      <4>1. CASE i \in failed
        BY <2>1, <2>3, <2>4, <2>5, <4>1 DEF HasFailed
      <4>2. CASE i \notin failed
        BY <2>1, <2>3, <2>7, <4>2
      <4> QED
        BY <4>1, <4>2
    <3>2. LossOf(st'[Snd][i], st'[Rcv][i], counted'[i])
      BY <1>3, <2>2, <2>3, <2>4, <3>1 DEF LossOf
    <3>3. ASSUME NEW d \in net', d[1] = i
          PROVE  d[2] \in 1 .. st'[Snd][i].packet_count /\ d[2] \notin counted'[i]
      <4>1. d \in net
        BY <2>1, <2>7, <3>3
      <4>2. d[2] \in 1 .. s.packet_count /\ d[2] \notin C
        BY <1>3, <3>3, <4>1 DEF InFlight
      <4> QED
        BY <2>2, <2>3, <3>1, <4>2
    <3> QED
      BY <1>2, <3>2, <3>3 DEF InFlight
  <2> QED
    BY <2>6, <2>7
<1>10. CASE ReceiveStep
  <2>1. PICK D \in SUBSET net :
          /\ net' = net \ D
          /\ \/ /\ \A d \in D : d[1] # i
                /\ st'[Rcv][i] = r /\ counted'[i] = C
             \/ \E d \in D : /\ d[1] = i /\ HasReceived(r, st'[Rcv][i], d[2])
                             /\ counted'[i] = C \cup {d[2]}
    BY <1>10, Zenon DEF ReceiveStep
  <2>2. st'[Snd] = st[Snd]
    BY <1>10 DEF ReceiveStep
  <2>3. CASE /\ \A d \in D : d[1] # i
             /\ st'[Rcv][i] = r /\ counted'[i] = C
    <3>1. LossOf(st'[Snd][i], st'[Rcv][i], counted'[i])
      BY <1>3, <2>2, <2>3
    <3>2. InFlight(i, st[Snd][i], counted[i])'
      BY <1>2, <1>3, <2>1, <2>2, <2>3 DEF InFlight
    <3> QED
      BY <3>1, <3>2
  <2>4. ASSUME NEW d \in D, d[1] = i, HasReceived(r, st'[Rcv][i], d[2]),
               counted'[i] = C \cup {d[2]}
        PROVE  /\ LossOf(st'[Snd][i], st'[Rcv][i], counted'[i])
               /\ InFlight(i, st[Snd][i], counted[i])'
    <3>1. d[2] \in 1 .. s.packet_count /\ d[2] \notin C
      BY <1>3, <2>4 DEF InFlight
    <3>2. IsStream(r)
      BY <1>2 DEF TrafficTyped, StreamsTyped, IsStreamNo
    <3>3. LossOf(s, st'[Rcv][i], C \cup {d[2]})
      BY <1>3, <2>4, <3>1, <3>2, LossReceive
    <3>4. \A e \in net : e[1] = i /\ e[2] = d[2] => e = d
      BY <2>4 DEF TrafficTyped
    <3>5. InFlight(i, st[Snd][i], counted[i])'
      BY <1>2, <1>3, <2>1, <2>2, <2>4, <3>4 DEF InFlight
    <3> QED
      BY <2>2, <2>4, <3>3, <3>5
  <2> QED
    BY <2>1, <2>3, <2>4
<1> QED
  BY <1>1, <1>5, <1>6, <1>7, <1>8, <1>9, <1>10 DEF Kind

LEMMA LossInit ==
  ASSUME TrafficInit
  PROVE  LossInv
<1> SUFFICES ASSUME NEW i \in Streams
             PROVE  /\ LossOf(st[Snd][i], st[Rcv][i], counted[i])
                    /\ InFlight(i, st[Snd][i], counted[i])
  BY DEF LossInv
<1>1. st[Snd][i] = iperf_new_stream(i) /\ st[Rcv][i] = iperf_new_stream(i)
  BY SideOfSender DEF TrafficInit
<1>2. /\ st[Snd][i].packet_count = 0 /\ st[Rcv][i].packet_count = 0
      /\ st[Rcv][i].cnt_error = 0
  BY <1>1, NewStream
<1>3. counted[i] = {} /\ net = {} /\ Cardinality({}) = 0
  BY FS_EmptySet DEF TrafficInit
<1> QED
  BY <1>2, <1>3, TrafficAssumption DEF LossOf, InFlight

(* The types that the other theorems rest on: every stream stays a record   *)
(* of its number and its statistics, through sending, receiving, the        *)
(* timers' callbacks and the exchange of the results.                       *)
THEOREM StreamsStayTyped == Spec => []TrafficTyped
<1>1. TrafficInit => TrafficTyped
  BY TypedInit
<1>2. TrafficTyped /\ [Next]_trafficVars => TrafficTyped'
  <2>1. TrafficTyped /\ Next => TrafficTyped'
    BY NextKind
  <2>2. TrafficTyped /\ UNCHANGED trafficVars => TrafficTyped'
    BY DEF trafficVars, TrafficTyped, StreamsTyped
  <2> QED
    BY <2>1, <2>2
<1> QED
  BY <1>1, <1>2, PTL DEF Spec

(* The receiver's loss count is true, however many streams, datagrams and   *)
(* losses there are and in whatever order the datagrams come, as long as    *)
(* the counter of a stream, an int, does not overflow.                      *)
THEOREM AlwaysLossIsTrue ==
  ASSUME MAX_PACKETS <= INT_MAX
  PROVE  Spec => []LossIsTrue
<1>1. TrafficInit => LossInv
  BY LossInit
<1>2. TrafficTyped /\ LossInv /\ [Next]_trafficVars => LossInv'
  <2>1. TrafficTyped /\ LossInv /\ Next => LossInv'
    BY LossNext
  <2>2. LossInv /\ UNCHANGED trafficVars => LossInv'
    BY DEF trafficVars, LossInv, LossOf, InFlight, Snd, Rcv
  <2> QED
    BY <2>1, <2>2
<1>3. LossInv => LossIsTrue
  BY LossFollows
<1> QED
  BY <1>1, <1>2, <1>3, StreamsStayTyped, PTL DEF Spec

---------------------------------------------------------------------------------
(* The lists of timers.                                                     *)

(* Sets of numbers have a least element, and what holds of 0 and goes from  *)
(* every number to the next holds of all numbers up to n.                   *)
LEMMA Induct ==
  ASSUME NEW n \in Nat, NEW T, 0 \in T, \A k \in 0 .. n : k < n /\ k \in T => k + 1 \in T
  PROVE  0 .. n \subseteq T
<1> DEFINE R == OpToRel(<, Nat)
           W == {k \in 0 .. n : k \notin T}
<1>1. IsWellFoundedOn(R, Nat)
  BY NatLessThanWellFounded
<1>2. \A x, y \in Nat : <<x, y>> \in R <=> x < y
  BY DEF OpToRel
<1>3. ASSUME W # {}
      PROVE  FALSE
  <2>1. W \subseteq Nat
    OBVIOUS
  <2> HIDE DEF R
  <2>2. PICK k \in W : \A y \in W : ~(<<y, k>> \in R)
    BY <1>1, <1>3, <2>1, WFMin
  <2>3. k \in Nat /\ k # 0 /\ k <= n /\ k \notin T
    OBVIOUS
  <2>4. k - 1 \in 0 .. n /\ k - 1 < n /\ (k - 1) + 1 = k /\ k - 1 < k
    BY <2>3
  <2>5. k - 1 \notin T
    BY <2>3, <2>4
  <2>6. k - 1 \in W
    BY <2>4, <2>5
  <2> QED
    BY <1>2, <2>1, <2>2, <2>4, <2>6
<1> QED
  BY <1>3

LEMMA Least ==
  ASSUME NEW S, S \subseteq Nat, S # {}
  PROVE  \E x \in S : \A y \in S : x <= y
<1> DEFINE R == OpToRel(<, Nat)
<1>1. IsWellFoundedOn(R, Nat)
  BY NatLessThanWellFounded
<1>2. \A x, y \in Nat : <<x, y>> \in R <=> x < y
  BY DEF OpToRel
<1> HIDE DEF R
<1>3. PICK x \in S : \A y \in S : ~(<<y, x>> \in R)
  BY <1>1, WFMin
<1>4. ASSUME NEW y \in S
      PROVE  x <= y
  <2>1. x \in Nat /\ y \in Nat
    OBVIOUS
  <2>2. ~(y < x)
    BY <1>2, <1>3, <2>1
  <2> QED
    BY <2>1, <2>2
<1> QED
  BY <1>3, <1>4

Procs == {"test", "stats", "reporter", "omit", "send"}

Cells ==
  [id : Nat \ {0}, proc : Procs, data : Nat, usecs : Nat, periodic : BOOLEAN, time : Time]

Us(c) == iperf_time_in_usecs(c.time)

Sorted(a) == \A i, j \in 1 .. Len(a) : i < j => Us(a[i]) <= Us(a[j])

Distinct(a) == \A i, j \in 1 .. Len(a) : i # j => a[i].id # a[j].id

Members(a) == {a[j] : j \in 1 .. Len(a)}

(* The cell x stands before the cell y in the list.                         *)
Before(a, x, y) ==
  \E i, j \in 1 .. Len(a) : i < j /\ a[i].id = x /\ a[j].id = y

LEMMA CellFields ==
  ASSUME NEW c \in Cells
  PROVE  /\ c.id \in Nat /\ c.id # 0 /\ c.time \in Time /\ c.usecs \in Nat /\ c.data \in Nat
         /\ c.periodic \in BOOLEAN /\ Us(c) \in Nat
<1>1. /\ c.id \in Nat /\ c.id # 0 /\ c.time \in Time /\ c.usecs \in Nat /\ c.data \in Nat
      /\ c.periodic \in BOOLEAN
  BY DEF Cells
<1> QED
  BY <1>1, CompareTimes DEF Us

(* The comparisons of times in a list, in microseconds.                     *)
LEMMA CompareCells ==
  ASSUME NEW c \in Cells, NEW d \in Cells
  PROVE  /\ iperf_time_compare(c.time, d.time) < 0 <=> Us(c) < Us(d)
         /\ iperf_time_compare(c.time, d.time) <= 0 <=> Us(c) <= Us(d)
         /\ iperf_time_compare(c.time, d.time) > 0 <=> Us(c) > Us(d)
<1> DEFINE k == iperf_time_compare(c.time, d.time)
<1>1. /\ Us(c) \in Nat /\ Us(d) \in Nat /\ k \in {-1, 0, 1}
      /\ k = -1 <=> Us(c) < Us(d)
      /\ k = 1 <=> Us(c) > Us(d)
      /\ k = 0 <=> Us(c) = Us(d)
  BY CellFields, CompareTimes DEF Us
<1> HIDE DEF k
<1>2. /\ k < 0 <=> Us(c) < Us(d)
      /\ k <= 0 <=> Us(c) <= Us(d)
      /\ k > 0 <=> Us(c) > Us(d)
  BY <1>1
<1> QED
  BY <1>2 DEF k

(* The rest of a list behind its first k elements.                          *)
LEMMA Rest ==
  ASSUME NEW a \in Seq(Cells), NEW k \in 0 .. Len(a), NEW q, q = SubSeq(a, k + 1, Len(a))
  PROVE  q \in Seq(Cells) /\ Len(q) = Len(a) - k /\ \A j \in 1 .. Len(a) - k : q[j] = a[k + j]
<1>1. Len(a) \in Int /\ k + 1 \in Int /\ \A i \in k + 1 .. Len(a) : a[i] \in Cells
  OBVIOUS
<1>2. /\ q \in Seq(Cells)
      /\ Len(q) = IF k + 1 <= Len(a) THEN Len(a) - (k + 1) + 1 ELSE 0
      /\ \A i \in 1 .. Len(a) - (k + 1) + 1 : q[i] = a[(k + 1) + i - 1]
  BY <1>1, SubSeqProperties
<1>3. Len(q) = Len(a) - k /\ Len(a) - (k + 1) + 1 = Len(a) - k
  BY <1>2
<1>4. ASSUME NEW i \in 1 .. Len(a) - k
      PROVE  q[i] = a[k + i]
  <2>1. i \in 1 .. Len(a) - (k + 1) + 1
    BY <1>3
  <2>2. (k + 1) + i - 1 = k + i
    OBVIOUS
  <2> QED
    BY <1>2, <2>1, <2>2
<1> QED
  BY <1>2, <1>3, <1>4

(* b is a with t behind its first k timers, the ones that are not due later.*)
AddedAt(a, t, b, k) ==
  /\ b \in Seq(Cells) /\ Len(b) = Len(a) + 1
  /\ \A j \in 1 .. k : b[j] = a[j] /\ Us(a[j]) <= Us(t)
  /\ b[k + 1] = t
  /\ \A j \in k + 1 .. Len(a) : b[j + 1] = a[j] /\ Us(t) < Us(a[j])

LEMMA ListAdd ==
  ASSUME NEW a \in Seq(Cells), NEW t \in Cells, Sorted(a), NEW b, b = list_add(a, t)
  PROVE  \E k \in 0 .. Len(a) : AddedAt(a, t, b, k)
<1> DEFINE later == {i \in DOMAIN a : iperf_time_compare(t.time, a[i].time) < 0}
           k == IF later = {} THEN Len(a)
                ELSE (CHOOSE i \in later : \A j \in later : i <= j) - 1
<1>1. b = SubSeq(a, 1, k) \o <<t>> \o SubSeq(a, k + 1, Len(a))
  BY DEF list_add
<1>2. Len(a) \in Nat /\ DOMAIN a = 1 .. Len(a) /\ \A i \in 1 .. Len(a) : a[i] \in Cells
  OBVIOUS
<1>3. \A i \in 1 .. Len(a) : Us(a[i]) \in Nat /\ Us(t) \in Nat
  BY <1>2, CellFields
<1>4. \A i \in 1 .. Len(a) : i \in later <=> Us(t) < Us(a[i])
  BY <1>2, CompareCells
<1>5. later \subseteq 1 .. Len(a)
  BY <1>2
<1> HIDE DEF later
<1>6. /\ k \in 0 .. Len(a)
      /\ \A j \in 1 .. k : j \notin later
      /\ k < Len(a) => k + 1 \in later
  <2>1. CASE later = {}
    BY <1>2, <2>1
  <2>2. CASE later # {}
    <3>1. later \subseteq Nat
      BY <1>5
    <3>2. \E i \in later : \A j \in later : i <= j
      BY <2>2, <3>1, Least
    <3> DEFINE m == CHOOSE i \in later : \A j \in later : i <= j
    <3>3. m \in later /\ \A j \in later : m <= j
      BY <3>2
    <3>4. k = m - 1
      BY <2>2
    <3> HIDE DEF m, k
    <3>5. m \in 1 .. Len(a)
      BY <1>5, <3>3
    <3> QED
      BY <1>2, <3>3, <3>4, <3>5
  <2> QED
    BY <2>1, <2>2
<1> HIDE DEF k
<1>7. \A j \in 1 .. k : Us(a[j]) <= Us(t)
  BY <1>2, <1>3, <1>4, <1>6
<1>8. \A j \in k + 1 .. Len(a) : Us(t) < Us(a[j])
  <2> SUFFICES ASSUME NEW j \in k + 1 .. Len(a) PROVE Us(t) < Us(a[j])
    OBVIOUS
  <2>1. k \in Nat /\ j \in 1 .. Len(a) /\ k + 1 \in 1 .. Len(a) /\ k + 1 <= j
    BY <1>2, <1>6
  <2>2. Us(t) < Us(a[k + 1])
    BY <1>2, <1>4, <1>6, <2>1
  <2>3. Us(a[k + 1]) <= Us(a[j])
    BY <1>3, <2>1 DEF Sorted
  <2> QED
    BY <1>3, <2>1, <2>2, <2>3
<1>9. /\ b \in Seq(Cells) /\ Len(b) = Len(a) + 1 /\ b[k + 1] = t
      /\ \A j \in 1 .. k : b[j] = a[j]
      /\ \A j \in k + 1 .. Len(a) : b[j + 1] = a[j]
  <2> DEFINE p == SubSeq(a, 1, k)
             q == SubSeq(a, k + 1, Len(a))
  <2>1. p \in Seq(Cells) /\ Len(p) = k /\ \A j \in 1 .. k : p[j] = a[j]
    BY <1>2, <1>6
  <2>2. q \in Seq(Cells) /\ Len(q) = Len(a) - k /\ \A j \in 1 .. Len(a) - k : q[j] = a[k + j]
    BY <1>6, Rest
  <2>3. b = (p \o <<t>>) \o q
    BY <1>1
  <2> HIDE DEF p, q
  <2> DEFINE r == p \o <<t>>
  <2>4. r \in Seq(Cells) /\ Len(r) = k + 1 /\ r[k + 1] = t /\ \A j \in 1 .. k : r[j] = a[j]
    BY <1>6, <2>1
  <2>5. b = r \o q
    BY <2>3
  <2> HIDE DEF r
  <2>6. b \in Seq(Cells) /\ Len(b) = Len(a) + 1
    <3>1. b \in Seq(Cells) /\ Len(b) = Len(r) + Len(q)
      <4>1. r \in Seq(Cells) /\ q \in Seq(Cells)
        BY <2>2, <2>4
      <4> HIDE DEF q
      <4> QED
        BY <2>5, <4>1, ConcatProperties, Zenon
    <3> QED
      BY <1>2, <1>6, <2>2, <2>4, <3>1
  <2>7. \A j \in 1 .. k + 1 : b[j] = r[j]
    BY <1>2, <1>6, <2>2, <2>4, <2>5
  <2>8. ASSUME NEW j \in k + 1 .. Len(a)
        PROVE  b[j + 1] = a[j]
    <3>1. j - k \in 1 .. Len(q) /\ Len(r) + (j - k) = j + 1 /\ k + (j - k) = j
      BY <1>2, <1>6, <2>2, <2>4
    <3>2. b[Len(r) + (j - k)] = q[j - k]
      BY <2>2, <2>4, <2>5, <3>1
    <3>3. q[j - k] = a[k + (j - k)]
      BY <2>2, <3>1
    <3> QED
      BY <3>1, <3>2, <3>3
  <2> QED
    BY <1>6, <2>4, <2>6, <2>7, <2>8
<1>10. AddedAt(a, t, b, k)
  BY <1>7, <1>8, <1>9 DEF AddedAt
<1> QED
  BY <1>6, <1>10

(* list_remove takes out the one cell with this id.                         *)
LEMMA ListRemove ==
  ASSUME NEW a \in Seq(Cells), Distinct(a), NEW k \in 1 .. Len(a),
         NEW b, b = list_remove(a, a[k].id)
  PROVE  /\ b \in Seq(Cells) /\ Len(b) = Len(a) - 1
         /\ \A j \in 1 .. k - 1 : b[j] = a[j]
         /\ \A j \in k .. Len(a) - 1 : b[j] = a[j + 1]
<1>1. Len(a) \in Nat /\ DOMAIN a = 1 .. Len(a)
  OBVIOUS
<1>2. (CHOOSE i \in DOMAIN a : a[i].id = a[k].id) = k
  BY <1>1 DEF Distinct
<1>3. b = SubSeq(a, 1, k - 1) \o SubSeq(a, k + 1, Len(a))
  BY <1>2 DEF list_remove
<1> DEFINE p == SubSeq(a, 1, k - 1)
           q == SubSeq(a, k + 1, Len(a))
<1>4. p \in Seq(Cells) /\ Len(p) = k - 1 /\ \A j \in 1 .. k - 1 : p[j] = a[j]
  BY <1>1
<1>5. q \in Seq(Cells) /\ Len(q) = Len(a) - k /\ \A j \in 1 .. Len(a) - k : q[j] = a[k + j]
  BY Rest
<1>6. b = p \o q
  BY <1>3
<1> HIDE DEF p, q
<1>7. b \in Seq(Cells) /\ Len(b) = Len(a) - 1 /\ \A j \in 1 .. k - 1 : b[j] = a[j]
  <2>0. /\ p \o q \in Seq(Cells) /\ Len(p \o q) = Len(p) + Len(q)
        /\ \A i \in 1 .. Len(p) + Len(q) :
             (p \o q)[i] = IF i <= Len(p) THEN p[i] ELSE q[i - Len(p)]
    BY <1>4, <1>5, ConcatProperties, Zenon
  <2>1. /\ b \in Seq(Cells) /\ Len(b) = Len(p) + Len(q)
        /\ \A i \in 1 .. Len(p) + Len(q) : b[i] = IF i <= Len(p) THEN p[i] ELSE q[i - Len(p)]
    BY <1>6, <2>0, Zenon
  <2>2. Len(b) = Len(a) - 1
    BY <1>1, <1>4, <1>5, <2>1
  <2>3. \A j \in 1 .. k - 1 : j \in 1 .. Len(p) + Len(q) /\ j <= Len(p)
    BY <1>1, <1>4, <1>5
  <2> QED
    BY <1>4, <2>1, <2>2, <2>3
<1>8. ASSUME NEW j \in k .. Len(a) - 1
      PROVE  b[j] = a[j + 1]
  <2>1. j - k + 1 \in 1 .. Len(q) /\ Len(p) + (j - k + 1) = j /\ k + (j - k + 1) = j + 1
    BY <1>1, <1>4, <1>5
  <2>2. b[Len(p) + (j - k + 1)] = q[j - k + 1]
    BY <1>4, <1>5, <1>6, <2>1
  <2>3. q[j - k + 1] = a[k + (j - k + 1)]
    BY <1>5, <2>1
  <2> QED
    BY <2>1, <2>2, <2>3
<1> QED
  BY <1>7, <1>8

LEMMA AddFacts ==
  ASSUME NEW a \in Seq(Cells), NEW t \in Cells, Sorted(a), Distinct(a),
         \A c \in Members(a) : c.id # t.id, NEW b, b = list_add(a, t)
  PROVE  /\ b \in Seq(Cells) /\ Len(b) = Len(a) + 1 /\ Sorted(b) /\ Distinct(b)
         /\ Members(b) = Members(a) \cup {t}
         /\ \A x, y : Before(a, x, y) => Before(b, x, y)
         /\ \A c \in Members(a) : Us(c) <= Us(t) => Before(b, c.id, t.id)
<1>0. PICK k \in 0 .. Len(a) : AddedAt(a, t, b, k)
  BY ListAdd
<1>1. /\ b \in Seq(Cells) /\ Len(b) = Len(a) + 1
      /\ \A j \in 1 .. k : b[j] = a[j] /\ Us(a[j]) <= Us(t)
      /\ b[k + 1] = t
      /\ \A j \in k + 1 .. Len(a) : b[j + 1] = a[j] /\ Us(t) < Us(a[j])
  BY <1>0 DEF AddedAt
<1>2. Len(a) \in Nat /\ k \in Nat /\ Us(t) \in Nat /\ \A j \in 1 .. Len(a) : Us(a[j]) \in Nat
  BY CellFields
(* Where the j-th cell of a is in b, and where that of b was in a.          *)
<1> DEFINE up(j) == IF j <= k THEN j ELSE j + 1
           down(j) == IF j <= k THEN j ELSE j - 1
<1>3. \A j \in 1 .. Len(a) : up(j) \in 1 .. Len(b) /\ b[up(j)] = a[j] /\ up(j) # k + 1
  BY <1>1, <1>2
<1>4. \A j \in 1 .. Len(b) : j # k + 1 => down(j) \in 1 .. Len(a) /\ b[j] = a[down(j)]
  <2> SUFFICES ASSUME NEW j \in 1 .. Len(b), j # k + 1
               PROVE  down(j) \in 1 .. Len(a) /\ b[j] = a[down(j)]
    OBVIOUS
  <2>1. CASE j <= k
    BY <1>1, <1>2, <2>1
  <2>2. CASE ~(j <= k)
    <3>1. j - 1 \in k + 1 .. Len(a) /\ (j - 1) + 1 = j
      BY <1>1, <1>2, <2>2
    <3>2. b[(j - 1) + 1] = a[j - 1]
      BY <1>1, <3>1
    <3> QED
      BY <1>2, <2>2, <3>1, <3>2
  <2> QED
    BY <2>1, <2>2
<1>5. k + 1 \in 1 .. Len(b) /\ b[k + 1] = t
  BY <1>1, <1>2
<1>6. \A i, j \in 1 .. Len(a) : i < j => up(i) < up(j)
  BY <1>2
<1>7. Sorted(b)
  <2> SUFFICES ASSUME NEW i \in 1 .. Len(b), NEW j \in 1 .. Len(b), i < j
               PROVE  Us(b[i]) <= Us(b[j])
    BY DEF Sorted
  <2>1. CASE i = k + 1
    <3>1. j - 1 \in k + 1 .. Len(a) /\ down(j) = j - 1 /\ j # k + 1
      BY <1>1, <1>2, <2>1
    <3>2. b[j] = a[j - 1] /\ Us(t) < Us(a[j - 1]) /\ j - 1 \in 1 .. Len(a)
      BY <1>1, <1>2, <1>4, <3>1
    <3> QED
      BY <1>1, <1>2, <2>1, <3>2
  <2>2. CASE j = k + 1
    <3>1. i \in 1 .. k /\ i \in 1 .. Len(a)
      BY <1>1, <1>2, <2>2
    <3> QED
      BY <1>1, <2>2, <3>1
  <2>3. CASE i # k + 1 /\ j # k + 1
    <3>1. down(i) \in 1 .. Len(a) /\ down(j) \in 1 .. Len(a) /\ b[i] = a[down(i)] /\ b[j] = a[down(j)]
      BY <1>4, <2>3
    <3>2. down(i) < down(j)
      BY <1>1, <1>2, <2>3
    <3> HIDE DEF down
    <3> QED
      BY <3>1, <3>2 DEF Sorted
  <2> QED
    BY <2>1, <2>2, <2>3
<1>8. Members(b) = Members(a) \cup {t}
  <2>1. Members(b) \subseteq Members(a) \cup {t}
    BY <1>4, <1>5 DEF Members
  <2>2. Members(a) \cup {t} \subseteq Members(b)
    BY <1>3, <1>5 DEF Members
  <2> QED
    BY <2>1, <2>2
<1>9. Distinct(b)
  <2> SUFFICES ASSUME NEW i \in 1 .. Len(b), NEW j \in 1 .. Len(b), i # j
               PROVE  b[i].id # b[j].id
    BY DEF Distinct
  <2>1. \A m \in 1 .. Len(b) : m # k + 1 => b[m].id # t.id
    BY <1>4 DEF Members
  <2>2. CASE i = k + 1 \/ j = k + 1
    BY <1>5, <2>1, <2>2
  <2>3. CASE i # k + 1 /\ j # k + 1
    <3>1. down(i) \in 1 .. Len(a) /\ down(j) \in 1 .. Len(a) /\ b[i] = a[down(i)] /\ b[j] = a[down(j)]
      BY <1>4, <2>3
    <3>2. down(i) # down(j)
      BY <1>1, <1>2, <2>3
    <3> HIDE DEF down
    <3> QED
      BY <3>1, <3>2 DEF Distinct
  <2> QED
    BY <2>2, <2>3
<1>10. ASSUME NEW x, NEW y, Before(a, x, y)
       PROVE  Before(b, x, y)
  <2>1. PICK i, j \in 1 .. Len(a) : i < j /\ a[i].id = x /\ a[j].id = y
    BY <1>10 DEF Before
  <2>2. up(i) \in 1 .. Len(b) /\ up(j) \in 1 .. Len(b) /\ up(i) < up(j)
    BY <1>3, <1>6, <2>1
  <2>3. b[up(i)] = a[i] /\ b[up(j)] = a[j]
    BY <1>3
  <2> HIDE DEF up
  <2> QED
    BY <2>1, <2>2, <2>3 DEF Before
<1>11. ASSUME NEW c \in Members(a), Us(c) <= Us(t)
       PROVE  Before(b, c.id, t.id)
  <2>1. PICK j \in 1 .. Len(a) : c = a[j]
    BY DEF Members
  <2>2. Us(a[j]) \in Nat /\ Us(t) \in Nat
    BY <1>2
  <2>3. j <= k
    <3>1. j \in k + 1 .. Len(a) => Us(t) < Us(c)
      BY <1>1, <2>1
    <3> QED
      BY <1>2, <1>11, <2>1, <2>2, <3>1
  <2>4. j \in 1 .. k /\ j \in 1 .. Len(b) /\ j < k + 1
    BY <1>1, <1>2, <2>3
  <2>5. b[j] = c
    BY <1>1, <2>1, <2>4
  <2> QED
    BY <1>5, <2>4, <2>5 DEF Before
<1> QED
  BY <1>1, <1>7, <1>8, <1>9, <1>10, <1>11

LEMMA RemoveFacts ==
  ASSUME NEW a \in Seq(Cells), Sorted(a), Distinct(a), NEW c \in Members(a),
         NEW b, b = list_remove(a, c.id)
  PROVE  /\ b \in Seq(Cells) /\ Len(b) = Len(a) - 1 /\ Sorted(b) /\ Distinct(b)
         /\ Members(b) = Members(a) \ {c} /\ \A d \in Members(b) : d.id # c.id
         /\ \A x, y : Before(a, x, y) /\ x # c.id /\ y # c.id => Before(b, x, y)
<1>1. PICK k \in 1 .. Len(a) : c = a[k]
  BY DEF Members
<1>2. /\ b \in Seq(Cells) /\ Len(b) = Len(a) - 1
      /\ \A j \in 1 .. k - 1 : b[j] = a[j]
      /\ \A j \in k .. Len(a) - 1 : b[j] = a[j + 1]
  BY <1>1, ListRemove
<1>3. Len(a) \in Nat /\ k \in Nat
  OBVIOUS
<1> DEFINE up(j) == IF j < k THEN j ELSE j + 1
           down(j) == IF j < k THEN j ELSE j - 1
<1>4. \A j \in 1 .. Len(b) : up(j) \in 1 .. Len(a) /\ b[j] = a[up(j)] /\ up(j) # k
  BY <1>2, <1>3
<1>5. \A j \in 1 .. Len(a) : j # k => down(j) \in 1 .. Len(b) /\ b[down(j)] = a[j]
  <2> SUFFICES ASSUME NEW j \in 1 .. Len(a), j # k
               PROVE  down(j) \in 1 .. Len(b) /\ b[down(j)] = a[j]
    OBVIOUS
  <2>1. CASE j < k
    BY <1>2, <1>3, <2>1
  <2>2. CASE ~(j < k)
    <3>1. j - 1 \in k .. Len(a) - 1 /\ (j - 1) + 1 = j
      BY <1>3, <2>2
    <3>2. b[j - 1] = a[(j - 1) + 1]
      BY <1>2, <3>1
    <3> QED
      BY <1>2, <1>3, <2>2, <3>1, <3>2
  <2> QED
    BY <2>1, <2>2
<1>6. \A i, j \in 1 .. Len(b) : i < j => up(i) < up(j)
  BY <1>2, <1>3
<1>7. \A i, j \in 1 .. Len(a) : i < j /\ i # k /\ j # k => down(i) < down(j)
  BY <1>3
<1>8. Sorted(b)
  <2> HIDE DEF up
  <2> QED
    BY <1>4, <1>6 DEF Sorted
<1>9. Distinct(b)
  <2>1. \A i, j \in 1 .. Len(b) : i # j => up(i) # up(j)
    BY <1>2, <1>3
  <2> HIDE DEF up
  <2> QED
    BY <1>4, <2>1 DEF Distinct
<1>10. \A j \in 1 .. Len(a) : j # k => a[j].id # c.id /\ a[j] # c
  BY <1>1 DEF Distinct
<1>11. Members(b) = Members(a) \ {c}
  <2> HIDE DEF up, down
  <2>1. Members(b) \subseteq Members(a) \ {c}
    BY <1>4, <1>10 DEF Members
  <2>2. Members(a) \ {c} \subseteq Members(b)
    BY <1>1, <1>5 DEF Members
  <2> QED
    BY <2>1, <2>2
<1>12. \A d \in Members(b) : d.id # c.id
  <2> HIDE DEF up
  <2> QED
    BY <1>4, <1>10 DEF Members
<1>13. ASSUME NEW x, NEW y, Before(a, x, y), x # c.id, y # c.id
       PROVE  Before(b, x, y)
  <2>1. PICK i, j \in 1 .. Len(a) : i < j /\ a[i].id = x /\ a[j].id = y
    BY <1>13 DEF Before
  <2>2. i # k /\ j # k
    BY <1>1, <1>13, <2>1
  <2>3. down(i) \in 1 .. Len(b) /\ down(j) \in 1 .. Len(b) /\ down(i) < down(j)
    BY <1>5, <1>7, <2>1, <2>2
  <2>4. b[down(i)] = a[i] /\ b[down(j)] = a[j]
    BY <1>5, <2>2
  <2> HIDE DEF down
  <2> QED
    BY <2>1, <2>3, <2>4 DEF Before
<1> QED
  BY <1>2, <1>8, <1>9, <1>11, <1>12, <1>13

Act(L) == Members(L.active)

Good(L) ==
  /\ L = [active |-> L.active, free |-> L.free]
  /\ L.active \in Seq(Cells) /\ L.free \in Seq(Cells)
  /\ Sorted(L.active) /\ Distinct(L.active) /\ Distinct(L.free)
  /\ \A c \in Act(L) : \A d \in Members(L.free) : c.id # d.id

LEMMA GoodWellFormed ==
  ASSUME NEW L, Good(L)
  PROVE  WellFormed(L)
<1>1. /\ L.active \in Seq(Cells) /\ L.free \in Seq(Cells)
      /\ DOMAIN L.active = 1 .. Len(L.active) /\ DOMAIN L.free = 1 .. Len(L.free)
      /\ \A i \in 1 .. Len(L.active) : L.active[i] \in Cells
  BY DEF Good
<1>2. \A i, j \in DOMAIN L.active :
        i < j => iperf_time_compare(L.active[i].time, L.active[j].time) <= 0
  BY <1>1, CompareCells DEF Good, Sorted
<1>3. \A i, j \in DOMAIN L.active : i < j => L.active[i].id # L.active[j].id
  BY <1>1 DEF Good, Distinct
<1>4. \A i, j \in DOMAIN L.free : i # j => L.free[i].id # L.free[j].id
  BY <1>1 DEF Good, Distinct
<1>5. \A i \in DOMAIN L.free : L.free[i].id \notin Ids(L)
  BY <1>1 DEF Good, Ids, Act, Members
<1> QED
  BY <1>2, <1>3, <1>4, <1>5 DEF WellFormed

LEMMA ActiveCells ==
  ASSUME NEW L, Good(L)
  PROVE  /\ Act(L) \subseteq Cells
         /\ Ids(L) = {c.id : c \in Act(L)}
         /\ \A c, d \in Act(L) : c.id = d.id => c = d
         /\ \A c \in Act(L) : CellOf(L, c.id) = c
<1> DEFINE a == L.active
           f == L.free
           all == a \o f
<1>1. /\ a \in Seq(Cells) /\ f \in Seq(Cells) /\ DOMAIN a = 1 .. Len(a)
      /\ Len(a) \in Nat /\ Len(f) \in Nat
  BY DEF Good
<1>2. Act(L) \subseteq Cells
  BY <1>1 DEF Act, Members
<1>3. Ids(L) = {c.id : c \in Act(L)}
  BY <1>1 DEF Ids, Act, Members
<1>4. \A c, d \in Act(L) : c.id = d.id => c = d
  BY DEF Good, Distinct, Act, Members
<1>5. ASSUME NEW c \in Act(L)
      PROVE  CellOf(L, c.id) = c
  <2>1. PICK k \in 1 .. Len(a) : c = a[k]
    BY DEF Act, Members
  <2>2. /\ all \in Seq(Cells) /\ Len(all) = Len(a) + Len(f)
        /\ \A i \in 1 .. Len(a) + Len(f) : all[i] = IF i <= Len(a) THEN a[i] ELSE f[i - Len(a)]
    BY <1>1, ConcatProperties, Zenon
  <2>3. DOMAIN all = 1 .. Len(a) + Len(f)
    BY <2>2
  <2> HIDE DEF all
  <2> HIDE DEF a, f
  <2>a. k \in 1 .. Len(a) + Len(f) /\ k <= Len(a)
    BY <1>1, <2>1
  <2>4. k \in DOMAIN all /\ all[k] = c
    BY <2>a, <2>1, <2>2, <2>3
  <2>5. ASSUME NEW i \in DOMAIN all, all[i].id = c.id
        PROVE  i = k
    <3>1. CASE i <= Len(a)
      <4>1. i \in 1 .. Len(a) /\ i \in 1 .. Len(a) + Len(f)
        BY <1>1, <2>3, <3>1
      <4>2. all[i] = a[i]
        BY <2>2, <3>1, <4>1
      <4> QED
        BY <2>1, <2>5, <4>1, <4>2 DEF Good, Distinct, a
    <3>2. CASE ~(i <= Len(a))
      <4>1. i - Len(a) \in 1 .. Len(f) /\ i \in 1 .. Len(a) + Len(f)
        BY <1>1, <2>3, <3>2
      <4>2. all[i] = f[i - Len(a)]
        BY <2>2, <3>2, <4>1
      <4>3. all[i] \in Members(f)
        BY <4>1, <4>2 DEF Members
      <4> QED
        BY <2>5, <4>3 DEF Good, f
    <3> QED
      BY <3>1, <3>2
  <2>6. (CHOOSE i \in DOMAIN all : all[i].id = c.id) = k
    BY <2>4, <2>5
  <2>7. CellOf(L, c.id) = all[CHOOSE i \in DOMAIN all : all[i].id = c.id]
    BY DEF CellOf, all, a, f
  <2> QED
    BY <2>4, <2>6, <2>7
<1> QED
  BY <1>2, <1>3, <1>4, <1>5

(* R is L with another time for the timer c.                                *)
Moved(L, c, R) ==
  /\ Good(R)
  /\ \E d \in Cells : /\ d.id = c.id /\ d.proc = c.proc /\ d.data = c.data
                      /\ d.periodic = c.periodic /\ d.usecs = c.usecs
                      /\ Act(R) = (Act(L) \ {c}) \cup {d}
  /\ \A x, y : Before(L.active, x, y) /\ x # c.id /\ y # c.id => Before(R.active, x, y)

(* The timer c is due at u in R, and stands there behind the ones that are  *)
(* not due later.                                                           *)
Placed(L, c, u, R) ==
  \E d \in Act(R) : /\ d.id = c.id /\ d.proc = c.proc /\ d.usecs = c.usecs /\ Us(d) = u
                    /\ \A e \in Act(L) : e # c => e \in Act(R)
                    /\ \A e \in Act(L) : e # c /\ Us(e) <= u => Before(R.active, e.id, c.id)

(* A timer with a new time finds its new place.                             *)
LEMMA MoveTimer ==
  ASSUME NEW L, Good(L), NEW c \in Act(L), NEW time \in Time,
         NEW R, R = [L EXCEPT !.active = list_resort(@, [c EXCEPT !.time = time])]
  PROVE  Moved(L, c, R) /\ Placed(L, c, iperf_time_in_usecs(time), R)
<1> DEFINE a == L.active
           d == [c EXCEPT !.time = time]
           m == list_remove(a, c.id)
           b == list_add(m, d)
<1>1. /\ a \in Seq(Cells) /\ Sorted(a) /\ Distinct(a) /\ c \in Members(a) /\ c \in Cells
  BY ActiveCells DEF Good, Act
<1>2. /\ d \in Cells /\ d.id = c.id /\ d.proc = c.proc /\ d.data = c.data
      /\ d.periodic = c.periodic /\ d.usecs = c.usecs /\ d.time = time
  BY <1>1 DEF Cells
<1>d. R = [L EXCEPT !.active = list_resort(@, d)]
  OBVIOUS
<1> HIDE DEF d
<1>3. /\ m \in Seq(Cells) /\ Sorted(m) /\ Distinct(m)
      /\ Members(m) = Members(a) \ {c} /\ \A e \in Members(m) : e.id # c.id
      /\ \A x, y : Before(a, x, y) /\ x # c.id /\ y # c.id => Before(m, x, y)
  BY <1>1, RemoveFacts
<1>4. R = [L EXCEPT !.active = b]
  BY <1>2, <1>d DEF list_resort
<1> HIDE DEF m
<1>5. /\ b \in Seq(Cells) /\ Sorted(b) /\ Distinct(b) /\ Members(b) = Members(m) \cup {d}
      /\ \A x, y : Before(m, x, y) => Before(b, x, y)
      /\ \A e \in Members(m) : Us(e) <= Us(d) => Before(b, e.id, d.id)
  BY <1>2, <1>3, AddFacts
<1> HIDE DEF b
<1>6. R.active = b /\ R.free = L.free /\ R = [active |-> R.active, free |-> R.free]
  BY <1>4 DEF Good
<1>7. Act(R) = (Act(L) \ {c}) \cup {d}
  BY <1>3, <1>5, <1>6 DEF Act
<1>8. \A e \in Act(R) : \E g \in Act(L) : e.id = g.id
  BY <1>2, <1>7
<1>9. Good(R)
  BY <1>5, <1>6, <1>8 DEF Good
<1>10. \A x, y : Before(L.active, x, y) /\ x # c.id /\ y # c.id => Before(R.active, x, y)
  BY <1>3, <1>5, <1>6
<1>11. Us(d) = iperf_time_in_usecs(time)
  BY <1>2 DEF Us
<1>12. \A e \in Act(L) : e # c => e \in Members(m) /\ e \in Act(R)
  BY <1>3, <1>7 DEF Act
<1>13. Placed(L, c, iperf_time_in_usecs(time), R)
  BY <1>2, <1>5, <1>6, <1>7, <1>11, <1>12 DEF Placed
<1>14. Moved(L, c, R)
  BY <1>2, <1>7, <1>9, <1>10 DEF Moved
<1> QED
  BY <1>13, <1>14

LEMMA CancelTimer ==
  ASSUME NEW L, Good(L), NEW c \in Act(L), NEW R, R = tmr_cancel(L, c.id)
  PROVE  /\ Good(R) /\ Act(R) = Act(L) \ {c}
         /\ \A x, y : Before(L.active, x, y) /\ x # c.id /\ y # c.id => Before(R.active, x, y)
<1> DEFINE a == L.active
           m == list_remove(a, c.id)
           f == <<c>> \o L.free
<1>1. /\ a \in Seq(Cells) /\ Sorted(a) /\ Distinct(a) /\ c \in Members(a) /\ c \in Cells
      /\ L.free \in Seq(Cells) /\ Distinct(L.free)
  BY ActiveCells DEF Good, Act
<1>2. /\ m \in Seq(Cells) /\ Sorted(m) /\ Distinct(m)
      /\ Members(m) = Members(a) \ {c} /\ \A e \in Members(m) : e.id # c.id
      /\ \A x, y : Before(a, x, y) /\ x # c.id /\ y # c.id => Before(m, x, y)
  BY <1>1, RemoveFacts
<1>3. R = [active |-> m, free |-> f]
  BY ActiveCells DEF tmr_cancel
<1> HIDE DEF m
<1>4. /\ f \in Seq(Cells) /\ Len(f) = Len(L.free) + 1
      /\ \A i \in 1 .. Len(f) : f[i] = IF i = 1 THEN c ELSE L.free[i - 1]
  BY <1>1
<1> HIDE DEF f
<1>5. Members(f) \subseteq Members(L.free) \cup {c}
  BY <1>1, <1>4 DEF Members
<1>6. Distinct(f)
  <2>1. \A i \in 1 .. Len(L.free) : L.free[i].id # c.id
    BY DEF Good, Members
  <2>2. \A i \in 1 .. Len(f) : i # 1 => i - 1 \in 1 .. Len(L.free)
    BY <1>1, <1>4
  <2> SUFFICES ASSUME NEW i \in 1 .. Len(f), NEW j \in 1 .. Len(f), i # j
               PROVE  f[i].id # f[j].id
    BY DEF Distinct
  <2>3. CASE i = 1
    <3>1. f[i] = c /\ f[j] = L.free[j - 1] /\ j - 1 \in 1 .. Len(L.free)
      BY <1>4, <2>2, <2>3
    <3> QED
      BY <2>1, <3>1
  <2>4. CASE j = 1
    <3>1. f[j] = c /\ f[i] = L.free[i - 1] /\ i - 1 \in 1 .. Len(L.free)
      BY <1>4, <2>2, <2>4
    <3> QED
      BY <2>1, <3>1
  <2>5. CASE i # 1 /\ j # 1
    <3>1. /\ f[j] = L.free[j - 1] /\ j - 1 \in 1 .. Len(L.free)
          /\ f[i] = L.free[i - 1] /\ i - 1 \in 1 .. Len(L.free)
      BY <1>4, <2>2, <2>5
    <3>2. i - 1 # j - 1
      OBVIOUS
    <3> QED
      BY <1>1, <3>1, <3>2 DEF Distinct
  <2> QED
    BY <2>3, <2>4, <2>5
<1>7. R.active = m /\ R.free = f /\ R = [active |-> R.active, free |-> R.free]
  BY <1>3
<1>8. Act(R) = Act(L) \ {c}
  BY <1>2, <1>7 DEF Act
<1>9. \A e \in Act(R) : \A d \in Members(R.free) : e.id # d.id
  <2>1. \A e \in Act(R) : e.id # c.id /\ e \in Act(L)
    BY <1>2, <1>7, <1>8 DEF Act
  <2> QED
    BY <1>5, <1>7, <2>1 DEF Good
<1>10. Good(R)
  BY <1>2, <1>4, <1>6, <1>7, <1>9 DEF Good
<1> QED
  BY <1>2, <1>7, <1>8, <1>10

LEMMA ResetTimer ==
  ASSUME NEW L, Good(L), NEW c \in Act(L), NEW now \in Time, NEW R, R = tmr_reset(L, now, c.id)
  PROVE  Moved(L, c, R) /\ Placed(L, c, iperf_time_in_usecs(now) + c.usecs, R)
<1> DEFINE time == iperf_time_add_usecs(now, c.usecs)
<1>1. c \in Cells /\ c.usecs \in Nat /\ CellOf(L, c.id) = c
  BY ActiveCells, CellFields
<1>2. time \in Time /\ iperf_time_in_usecs(time) = iperf_time_in_usecs(now) + c.usecs
  BY <1>1, AddType
<1>3. R = [L EXCEPT !.active = list_resort(@, [c EXCEPT !.time = time])]
  BY <1>1 DEF tmr_reset
<1> HIDE DEF time
<1> QED
  BY <1>2, <1>3, MoveTimer

LEMMA RescheduleTimer ==
  ASSUME NEW L, Good(L), NEW c \in Act(L), NEW R, R = Reschedule(L, c.id)
  PROVE  /\ c.periodic => Moved(L, c, R) /\ Placed(L, c, Us(c) + c.usecs, R)
         /\ ~c.periodic =>
              /\ Good(R) /\ Act(R) = Act(L) \ {c}
              /\ \A x, y : Before(L.active, x, y) /\ x # c.id /\ y # c.id => Before(R.active, x, y)
<1> DEFINE time == iperf_time_add_usecs(c.time, c.usecs)
<1>1. c \in Cells /\ c.usecs \in Nat /\ c.time \in Time /\ CellOf(L, c.id) = c
  BY ActiveCells, CellFields
<1>2. time \in Time /\ iperf_time_in_usecs(time) = Us(c) + c.usecs
  BY <1>1, AddType DEF Us
<1>3. CASE c.periodic
  <2>1. R = [L EXCEPT !.active = list_resort(@, [c EXCEPT !.time = time])]
    BY <1>1, <1>3 DEF Reschedule
  <2> HIDE DEF time
  <2> QED
    BY <1>2, <1>3, <2>1, MoveTimer
<1>4. CASE ~c.periodic
  <2>1. R = tmr_cancel(L, c.id)
    BY <1>1, <1>4 DEF Reschedule
  <2> QED
    BY <1>4, <2>1, CancelTimer
<1> QED
  BY <1>3, <1>4

---------------------------------------------------------------------------------
(* The pointers to timers. A timer serves a slot: its callback, and for the *)
(* pacing timers the stream. K[s] is the pointer that the program keeps for *)
(* slot s.                                                                  *)

Slot(c) == <<c.proc, c.data>>

Slots ==
  {<<"test", 0>>, <<"stats", 0>>, <<"reporter", 0>>, <<"omit", 0>>} \cup {<<"send", i>> : i \in Streams}

Repeats(s) == s[1] \notin {"test", "omit"}

(* Every active timer is pointed to and every pointer names an active timer,*)
(* or is NULL.                                                              *)
Linked(L, K) ==
  /\ Good(L) /\ DOMAIN K = Slots
  /\ \A c \in Act(L) : Slot(c) \in Slots /\ K[Slot(c)] = c.id /\ (c.periodic <=> Repeats(Slot(c)))
  /\ \A s \in Slots : K[s] = NULL \/ \E c \in Act(L) : Slot(c) = s

LEMMA LinkedNames ==
  ASSUME NEW L, NEW K, Linked(L, K)
  PROVE  /\ \A s \in Slots : K[s] \in Nat
         /\ \A s \in Slots : K[s] # NULL => \E c \in Act(L) : Slot(c) = s /\ c.id = K[s]
         /\ \A s, t \in Slots : K[s] = K[t] /\ K[s] # NULL => s = t
<1>1. Good(L) /\ Act(L) \subseteq Cells /\ \A c, d \in Act(L) : c.id = d.id => c = d
  BY ActiveCells DEF Linked
<1>2. \A c \in Act(L) : c.id \in Nat /\ c.id # NULL
  BY <1>1, CellFields DEF NULL
<1>3. \A s \in Slots : K[s] # NULL => \E c \in Act(L) : Slot(c) = s /\ c.id = K[s]
  BY DEF Linked
<1>4. \A s \in Slots : K[s] \in Nat
  BY <1>2, <1>3 DEF NULL
<1> QED
  BY <1>1, <1>3, <1>4

LEMMA LinkedMove ==
  ASSUME NEW L, NEW K, Linked(L, K), NEW c \in Act(L), NEW R, Moved(L, c, R)
  PROVE  Linked(R, K)
<1>1. PICK d \in Cells : /\ d.id = c.id /\ d.proc = c.proc /\ d.data = c.data
                         /\ d.periodic = c.periodic
                         /\ Act(R) = (Act(L) \ {c}) \cup {d}
  BY DEF Moved
<1>2. Slot(d) = Slot(c)
  BY <1>1 DEF Slot
<1>3. Good(R) /\ DOMAIN K = Slots
  BY DEF Moved, Linked
<1>4. ASSUME NEW x \in Act(R)
      PROVE  Slot(x) \in Slots /\ K[Slot(x)] = x.id /\ (x.periodic <=> Repeats(Slot(x)))
  BY <1>1, <1>2, <1>4 DEF Linked
<1>5. ASSUME NEW s \in Slots
      PROVE  K[s] = NULL \/ \E x \in Act(R) : Slot(x) = s
  BY <1>1, <1>2 DEF Linked
<1> QED
  BY <1>3, <1>4, <1>5 DEF Linked

LEMMA LinkedCancel ==
  ASSUME NEW L, NEW K, Linked(L, K), NEW c \in Act(L),
         NEW R, Good(R), Act(R) = Act(L) \ {c}
  PROVE  Linked(R, [K EXCEPT ![Slot(c)] = NULL])
<1> DEFINE M == [K EXCEPT ![Slot(c)] = NULL]
<1>1. Good(L) /\ \A d, e \in Act(L) : d.id = e.id => d = e
  BY ActiveCells DEF Linked
<1>2. DOMAIN K = Slots /\ Slot(c) \in Slots
  BY DEF Linked
<1>3. DOMAIN M = Slots /\ M[Slot(c)] = NULL /\ \A s \in Slots : s # Slot(c) => M[s] = K[s]
  BY <1>2
<1> HIDE DEF M
<1>4. \A x \in Act(R) : x \in Act(L) /\ Slot(x) # Slot(c)
  BY <1>1 DEF Linked
<1>5. ASSUME NEW x \in Act(R)
      PROVE  Slot(x) \in Slots /\ M[Slot(x)] = x.id /\ (x.periodic <=> Repeats(Slot(x)))
  BY <1>3, <1>4 DEF Linked
<1>6. ASSUME NEW s \in Slots
      PROVE  M[s] = NULL \/ \E x \in Act(R) : Slot(x) = s
  BY <1>3 DEF Linked
<1>7. Linked(R, M)
  BY <1>3, <1>5, <1>6 DEF Linked
<1> QED
  BY <1>7 DEF M

(* Timers that tmr_create makes before any has run out.                     *)
Fresh(L) == L.free = <<>> /\ \A c \in Act(L) : c.id <= Len(L.active)

(* R has the timers of L in their order, and a new one behind those that    *)
(* are not due later.                                                       *)
Kept(L, R) ==
  Act(L) \subseteq Act(R) /\ \A x, y : Before(L.active, x, y) => Before(R.active, x, y)

Joined(L, proc, usecs, u, R) ==
  \E t \in Act(R) : /\ t.proc = proc /\ t.usecs = usecs /\ Us(t) = u
                    /\ \A e \in Act(L) : Us(e) <= u => Before(R.active, e.id, t.id)

LEMMA CreateTimer ==
  ASSUME NEW L, NEW K, Linked(L, K), Fresh(L), NEW now \in Time, NEW proc \in Procs,
         NEW data \in Nat, NEW usecs \in Nat, NEW periodic \in BOOLEAN, NEW s \in Slots,
         s = <<proc, data>>, K[s] = NULL, periodic <=> Repeats(s),
         NEW R, R = tmr_create(L, now, proc, data, usecs, periodic)
  PROVE  /\ Linked(R, [K EXCEPT ![s] = NewCell(L)]) /\ Fresh(R) /\ NewCell(L) # NULL
         /\ \A c \in Act(R) : \/ c \in Act(L)
                              \/ c.proc = proc /\ Us(c) = iperf_time_in_usecs(now) + usecs
         /\ Kept(L, R) /\ Joined(L, proc, usecs, iperf_time_in_usecs(now) + usecs, R)
<1> DEFINE time == iperf_time_add_usecs(now, usecs)
           t == [id |-> NewCell(L), proc |-> proc, data |-> data, usecs |-> usecs,
                 periodic |-> periodic, time |-> time]
           a == L.active
           b == list_add(a, t)
           M == [K EXCEPT ![s] = NewCell(L)]
<1>1. a \in Seq(Cells) /\ Len(a) \in Nat /\ Sorted(a) /\ Distinct(a) /\ L.free = <<>>
  BY DEF Linked, Good, Fresh
<1>2. NewCell(L) = Len(a) + 1
  BY <1>1 DEF NewCell
<1>3. R = [active |-> b, free |-> <<>>]
  BY <1>1 DEF tmr_create
<1>4. time \in Time /\ iperf_time_in_usecs(time) = iperf_time_in_usecs(now) + usecs
  BY AddType
<1> HIDE DEF time
<1>5. t \in Cells /\ t.id = Len(a) + 1 /\ Slot(t) = s /\ t.periodic = periodic
  BY <1>1, <1>2, <1>4 DEF Cells, Slot
<1>a. t.proc = proc /\ t.usecs = usecs /\ Us(t) = iperf_time_in_usecs(now) + usecs
  BY <1>4 DEF Us
<1> HIDE DEF t
<1>6. Act(L) \subseteq Cells /\ \A c \in Act(L) : c.id \in Nat /\ c.id <= Len(a)
  BY ActiveCells, CellFields DEF Linked, Fresh
<1>7. \A c \in Members(a) : c.id # t.id
  BY <1>1, <1>5, <1>6 DEF Act
<1>8. /\ b \in Seq(Cells) /\ Len(b) = Len(a) + 1 /\ Sorted(b) /\ Distinct(b)
      /\ Members(b) = Members(a) \cup {t}
      /\ \A x, y : Before(a, x, y) => Before(b, x, y)
      /\ \A c \in Members(a) : Us(c) <= Us(t) => Before(b, c.id, t.id)
  BY <1>1, <1>5, <1>7, AddFacts
<1> HIDE DEF b
<1>9. R.active = b /\ R.free = <<>> /\ R = [active |-> R.active, free |-> R.free]
  BY <1>3
<1>10. Act(R) = Act(L) \cup {t}
  BY <1>8, <1>9 DEF Act
<1>11. Members(<<>>) = {} /\ <<>> \in Seq(Cells) /\ Distinct(<<>>)
  BY DEF Members, Distinct
<1>12. Good(R)
  BY <1>8, <1>9, <1>11 DEF Good
<1>13. Fresh(R)
  BY <1>1, <1>5, <1>6, <1>8, <1>9, <1>10 DEF Fresh
<1>14. DOMAIN M = Slots /\ M[s] = t.id /\ \A x \in Slots : x # s => M[x] = K[x]
  BY <1>2, <1>5 DEF Linked
<1> HIDE DEF M
<1>15. \A c \in Act(L) : Slot(c) # s
  <2>1. \A c \in Act(L) : c.id # NULL
    BY <1>6, CellFields DEF NULL
  <2> QED
    BY <2>1 DEF Linked
<1>16. ASSUME NEW x \in Act(R)
       PROVE  Slot(x) \in Slots /\ M[Slot(x)] = x.id /\ (x.periodic <=> Repeats(Slot(x)))
  <2>1. CASE x = t
    BY <1>5, <1>14, <2>1
  <2>2. CASE x \in Act(L)
    BY <1>14, <1>15, <2>2 DEF Linked
  <2> QED
    BY <1>10, <2>1, <2>2
<1>17. ASSUME NEW x \in Slots
       PROVE  M[x] = NULL \/ \E c \in Act(R) : Slot(c) = x
  BY <1>5, <1>10, <1>14 DEF Linked
<1>18. Linked(R, M)
  BY <1>12, <1>14, <1>16, <1>17 DEF Linked
<1>19. NewCell(L) # NULL
  BY <1>1, <1>2 DEF NULL
<1>20. Kept(L, R)
  BY <1>8, <1>9, <1>10 DEF Kept
<1>21. Joined(L, proc, usecs, iperf_time_in_usecs(now) + usecs, R)
  BY <1>a, <1>8, <1>9, <1>10 DEF Joined, Act
<1> QED
  BY <1>a, <1>10, <1>13, <1>18, <1>19, <1>20, <1>21 DEF M

---------------------------------------------------------------------------------
(* Making and cancelling several timers, one after the other.               *)

CancelStep(v, id) == CHOOSE n \in {IF id = NULL THEN m ELSE tmr_cancel(m, id) : m \in {v}} : TRUE

(* f is the function of n steps that begins with L.                         *)
Cancels(f, n, L, ids) == f = [k \in 0 .. n |-> IF k = 0 THEN L ELSE CancelStep(f[k - 1], ids[k])]

(* The functions that iperf_create_send_timers and CancelAll define by      *)
(* recursion exist.                                                         *)
LEMMA CancelRecursion ==
  ASSUME NEW L, NEW n \in Nat, NEW ids
  PROVE  \E f : Cancels(f, n, L, ids)
<1> DEFINE Upto(m) == \E f : Cancels(f, m, L, ids)
           T == {m \in 0 .. n : Upto(m)}
<1>0. \A m \in 0 .. n : m \in T <=> Upto(m)
  OBVIOUS
<1>1. 0 \in T
  <2> DEFINE f == [k \in 0 .. 0 |-> L]
  <2>1. f = [k \in 0 .. 0 |-> IF k = 0 THEN L ELSE CancelStep(f[k - 1], ids[k])]
    OBVIOUS
  <2>2. Upto(0)
    BY <2>1 DEF Cancels
  <2> HIDE DEF Upto, T
  <2>3. 0 \in 0 .. n
    OBVIOUS
  <2> QED
    BY <1>0, <2>2, <2>3
<1>2. ASSUME NEW m \in 0 .. n, m < n, m \in T
      PROVE  m + 1 \in T
  <2>1. PICK f : f = [k \in 0 .. m |-> IF k = 0 THEN L ELSE CancelStep(f[k - 1], ids[k])]
    BY <1>0, <1>2 DEF Cancels
  <2> DEFINE v == CancelStep(f[m], ids[m + 1])
             g == [k \in 0 .. m + 1 |-> IF k = m + 1 THEN v ELSE f[k]]
  <2>2. m \in Nat
    OBVIOUS
  <2> HIDE DEF v
  <2>3. ASSUME NEW k \in 0 .. m + 1
        PROVE  g[k] = IF k = 0 THEN L ELSE CancelStep(g[k - 1], ids[k])
    <3>1. CASE k = m + 1
      <4>1. g[k] = v /\ k # 0 /\ k - 1 = m /\ g[k - 1] = f[m]
        BY <2>2, <3>1
      <4> HIDE DEF g
      <4>2. CancelStep(g[k - 1], ids[k]) = v
        BY <3>1, <4>1 DEF v
      <4> QED
        BY <4>1, <4>2
    <3>2. CASE k # m + 1
      <4>1. k \in 0 .. m /\ g[k] = f[k] /\ (k # 0 => g[k - 1] = f[k - 1])
        BY <2>2, <3>2
      <4>2. f[k] = IF k = 0 THEN L ELSE CancelStep(f[k - 1], ids[k])
        BY <2>1, <4>1
      <4> HIDE DEF g
      <4> QED
        BY <4>1, <4>2
    <3> QED
      BY <3>1, <3>2
  <2>4. g = [k \in 0 .. m + 1 |-> IF k = 0 THEN L ELSE CancelStep(g[k - 1], ids[k])]
    BY <2>3
  <2>5. Upto(m + 1)
    BY <2>4 DEF Cancels
  <2>6. m + 1 \in 0 .. n
    BY <1>2, <2>2
  <2> HIDE DEF Upto, T
  <2> QED
    BY <1>0, <2>5, <2>6
<1> HIDE DEF T
<1>3. 0 .. n \subseteq T
  BY <1>1, <1>2, Induct
<1>4. n \in T
  BY <1>3
<1> QED
  BY <1>0, <1>4

SendTimerStep(v, i) == Create(v.L, rate # 0, "send", i, pacing_timer, TRUE)

Creates(f, n, d) == f = [k \in 0 .. n |-> IF k = 0 THEN d ELSE SendTimerStep(f[k - 1], k)]

LEMMA CreateRecursion ==
  ASSUME NEW d, NEW n \in Nat
  PROVE  \E f : Creates(f, n, d)
<1> DEFINE Upto(m) == \E f : Creates(f, m, d)
           T == {m \in 0 .. n : Upto(m)}
<1>0. \A m \in 0 .. n : m \in T <=> Upto(m)
  OBVIOUS
<1>1. 0 \in T
  <2> DEFINE f == [k \in 0 .. 0 |-> d]
  <2>1. f = [k \in 0 .. 0 |-> IF k = 0 THEN d ELSE SendTimerStep(f[k - 1], k)]
    OBVIOUS
  <2>2. Upto(0)
    BY <2>1 DEF Creates
  <2> HIDE DEF Upto, T
  <2>3. 0 \in 0 .. n
    OBVIOUS
  <2> QED
    BY <1>0, <2>2, <2>3
<1>2. ASSUME NEW m \in 0 .. n, m < n, m \in T
      PROVE  m + 1 \in T
  <2>1. PICK f : f = [k \in 0 .. m |-> IF k = 0 THEN d ELSE SendTimerStep(f[k - 1], k)]
    BY <1>0, <1>2 DEF Creates
  <2> DEFINE v == SendTimerStep(f[m], m + 1)
             g == [k \in 0 .. m + 1 |-> IF k = m + 1 THEN v ELSE f[k]]
  <2>2. m \in Nat
    OBVIOUS
  <2> HIDE DEF v
  <2>3. ASSUME NEW k \in 0 .. m + 1
        PROVE  g[k] = IF k = 0 THEN d ELSE SendTimerStep(g[k - 1], k)
    <3>1. CASE k = m + 1
      <4>1. g[k] = v /\ k # 0 /\ k - 1 = m /\ g[k - 1] = f[m]
        BY <2>2, <3>1
      <4> HIDE DEF g
      <4>2. SendTimerStep(g[k - 1], k) = v
        BY <3>1, <4>1 DEF v
      <4> QED
        BY <4>1, <4>2
    <3>2. CASE k # m + 1
      <4>1. k \in 0 .. m /\ g[k] = f[k] /\ (k # 0 => g[k - 1] = f[k - 1])
        BY <2>2, <3>2
      <4>2. f[k] = IF k = 0 THEN d ELSE SendTimerStep(f[k - 1], k)
        BY <2>1, <4>1
      <4> HIDE DEF g
      <4> QED
        BY <4>1, <4>2
    <3> QED
      BY <3>1, <3>2
  <2>4. g = [k \in 0 .. m + 1 |-> IF k = 0 THEN d ELSE SendTimerStep(g[k - 1], k)]
    BY <2>3
  <2>5. Upto(m + 1)
    BY <2>4 DEF Creates
  <2>6. m + 1 \in 0 .. n
    BY <1>2, <2>2
  <2> HIDE DEF Upto, T
  <2> QED
    BY <1>0, <2>5, <2>6
<1> HIDE DEF T
<1>3. 0 .. n \subseteq T
  BY <1>1, <1>2, Induct
<1>4. n \in T
  BY <1>3
<1> QED
  BY <1>0, <1>4

(* The lists of timers on the way of CancelAll.                             *)
CancelRun(c, L, ids) ==
  /\ c[0] = L /\ c[Len(ids)] = CancelAll(L, ids)
  /\ \A k \in 1 .. Len(ids) :
       c[k] = IF ids[k] = NULL THEN c[k - 1] ELSE tmr_cancel(c[k - 1], ids[k])

LEMMA CancelSteps ==
  ASSUME NEW L, NEW ids, Len(ids) \in Nat
  PROVE  \E c : CancelRun(c, L, ids)
<1> DEFINE n == Len(ids)
           c == CHOOSE c : Cancels(c, n, L, ids)
<1>1. \E f : Cancels(f, n, L, ids)
  BY CancelRecursion
<1>a. Cancels(c, n, L, ids)
  BY <1>1, Zenon
<1>2. c = [k \in 0 .. n |-> IF k = 0 THEN L ELSE CancelStep(c[k - 1], ids[k])]
  BY <1>a DEF Cancels
<1>3. CancelAll(L, ids) = c[n]
  BY Zenon DEF CancelAll, CancelStep, Cancels
<1> HIDE DEF c
<1>4. c[0] = L /\ \A k \in 1 .. n : c[k] = CancelStep(c[k - 1], ids[k])
  BY <1>2
<1>5. \A v, id : CancelStep(v, id) = IF id = NULL THEN v ELSE tmr_cancel(v, id)
  BY DEF CancelStep
<1> QED
  BY <1>3, <1>4, <1>5 DEF CancelRun

LEMMA SendTimerSteps ==
  ASSUME NEW d
  PROVE  LET e == iperf_create_send_timers(d) IN
         e[0] = d /\ \A i \in Streams : e[i] = SendTimerStep(e[i - 1], i)
<1> DEFINE n == num_streams
           e == CHOOSE e : Creates(e, n, d)
<1>0. n \in Nat /\ Streams = 1 .. n
  BY StreamAssumption DEF Streams
<1>1. \E f : Creates(f, n, d)
  BY <1>0, CreateRecursion
<1>a. Creates(e, n, d)
  BY <1>1, Zenon
<1>2. e = [k \in 0 .. n |-> IF k = 0 THEN d ELSE SendTimerStep(e[k - 1], k)]
  BY <1>a DEF Creates
<1>3. iperf_create_send_timers(d) = e
  BY Zenon DEF iperf_create_send_timers, SendTimerStep, Creates
<1> HIDE DEF e
<1>4. e[0] = d /\ \A k \in 1 .. n : e[k] = SendTimerStep(e[k - 1], k)
  BY <1>0, <1>2
<1> QED
  BY <1>0, <1>3, <1>4

(* Only the values of the pointers matter.                                  *)
LEMMA LinkedSame ==
  ASSUME NEW L, NEW K, Linked(L, K), NEW M, DOMAIN M = Slots, \A s \in Slots : M[s] = K[s]
  PROVE  Linked(L, M)
  BY DEF Linked

(* The pointers that are left after the first k of ids are cancelled.       *)
Without(K, ids, k) ==
  [s \in Slots |-> IF \E j \in 1 .. k : K[s] = ids[j] THEN NULL ELSE K[s]]

LEMMA CancelLinked ==
  ASSUME NEW L, NEW K, Linked(L, K), NEW ids, Len(ids) \in Nat,
         \A k \in 1 .. Len(ids) : ids[k] = NULL \/ \E s \in Slots : K[s] = ids[k],
         \A j, k \in 1 .. Len(ids) : j # k /\ ids[j] = ids[k] => ids[j] = NULL
  PROVE  Linked(CancelAll(L, ids), Without(K, ids, Len(ids)))
<1> DEFINE n == Len(ids)
<1>0. PICK c : CancelRun(c, L, ids)
  BY CancelSteps
<1>1. /\ c[0] = L /\ c[n] = CancelAll(L, ids)
      /\ \A k \in 1 .. n :
           c[k] = IF ids[k] = NULL THEN c[k - 1] ELSE tmr_cancel(c[k - 1], ids[k])
  BY <1>0 DEF CancelRun
<1> DEFINE T == {k \in 0 .. n : Linked(c[k], Without(K, ids, k))}
<1>2. 0 \in T
  <2>1. Linked(c[0], Without(K, ids, 0))
    BY <1>1, LinkedSame DEF Without
  <2> QED
    BY <2>1
<1>3. ASSUME NEW k \in 0 .. n, k < n, k \in T
      PROVE  k + 1 \in T
  <2> DEFINE W == Without(K, ids, k)
             V == Without(K, ids, k + 1)
             R == c[k + 1]
             id == ids[k + 1]
  <2>1. Linked(c[k], W) /\ k + 1 \in 1 .. n /\ k \in Nat
    BY <1>3
  <2>2. R = IF id = NULL THEN c[k] ELSE tmr_cancel(c[k], id)
    BY <1>1, <2>1
  <2>3. DOMAIN V = Slots
    BY DEF Without
  <2>4. ASSUME id = NULL
        PROVE  Linked(R, V)
    <3>1. \A s \in Slots : V[s] = W[s]
      BY <2>1, <2>4 DEF Without
    <3>2. R = c[k]
      BY <2>2, <2>4
    <3> HIDE DEF V, W, R
    <3> QED
      BY <2>1, <2>3, <3>1, <3>2, LinkedSame
  <2>5. ASSUME id # NULL
        PROVE  Linked(R, V)
    <3>1. PICK s \in Slots : K[s] = id
      BY <2>1, <2>5
    <3>2. \A j \in 1 .. k : ids[j] # id
      BY <2>1, <2>5
    <3>3. W[s] = id
      BY <3>1, <3>2 DEF Without
    <3>4. \A t \in Slots : K[t] = id => t = s
      BY <2>5, <3>1, LinkedNames
    <3>5. \A t \in Slots : V[t] = IF t = s THEN NULL ELSE W[t]
      <4>1. \A j \in 1 .. k + 1 : j = k + 1 \/ j \in 1 .. k
        BY <2>1
      <4>2. \A j \in 1 .. k : j \in 1 .. k + 1
        BY <2>1
      <4> QED
        BY <2>1, <3>1, <3>4, <4>1, <4>2 DEF Without
    <3> HIDE DEF V, W, R
    <3>6. PICK x \in Act(c[k]) : Slot(x) = s /\ x.id = id
      BY <2>1, <2>5, <3>3, LinkedNames
    <3>7. Good(c[k]) /\ R = tmr_cancel(c[k], x.id)
      BY <2>1, <2>2, <2>5, <3>6 DEF Linked
    <3>8. Good(R) /\ Act(R) = Act(c[k]) \ {x}
      BY <3>7, CancelTimer
    <3> DEFINE M == [W EXCEPT ![s] = NULL]
    <3>9. Linked(R, M)
      BY <2>1, <3>6, <3>8, LinkedCancel
    <3>10. DOMAIN W = Slots
      BY DEF W, Without
    <3>11. \A t \in Slots : V[t] = M[t]
      BY <3>5, <3>10
    <3> HIDE DEF M
    <3> QED
      BY <2>3, <3>9, <3>11, LinkedSame
  <2>6. Linked(c[k + 1], Without(K, ids, k + 1))
    BY <2>4, <2>5
  <2>7. k + 1 \in 0 .. n
    BY <2>1
  <2> QED
    BY <2>6, <2>7
<1>4. n \in T
  <2>1. n \in Nat
    OBVIOUS
  <2> HIDE DEF T, n
  <2>2. 0 .. n \subseteq T
    BY <1>2, <1>3, <2>1, Induct
  <2> QED
    BY <2>1, <2>2
<1> QED
  BY <1>1, <1>4

(* The slot s has no timer yet and can get this one.                        *)
Vacant(L, K, s, proc, data, usecs, periodic) ==
  /\ Linked(L, K) /\ Fresh(L) /\ K[s] = NULL /\ s \in Slots /\ s = <<proc, data>>
  /\ proc \in Procs /\ data \in Nat /\ usecs \in Nat /\ periodic \in BOOLEAN
  /\ (periodic <=> Repeats(s))

(* The timer that is made, if it is.                                        *)
Made(L, wanted, proc, usecs, R) ==
  /\ wanted => R.id # NULL
  /\ \A c \in Act(R.L) : \/ c \in Act(L)
                         \/ wanted /\ c.proc = proc /\ Us(c) = iperf_time_in_usecs(Now) + usecs
  /\ Kept(L, R.L)
  /\ wanted => Joined(L, proc, usecs, iperf_time_in_usecs(Now) + usecs, R.L)

LEMMA CreateLinked ==
  ASSUME clock \in Nat, NEW L, NEW K, NEW s, NEW proc, NEW data, NEW usecs, NEW periodic,
         Vacant(L, K, s, proc, data, usecs, periodic),
         NEW wanted, NEW R, R = Create(L, wanted, proc, data, usecs, periodic)
  PROVE  /\ Linked(R.L, [K EXCEPT ![s] = R.id]) /\ Fresh(R.L)
         /\ Made(L, wanted, proc, usecs, R)
<1>1. Now \in Time
  BY NowType
<1>0. /\ Linked(L, K) /\ Fresh(L) /\ K[s] = NULL /\ s \in Slots /\ s = <<proc, data>>
      /\ proc \in Procs /\ data \in Nat /\ usecs \in Nat /\ periodic \in BOOLEAN
      /\ (periodic <=> Repeats(s))
  BY DEF Vacant
<1>2. CASE wanted
  <2>1. R.L = tmr_create(L, Now, proc, data, usecs, periodic) /\ R.id = NewCell(L)
    BY <1>2 DEF Create
  <2> QED
    <3>1. /\ Linked(R.L, [K EXCEPT ![s] = NewCell(L)]) /\ Fresh(R.L) /\ NewCell(L) # NULL
          /\ \A c \in Act(R.L) : \/ c \in Act(L)
                                 \/ c.proc = proc /\ Us(c) = iperf_time_in_usecs(Now) + usecs
          /\ Kept(L, R.L) /\ Joined(L, proc, usecs, iperf_time_in_usecs(Now) + usecs, R.L)
      BY <1>0, <1>1, <2>1, CreateTimer
    <3> QED
      BY <1>2, <2>1, <3>1 DEF Made
<1>3. CASE ~wanted
  <2>1. R.L = L /\ R.id = NULL
    BY <1>3 DEF Create
  <2>2. DOMAIN K = Slots
    BY <1>0 DEF Linked
  <2> DEFINE M == [K EXCEPT ![s] = NULL]
  <2>3. DOMAIN M = Slots /\ \A t \in Slots : M[t] = K[t]
    BY <1>0, <2>2
  <2>4. M = [K EXCEPT ![s] = R.id]
    BY <2>1
  <2> HIDE DEF M
  <2>5. Linked(L, M)
    BY <1>0, <2>3, LinkedSame
  <2>6. Made(L, wanted, proc, usecs, R)
    BY <1>3, <2>1 DEF Made, Kept
  <2> QED
    BY <1>0, <2>1, <2>4, <2>5, <2>6
<1> QED
  BY <1>2, <1>3

---------------------------------------------------------------------------------
(* The pointers that the program keeps: those of test, as P, and those of   *)
(* the streams f.                                                           *)

TestSlot == <<"test", 0>>

StatsSlot == <<"stats", 0>>

ReporterSlot == <<"reporter", 0>>

OmitSlot == <<"omit", 0>>

SendSlot(i) == <<"send", i>>

LEMMA SlotCases ==
  /\ {TestSlot, StatsSlot, ReporterSlot, OmitSlot} \subseteq Slots
  /\ \A i \in Streams : SendSlot(i) \in Slots
  /\ \A s \in Slots : \/ s \in {TestSlot, StatsSlot, ReporterSlot, OmitSlot}
                      \/ \E i \in Streams : s = SendSlot(i)
  BY DEF Slots, TestSlot, StatsSlot, ReporterSlot, OmitSlot, SendSlot

LEMMA SlotsDiffer ==
  /\ TestSlot # StatsSlot /\ TestSlot # ReporterSlot /\ TestSlot # OmitSlot
  /\ StatsSlot # ReporterSlot /\ StatsSlot # OmitSlot /\ ReporterSlot # OmitSlot
  /\ \A i : SendSlot(i) \notin {TestSlot, StatsSlot, ReporterSlot, OmitSlot}
  /\ \A i, j : SendSlot(i) = SendSlot(j) => i = j
  BY DEF TestSlot, StatsSlot, ReporterSlot, OmitSlot, SendSlot

LEMMA SlotsRepeat ==
  /\ ~Repeats(TestSlot) /\ ~Repeats(OmitSlot) /\ Repeats(StatsSlot) /\ Repeats(ReporterSlot)
  /\ \A i : Repeats(SendSlot(i))
  BY DEF Repeats, TestSlot, StatsSlot, ReporterSlot, OmitSlot, SendSlot

Held(P, f) ==
  [s \in Slots |-> CASE s[1] = "test" -> P.timer [] s[1] = "stats" -> P.stats
                     [] s[1] = "reporter" -> P.reporter [] s[1] = "omit" -> P.omit
                     [] OTHER -> f[s[2]].send_timer]

(* What Held says, slot by slot.                                            *)
Holds(K, P, f) ==
  /\ DOMAIN K = Slots
  /\ K[TestSlot] = P.timer /\ K[StatsSlot] = P.stats /\ K[ReporterSlot] = P.reporter
  /\ K[OmitSlot] = P.omit /\ \A i \in Streams : K[SendSlot(i)] = f[i].send_timer

LEMMA HeldHolds ==
  ASSUME NEW P, NEW f
  PROVE  Holds(Held(P, f), P, f)
<1>1. DOMAIN Held(P, f) = Slots
  BY DEF Held
<1>2. /\ Held(P, f)[TestSlot] = P.timer /\ Held(P, f)[StatsSlot] = P.stats
      /\ Held(P, f)[ReporterSlot] = P.reporter /\ Held(P, f)[OmitSlot] = P.omit
  BY SlotCases DEF Held, TestSlot, StatsSlot, ReporterSlot, OmitSlot
<1>3. \A i \in Streams : Held(P, f)[SendSlot(i)] = f[i].send_timer
  BY SlotCases DEF Held, SendSlot
<1> QED
  BY <1>1, <1>2, <1>3 DEF Holds

LEMMA HoldsHeld ==
  ASSUME NEW L, NEW K, NEW P, NEW f, Linked(L, K), Holds(K, P, f)
  PROVE  Linked(L, Held(P, f))
<1> DEFINE H == Held(P, f)
<1>1. Holds(H, P, f)
  BY HeldHolds
<1> HIDE DEF H
<1>2. DOMAIN H = Slots /\ \A s \in Slots : H[s] = K[s]
  BY <1>1, SlotCases DEF Holds
<1>3. Linked(L, H)
  BY <1>2, LinkedSame
<1> QED
  BY <1>3 DEF H

(* The timers of the start of a test, with names for what each tmr_create   *)
(* leaves.                                                                  *)
Timers(last, first, a, b, c, d) ==
  /\ a = Create(NoTimers, duration # 0, "test", NULL, last, FALSE)
  /\ b = Create(a.L, stats_interval # 0, "stats", NULL, stats_interval, TRUE)
  /\ c = Create(b.L, reporter_interval # 0, "reporter", NULL, reporter_interval, TRUE)
  /\ d = Create(c.L, omit # 0, "omit", NULL, first, FALSE)

(* When the test and the omit timer of a side that starts now are due.      *)
Planned(L, last, first) ==
  \A c \in Act(L) :
    /\ c.proc = "test" => duration # 0 /\ Us(c) = iperf_time_in_usecs(Now) + last
    /\ c.proc = "omit" => Us(c) = iperf_time_in_usecs(Now) + first

(* The statistics and the reporter timer of a list, due together and in     *)
(* this order.                                                              *)
Pair(L, x, y) ==
  /\ x \in Act(L) /\ x.proc = "stats" /\ x.usecs = stats_interval
  /\ y \in Act(L) /\ y.proc = "reporter" /\ y.usecs = stats_interval

Level(L, x, y) == Us(x) = Us(y) /\ Before(L.active, x.id, y.id)

Paired(L) ==
  stats_interval # 0 /\ reporter_interval = stats_interval =>
    \E x, y \in Act(L) : Pair(L, x, y) /\ Level(L, x, y)

LEMMA KeptPaired ==
  ASSUME NEW L, NEW R, Kept(L, R), Paired(L)
  PROVE  Paired(R)
  BY DEF Kept, Paired, Pair, Level

LEMMA StartTimers ==
  ASSUME TrafficTyped, NEW last \in Nat, NEW first \in Nat, NEW a, NEW b, NEW c, NEW d,
         Timers(last, first, a, b, c, d)
  PROVE  \E K : /\ Linked(d.L, K) /\ Fresh(d.L)
                /\ K[TestSlot] = a.id /\ K[StatsSlot] = b.id /\ K[ReporterSlot] = c.id
                /\ K[OmitSlot] = d.id /\ \A i \in Streams : K[SendSlot(i)] = NULL
                /\ Planned(d.L, last, first) /\ (omit # 0 => d.id # NULL) /\ Paired(d.L)
<1> DEFINE K0 == [s \in Slots |-> NULL]
           K1 == [K0 EXCEPT ![TestSlot] = a.id]
           K2 == [K1 EXCEPT ![StatsSlot] = b.id]
           K3 == [K2 EXCEPT ![ReporterSlot] = c.id]
           K4 == [K3 EXCEPT ![OmitSlot] = d.id]
<1>1. Linked(NoTimers, K0) /\ Fresh(NoTimers) /\ Planned(NoTimers, last, first)
  <2>1. /\ NoTimers.active = <<>> /\ NoTimers.free = <<>>
        /\ NoTimers = [active |-> NoTimers.active, free |-> NoTimers.free]
    BY DEF NoTimers
  <2>2. Members(<<>>) = {} /\ <<>> \in Seq(Cells) /\ Sorted(<<>>) /\ Distinct(<<>>)
    BY DEF Members, Distinct, Sorted
  <2>3. Act(NoTimers) = {}
    BY <2>1, <2>2 DEF Act
  <2>4. Good(NoTimers)
    BY <2>1, <2>2, <2>3 DEF Good
  <2> QED
    BY <2>1, <2>3, <2>4 DEF Linked, Fresh, Planned
<1>2. clock \in Nat /\ NULL \in Nat /\ stats_interval \in Nat /\ reporter_interval \in Nat
  BY TrafficAssumption DEF TrafficTyped, NULL
<1>3. /\ TestSlot = <<"test", NULL>> /\ StatsSlot = <<"stats", NULL>>
      /\ ReporterSlot = <<"reporter", NULL>> /\ OmitSlot = <<"omit", NULL>>
  BY DEF TestSlot, StatsSlot, ReporterSlot, OmitSlot, NULL
<1>4. DOMAIN K0 = Slots /\ \A s \in Slots : K0[s] = NULL
  OBVIOUS
<1>5. /\ DOMAIN K1 = Slots
      /\ \A s \in Slots : K1[s] = IF s = TestSlot THEN a.id ELSE NULL
  BY <1>4
<1>6. Linked(a.L, K1) /\ Fresh(a.L) /\ Planned(a.L, last, first)
  <2>1. TestSlot \in Slots /\ TestSlot = <<"test", NULL>> /\ (FALSE <=> Repeats(TestSlot))
    BY <1>3, SlotCases, SlotsRepeat
  <2>2. K0[TestSlot] = NULL
    BY <1>4, SlotCases, SlotsDiffer
  <2>3. FALSE \in BOOLEAN /\ "test" \in Procs
    BY DEF Procs
  <2> HIDE DEF K0
  <2>4. Vacant(NoTimers, K0, TestSlot, "test", NULL, last, FALSE)
    BY <1>1, <1>2, <2>1, <2>2, <2>3, Zenon DEF Vacant
  <2>5. a = Create(NoTimers, duration # 0, "test", NULL, last, FALSE)
    BY DEF Timers
  <2>6. /\ Linked(a.L, K1) /\ Fresh(a.L)
        /\ Made(NoTimers, duration # 0, "test", last, a)
    BY <1>2, <2>4, <2>5, CreateLinked
  <2> QED
    BY <1>1, <2>6 DEF Made, Planned
<1> HIDE DEF K1
<1>7. /\ DOMAIN K2 = Slots
      /\ \A s \in Slots : K2[s] = IF s = StatsSlot THEN b.id ELSE K1[s]
  BY <1>5
<1> DEFINE u == iperf_time_in_usecs(Now) + stats_interval
<1>8. /\ Linked(b.L, K2) /\ Fresh(b.L) /\ Planned(b.L, last, first)
      /\ stats_interval # 0 => Joined(a.L, "stats", stats_interval, u, b.L)
  <2>1. StatsSlot \in Slots /\ StatsSlot = <<"stats", NULL>> /\ (TRUE <=> Repeats(StatsSlot))
    BY <1>3, SlotCases, SlotsRepeat
  <2>2. K1[StatsSlot] = NULL
    BY <1>5, SlotCases, SlotsDiffer
  <2>3. TRUE \in BOOLEAN /\ "stats" \in Procs
    BY DEF Procs
  <2> HIDE DEF K1
  <2>4. Vacant(a.L, K1, StatsSlot, "stats", NULL, stats_interval, TRUE)
    BY <1>6, <1>2, <2>1, <2>2, <2>3, Zenon DEF Vacant
  <2>5. b = Create(a.L, stats_interval # 0, "stats", NULL, stats_interval, TRUE)
    BY DEF Timers
  <2>6. /\ Linked(b.L, K2) /\ Fresh(b.L)
        /\ Made(a.L, stats_interval # 0, "stats", stats_interval, b)
    BY <1>2, <2>4, <2>5, CreateLinked
  <2> QED
    BY <1>6, <2>6 DEF Made, Planned
<1> HIDE DEF K2
<1>9. /\ DOMAIN K3 = Slots
      /\ \A s \in Slots : K3[s] = IF s = ReporterSlot THEN c.id ELSE K2[s]
  BY <1>7
<1>10. Linked(c.L, K3) /\ Fresh(c.L) /\ Planned(c.L, last, first) /\ Paired(c.L)
  <2>1. ReporterSlot \in Slots /\ ReporterSlot = <<"reporter", NULL>> /\ (TRUE <=> Repeats(ReporterSlot))
    BY <1>3, SlotCases, SlotsRepeat
  <2>2. K2[ReporterSlot] = NULL
    BY <1>5, <1>7, SlotCases, SlotsDiffer
  <2>3. TRUE \in BOOLEAN /\ "reporter" \in Procs
    BY DEF Procs
  <2> HIDE DEF K2
  <2>4. Vacant(b.L, K2, ReporterSlot, "reporter", NULL, reporter_interval, TRUE)
    BY <1>8, <1>2, <2>1, <2>2, <2>3, Zenon DEF Vacant
  <2>5. c = Create(b.L, reporter_interval # 0, "reporter", NULL, reporter_interval, TRUE)
    BY DEF Timers
  <2>6. /\ Linked(c.L, K3) /\ Fresh(c.L)
        /\ Made(b.L, reporter_interval # 0, "reporter", reporter_interval, c)
    BY <1>2, <2>4, <2>5, CreateLinked
  <2>7. ASSUME stats_interval # 0, reporter_interval = stats_interval
        PROVE  \E x, y \in Act(c.L) : Pair(c.L, x, y) /\ Level(c.L, x, y)
    <3>1. PICK x \in Act(b.L) : x.proc = "stats" /\ x.usecs = stats_interval /\ Us(x) = u
      BY <1>8, <2>7 DEF Joined
    <3>2. PICK y \in Act(c.L) :
            /\ y.proc = "reporter" /\ y.usecs = stats_interval /\ Us(y) = u
            /\ \A e \in Act(b.L) : Us(e) <= u => Before(c.L.active, e.id, y.id)
      BY <2>6, <2>7 DEF Made, Joined
    <3>3. x \in Act(c.L)
      BY <2>6 DEF Made, Kept
    <3>4. u \in Nat
      <4>1. iperf_time_in_usecs(Now) \in Nat
        BY <1>2, NowType, CompareTimes
      <4> QED
        BY <1>2, <4>1
    <3>5. Before(c.L.active, x.id, y.id)
      <4> HIDE DEF u
      <4> QED
        BY <3>1, <3>2, <3>4
    <3> HIDE DEF u
    <3> QED
      BY <3>1, <3>2, <3>3, <3>5 DEF Pair, Level
  <2>8. Planned(c.L, last, first)
    BY <1>8, <2>6 DEF Made, Planned
  <2> QED
    BY <2>6, <2>7, <2>8 DEF Paired
<1> HIDE DEF K3
<1>11. /\ DOMAIN K4 = Slots
       /\ \A s \in Slots : K4[s] = IF s = OmitSlot THEN d.id ELSE K3[s]
  BY <1>9
<1>12. /\ Linked(d.L, K4) /\ Fresh(d.L) /\ Planned(d.L, last, first) /\ (omit # 0 => d.id # NULL)
       /\ Paired(d.L)
  <2>1. OmitSlot \in Slots /\ OmitSlot = <<"omit", NULL>> /\ (FALSE <=> Repeats(OmitSlot))
    BY <1>3, SlotCases, SlotsRepeat
  <2>2. K3[OmitSlot] = NULL
    BY <1>5, <1>7, <1>9, SlotCases, SlotsDiffer
  <2>3. FALSE \in BOOLEAN /\ "omit" \in Procs
    BY DEF Procs
  <2> HIDE DEF K3
  <2>4. Vacant(c.L, K3, OmitSlot, "omit", NULL, first, FALSE)
    BY <1>10, <1>2, <2>1, <2>2, <2>3, Zenon DEF Vacant
  <2>5. d = Create(c.L, omit # 0, "omit", NULL, first, FALSE)
    BY DEF Timers
  <2>6. /\ Linked(d.L, K4) /\ Fresh(d.L)
        /\ Made(c.L, omit # 0, "omit", first, d)
    BY <1>2, <2>4, <2>5, CreateLinked
  <2>7. Paired(d.L)
    BY <1>10, <2>6, KeptPaired DEF Made
  <2> QED
    BY <1>10, <2>6, <2>7 DEF Made, Planned
<1> HIDE DEF K4, K0
<1>13. /\ K4[TestSlot] = a.id /\ K4[StatsSlot] = b.id /\ K4[ReporterSlot] = c.id
       /\ K4[OmitSlot] = d.id
  BY <1>5, <1>7, <1>9, <1>11, SlotCases, SlotsDiffer
<1>14. ASSUME NEW i \in Streams
       PROVE  K4[SendSlot(i)] = NULL
  <2>1. SendSlot(i) \in Slots
    BY SlotCases
  <2>2. /\ SendSlot(i) # TestSlot /\ SendSlot(i) # StatsSlot /\ SendSlot(i) # ReporterSlot
        /\ SendSlot(i) # OmitSlot
    BY SlotsDiffer
  <2> QED
    BY <1>5, <1>7, <1>9, <1>11, <2>1, <2>2
<1> QED
  BY <1>12, <1>13, <1>14

(* The pacing timers are added.                                             *)
LEMMA StartSendTimers ==
  ASSUME TrafficTyped, NEW d, NEW K, Linked(d.L, K), Fresh(d.L),
         \A i \in Streams : K[SendSlot(i)] = NULL, NEW e, e = iperf_create_send_timers(d)
  PROVE  \E M : /\ Linked(e[num_streams].L, M)
                /\ \A i \in Streams : M[SendSlot(i)] = e[i].id
                /\ \A s \in {TestSlot, StatsSlot, ReporterSlot, OmitSlot} : M[s] = K[s]
                /\ \A c \in Act(e[num_streams].L) : c.proc # "send" => c \in Act(d.L)
                /\ Kept(d.L, e[num_streams].L)
<1> DEFINE n == num_streams
           M(k) == [s \in Slots |-> IF \E i \in 1 .. k : s = SendSlot(i) THEN e[s[2]].id ELSE K[s]]
           old(k) == /\ \A c \in Act(e[k].L) : c.proc # "send" => c \in Act(d.L)
                     /\ Kept(d.L, e[k].L)
           T == {k \in 0 .. n : Linked(e[k].L, M(k)) /\ Fresh(e[k].L) /\ old(k)}
<1>1. n \in Nat /\ Streams = 1 .. n /\ n \in Streams
  BY StreamAssumption DEF Streams
<1>2. e[0] = d /\ \A i \in Streams : e[i] = SendTimerStep(e[i - 1], i)
  BY SendTimerSteps
<1>3. 0 \in T
  <2>1. DOMAIN M(0) = Slots /\ \A s \in Slots : M(0)[s] = K[s]
    OBVIOUS
  <2> HIDE DEF M
  <2>2. Linked(e[0].L, M(0)) /\ Fresh(e[0].L) /\ old(0)
    BY <1>2, <2>1, LinkedSame DEF Kept
  <2> QED
    BY <1>1, <2>2
<1>4. ASSUME NEW k \in 0 .. n, k < n, k \in T
      PROVE  k + 1 \in T
  <2> DEFINE i == k + 1
             R == e[k + 1]
  <2>1. k \in Nat /\ i \in Streams /\ i - 1 = k /\ i \in 0 .. n
    <3> HIDE DEF T
    <3> QED
      BY <1>1, <1>4
  <2>2. Linked(e[k].L, M(k)) /\ Fresh(e[k].L) /\ old(k)
    BY <1>4
  <2>3. R = SendTimerStep(e[i - 1], i)
    BY <1>2, <2>1
  <2>4. R = Create(e[k].L, rate # 0, "send", i, pacing_timer, TRUE)
    BY <2>1, <2>3 DEF SendTimerStep
  <2>5. M(k)[SendSlot(i)] = NULL /\ SendSlot(i) \in Slots
    <3>1. \A j \in 1 .. k : SendSlot(j) # SendSlot(i)
      BY <2>1, SlotsDiffer
    <3> QED
      BY <2>1, <3>1, SlotCases
  <2>6. /\ SendSlot(i) = <<"send", i>> /\ i \in Nat /\ clock \in Nat /\ pacing_timer \in Nat
    BY <2>1, TrafficAssumption DEF SendSlot, TrafficTyped
  <2>a. (TRUE <=> Repeats(SendSlot(i))) /\ TRUE \in BOOLEAN
    BY SlotsRepeat
  <2>b. "send" \in Procs
    BY DEF Procs
  <2> DEFINE N == [M(k) EXCEPT ![SendSlot(i)] = R.id]
  <2>7. Linked(R.L, N) /\ Fresh(R.L) /\ Made(e[k].L, rate # 0, "send", pacing_timer, R)
    <3> DEFINE Mk == M(k)
    <3>1. Linked(e[k].L, Mk) /\ Mk[SendSlot(i)] = NULL
      BY <2>2, <2>5
    <3> HIDE DEF Mk, M, R, i
    <3>2. /\ Linked(R.L, [Mk EXCEPT ![SendSlot(i)] = R.id]) /\ Fresh(R.L)
          /\ Made(e[k].L, rate # 0, "send", pacing_timer, R)
      <4>1. Vacant(e[k].L, Mk, SendSlot(i), "send", i, pacing_timer, TRUE)
        BY <2>2, <2>5, <2>6, <2>a, <2>b, <3>1, Zenon DEF Vacant
      <4> QED
        BY <2>4, <2>6, <4>1, CreateLinked
    <3> QED
      BY <3>2 DEF Mk
  <2>8. DOMAIN M(k + 1) = Slots /\ \A s \in Slots : M(k + 1)[s] = N[s]
    <3>1. \A j \in 1 .. k + 1 : j = i \/ j \in 1 .. k
      BY <2>1
    <3>2. \A j \in 1 .. k : j \in 1 .. k + 1
      BY <2>1
    <3>3. i \in 1 .. k + 1 /\ SendSlot(i)[2] = i
      BY <2>1 DEF SendSlot
    <3>4. ASSUME NEW s \in Slots
          PROVE  M(k + 1)[s] = N[s]
      <4>1. CASE s = SendSlot(i)
        BY <3>3, <4>1
      <4>2. CASE s # SendSlot(i)
        BY <3>1, <3>2, <4>2
      <4> QED
        BY <4>1, <4>2
    <3> QED
      BY <3>4
  <2> HIDE DEF M, N, R
  <2>9. Linked(R.L, M(k + 1))
    BY <2>7, <2>8, LinkedSame
  <2>10. old(k + 1)
    BY <2>2, <2>7 DEF Made, Kept, R
  <2> HIDE DEF old
  <2> QED
    BY <2>1, <2>7, <2>9, <2>10 DEF R
<1>5. n \in T
  <2> HIDE DEF T
  <2>1. 0 .. n \subseteq T
    BY <1>1, <1>3, <1>4, Induct
  <2> QED
    BY <1>1, <2>1
<1>6. \A i \in Streams : M(n)[SendSlot(i)] = e[i].id
  <2>1. \A i \in Streams : SendSlot(i)[2] = i
    BY DEF SendSlot
  <2> QED
    BY <1>1, <2>1, SlotCases
<1>7. \A s \in {TestSlot, StatsSlot, ReporterSlot, OmitSlot} : M(n)[s] = K[s]
  BY SlotCases, SlotsDiffer
<1>8. Linked(e[n].L, M(n)) /\ old(n)
  BY <1>5
<1> HIDE DEF M
<1> QED
  BY <1>6, <1>7, <1>8

---------------------------------------------------------------------------------
(* The lists of timers and the pointers of the two sides.                   *)

NotYet == {"connect", "wait", "accept", "ready"}

PtrFields == {"timer", "stats", "reporter", "omit"}

SideTimers(p) ==
  /\ Linked(tmr[p], Held(ptr[p], st[p])) /\ DOMAIN ptr[p] = PtrFields
  /\ pc[p] \in NotYet => tmr[p] = NoTimers
  /\ ptr[p].omit # NULL => omitting[p]

TimersInv ==
  /\ DOMAIN tmr = Sides /\ DOMAIN ptr = Sides /\ DOMAIN pc = Sides
  /\ \A p \in Sides : SideTimers(p)
  /\ pc["server"] = "end" => Act(tmr["server"]) = {}

LEMMA NoTimersLinked ==
  ASSUME NEW K, DOMAIN K = Slots, \A s \in Slots : K[s] = NULL
  PROVE  Linked(NoTimers, K) /\ Act(NoTimers) = {}
<1>1. /\ NoTimers.active = <<>> /\ NoTimers.free = <<>>
      /\ NoTimers = [active |-> NoTimers.active, free |-> NoTimers.free]
  BY DEF NoTimers
<1>2. Members(<<>>) = {} /\ <<>> \in Seq(Cells) /\ Sorted(<<>>) /\ Distinct(<<>>)
  BY DEF Members, Distinct, Sorted
<1>3. Act(NoTimers) = {}
  BY <1>1, <1>2 DEF Act
<1>4. Good(NoTimers)
  BY <1>1, <1>2, <1>3 DEF Good
<1> QED
  BY <1>3, <1>4 DEF Linked

LEMMA TimersInit ==
  ASSUME TrafficInit
  PROVE  TimersInv
<1>1. \A i \in Streams : iperf_new_stream(i).send_timer = NULL
  BY DEF iperf_new_stream
<1>2. ASSUME NEW p \in Sides
      PROVE  SideTimers(p)
  <2>1. tmr[p] = NoTimers /\ ptr[p] = NoPtr /\ \A i \in Streams : st[p][i].send_timer = NULL
    BY <1>1 DEF TrafficInit
  <2> DEFINE K == Held(ptr[p], st[p])
  <2>2. Holds(K, ptr[p], st[p])
    BY HeldHolds
  <2> HIDE DEF K
  <2>3. DOMAIN K = Slots /\ \A s \in Slots : K[s] = NULL
    BY <2>1, <2>2, SlotCases DEF Holds, NoPtr
  <2>4. Linked(NoTimers, K)
    BY <2>3, NoTimersLinked
  <2>5. DOMAIN ptr[p] = PtrFields /\ ptr[p].omit = NULL
    BY <2>1 DEF NoPtr, PtrFields
  <2> QED
    BY <2>1, <2>4, <2>5 DEF SideTimers, K
<1>3. DOMAIN tmr = Sides /\ DOMAIN ptr = Sides /\ DOMAIN pc = Sides /\ pc["server"] = "accept"
  BY DEF TrafficInit, Sides
<1> QED
  BY <1>2, <1>3 DEF TimersInv

(* A step changes the pointers of streams only as it starts a test, frees   *)
(* the streams or ends the test on the server.                              *)
LEMMA KeptSendTimers ==
  ASSUME TrafficTyped, Next
  PROVE  TimersKept \/ ServerStarts \/ ClientStarts \/ ServerTimer \/ ServerEnds
<1>1. Kind
  BY NextKind
<1>2. CASE SameStep
  BY <1>2 DEF SameStep
<1>3. CASE StatsStep
  BY <1>3 DEF StatsStep, TimersKept, Collected
<1>4. CASE OmitStep
  BY <1>4 DEF OmitStep, TimersKept, HasReset
<1>5. CASE SendStep
  <2>1. \A i \in Streams : st'[Snd][i].send_timer = st[Snd][i].send_timer
    BY <1>5 DEF SendStep, HasSent, HasFailed
  <2>2. \A i \in Streams : st'[Rcv][i].send_timer = st[Rcv][i].send_timer
    BY <1>5 DEF SendStep
  <2> QED
    BY <2>1, <2>2, SideOfSender DEF TimersKept
<1>6. CASE ReceiveStep
  <2>1. \A i \in Streams : st'[Rcv][i].send_timer = st[Rcv][i].send_timer
    BY <1>6 DEF ReceiveStep, HasReceived
  <2>2. \A i \in Streams : st'[Snd][i].send_timer = st[Snd][i].send_timer
    BY <1>6 DEF ReceiveStep
  <2> QED
    BY <2>1, <2>2, SideOfSender DEF TimersKept
<1>7. CASE ResultStep
  BY <1>7 DEF ResultStep, TimersKept, HasResults
<1> QED
  BY <1>1, <1>2, <1>3, <1>4, <1>5, <1>6, <1>7 DEF Kind

LEMMA HeldKept ==
  ASSUME NEW L, NEW P, NEW f, NEW g, Linked(L, Held(P, f)),
         \A i \in Streams : g[i].send_timer = f[i].send_timer
  PROVE  Linked(L, Held(P, g))
<1> DEFINE K == Held(P, f)
<1>1. Holds(K, P, f)
  BY HeldHolds
<1> HIDE DEF K
<1>2. Holds(K, P, g)
  BY <1>1 DEF Holds
<1>3. Linked(L, K)
  BY DEF K
<1> QED
  BY <1>2, <1>3, HoldsHeld

(* A step that only moves the program counters.                             *)
LEMMA QuietTimers ==
  ASSUME TimersInv, TimersKept, tmr' = tmr, ptr' = ptr, omitting' = omitting,
         DOMAIN pc' = Sides, \A p \in Sides : pc'[p] \in NotYet => pc[p] \in NotYet,
         pc'["server"] = "end" => pc["server"] = "end"
  PROVE  TimersInv'
<1>1. ASSUME NEW p \in Sides
      PROVE  SideTimers(p)'
  <2>1. SideTimers(p)
    BY DEF TimersInv
  <2>2. Linked(tmr[p], Held(ptr[p], st'[p]))
    BY <2>1, HeldKept DEF SideTimers, TimersKept
  <2> QED
    BY <2>1, <2>2 DEF SideTimers
<1> QED
  BY <1>1 DEF TimersInv

(* A step of side p leaves it with the timers R and the pointers P.         *)
Turn(p, R, P) ==
  /\ DOMAIN tmr' = Sides /\ DOMAIN ptr' = Sides /\ DOMAIN pc' = Sides
  /\ tmr'[p] = R /\ ptr'[p] = P
  /\ \A q \in Sides : q # p =>
       tmr'[q] = tmr[q] /\ ptr'[q] = ptr[q] /\ omitting'[q] = omitting[q] /\ pc'[q] = pc[q]
  /\ pc'[p] \notin NotYet

LEMMA OneSideTimers ==
  ASSUME TimersInv, NEW p \in Sides, NEW R, NEW P, Turn(p, R, P),
         Linked(R, Held(P, st'[p])), DOMAIN P = PtrFields, P.omit # NULL => omitting'[p],
         \A q \in Sides : q # p => \A i \in Streams : st'[q][i].send_timer = st[q][i].send_timer,
         p = "server" /\ pc'["server"] = "end" => Act(R) = {}
  PROVE  TimersInv'
<1>1. /\ DOMAIN tmr' = Sides /\ DOMAIN ptr' = Sides /\ DOMAIN pc' = Sides
      /\ tmr'[p] = R /\ ptr'[p] = P /\ pc'[p] \notin NotYet
      /\ \A q \in Sides : q # p =>
           tmr'[q] = tmr[q] /\ ptr'[q] = ptr[q] /\ omitting'[q] = omitting[q] /\ pc'[q] = pc[q]
  BY DEF Turn
<1>2. SideTimers(p)'
  BY <1>1 DEF SideTimers
<1>3. ASSUME NEW q \in Sides, q # p
      PROVE  SideTimers(q)'
  <2>1. SideTimers(q)
    BY DEF TimersInv
  <2>2. Linked(tmr[q], Held(ptr[q], st'[q]))
    BY <1>3, <2>1, HeldKept DEF SideTimers
  <2> QED
    BY <1>1, <1>3, <2>1, <2>2 DEF SideTimers
<1>4. pc'["server"] = "end" => Act(tmr'["server"]) = {}
  BY <1>1 DEF TimersInv, Sides
<1> QED
  BY <1>1, <1>2, <1>3, <1>4 DEF TimersInv

(* The timer at the cursor, as its callback is called.                      *)
LEMMA FiredCell ==
  ASSUME TimersInv, NEW p \in Sides, NEW proc, Fires(p, proc)
  PROVE  /\ \E c \in Act(tmr[p]) : c.id = cursor /\ c.proc = proc /\ Slot(c) \in Slots
         /\ Good(tmr[p]) /\ Linked(tmr[p], Held(ptr[p], st[p])) /\ DOMAIN ptr[p] = PtrFields
         /\ pc' = pc /\ pc[p] = "tmr_run" /\ pc[p] \notin NotYet
<1>1. Linked(tmr[p], Held(ptr[p], st[p])) /\ DOMAIN ptr[p] = PtrFields
  BY DEF TimersInv, SideTimers
<1>2. Good(tmr[p])
  BY <1>1 DEF Linked
<1>3. cursor \in Ids(tmr[p]) /\ CellOf(tmr[p], cursor).proc = proc /\ pc' = pc /\ pc[p] = "tmr_run"
  BY DEF Fires
<1>4. PICK c \in Act(tmr[p]) : c.id = cursor
  BY <1>2, <1>3, ActiveCells
<1>5. c.proc = proc
  BY <1>2, <1>3, <1>4, ActiveCells
<1>6. Slot(c) \in Slots
  BY <1>1 DEF Linked
<1> QED
  BY <1>1, <1>2, <1>3, <1>4, <1>5, <1>6 DEF NotYet

LEMMA SlotOf ==
  ASSUME NEW c, Slot(c) \in Slots
  PROVE  /\ c.proc = "test" => Slot(c) = TestSlot
         /\ c.proc = "omit" => Slot(c) = OmitSlot
         /\ c.proc = "stats" => Slot(c) = StatsSlot
         /\ c.proc = "reporter" => Slot(c) = ReporterSlot
         /\ c.proc \notin {"test", "omit"} => Repeats(Slot(c))
  BY DEF Slot, Slots, TestSlot, OmitSlot, StatsSlot, ReporterSlot, Repeats

(* A timer that runs again keeps its pointer.                               *)
LEMMA RepeatTimers ==
  ASSUME TimersInv, TimersKept, NEW p \in Sides, NEW proc, Fires(p, proc),
         proc \notin {"test", "omit"}, Puts(p, tmr[p]), ptr' = ptr, omitting' = omitting
  PROVE  TimersInv'
<1> DEFINE L == tmr[p]
           K == Held(ptr[p], st[p])
           R == Reschedule(L, cursor)
<1>1. PICK c \in Act(L) : c.id = cursor /\ c.proc = proc /\ Slot(c) \in Slots
  BY FiredCell
<1>2. Good(L) /\ Linked(L, K) /\ DOMAIN ptr[p] = PtrFields /\ pc' = pc /\ pc[p] = "tmr_run"
  BY FiredCell
<1>3. c.periodic
  <2>1. Repeats(Slot(c))
    BY <1>1, SlotOf
  <2> QED
    BY <1>2, <2>1 DEF Linked
<1>4. Moved(L, c, R)
  BY <1>1, <1>2, <1>3, RescheduleTimer
<1>5. tmr' = [tmr EXCEPT ![p] = R]
  BY DEF Puts
<1>6. DOMAIN tmr = Sides /\ DOMAIN ptr = Sides /\ DOMAIN pc = Sides /\ SideTimers(p)
  BY DEF TimersInv
<1>7. (ptr[p].omit # NULL => omitting'[p]) /\ pc[p] # "end" /\ pc[p] \notin NotYet
  BY <1>2, <1>6 DEF SideTimers, NotYet
<1>8. Turn(p, R, ptr[p])
  BY <1>2, <1>5, <1>6, <1>7 DEF Turn
<1> HIDE DEF L, K, R
<1>9. Linked(R, K)
  BY <1>2, <1>4, LinkedMove
<1>10. Linked(R, Held(ptr[p], st'[p]))
  <2>1. \A i \in Streams : st'[p][i].send_timer = st[p][i].send_timer
    BY DEF TimersKept
  <2> QED
    BY <1>9, <2>1, HeldKept DEF K
<1> QED
  <2>1. \A q \in Sides : q # p => \A i \in Streams : st'[q][i].send_timer = st[q][i].send_timer
    BY DEF TimersKept
  <2>2. ~(p = "server" /\ pc'["server"] = "end")
    BY <1>2, <1>7
  <2> QED
    BY <1>2, <1>7, <1>8, <1>10, <2>1, <2>2, OneSideTimers

(* The timer at the cursor runs out: the callback of the test or the omit   *)
(* timer has cleared its pointer P.                                         *)
LEMMA RunOut ==
  ASSUME NEW L, NEW P, NEW Q, NEW f, NEW g, NEW c \in Act(L), Linked(L, Held(P, f)),
         \A i \in Streams : g[i].send_timer = f[i].send_timer,
         \/ c.proc = "test" /\ Q = [P EXCEPT !.timer = NULL]
         \/ c.proc = "omit" /\ Q = [P EXCEPT !.omit = NULL],
         DOMAIN P = PtrFields
  PROVE  Linked(Reschedule(L, c.id), Held(Q, g)) /\ DOMAIN Q = PtrFields
<1> DEFINE K == Held(P, f)
           R == Reschedule(L, c.id)
           M == [K EXCEPT ![Slot(c)] = NULL]
<1>1. Holds(K, P, f)
  BY HeldHolds
<1>2. Linked(L, K)
  OBVIOUS
<1> HIDE DEF K
<1>3. Slot(c) \in Slots /\ (c.periodic <=> Repeats(Slot(c))) /\ Good(L)
  BY <1>2 DEF Linked
<1>4. Slot(c) = (IF c.proc = "test" THEN TestSlot ELSE OmitSlot) /\ ~c.periodic
  BY <1>3, SlotOf, SlotsRepeat
<1>5. Good(R) /\ Act(R) = Act(L) \ {c}
  BY <1>3, <1>4, RescheduleTimer
<1> HIDE DEF R
<1>6. Linked(R, M)
  BY <1>2, <1>5, LinkedCancel
<1>7. DOMAIN Q = PtrFields
  OBVIOUS
<1>8. /\ DOMAIN M = Slots /\ M[Slot(c)] = NULL
      /\ \A s \in Slots : s # Slot(c) => M[s] = K[s]
  BY <1>1, <1>3 DEF Holds
<1> HIDE DEF M
<1>9. Holds(M, Q, g)
  <2>1. \A i \in Streams : M[SendSlot(i)] = g[i].send_timer
    BY <1>1, <1>4, <1>8, SlotCases, SlotsDiffer DEF Holds
  <2>2. CASE c.proc = "test"
    <3>1. Slot(c) = TestSlot
      BY <1>4, <2>2
    <3>2. Q.timer = NULL /\ Q.stats = P.stats /\ Q.reporter = P.reporter /\ Q.omit = P.omit
      BY <2>2 DEF PtrFields
    <3> QED
      BY <1>1, <1>8, <2>1, <3>1, <3>2, SlotCases, SlotsDiffer DEF Holds
  <2>3. CASE c.proc = "omit"
    <3>1. Slot(c) = OmitSlot
      BY <1>4, <2>3
    <3>2. Q.omit = NULL /\ Q.stats = P.stats /\ Q.reporter = P.reporter /\ Q.timer = P.timer
      BY <2>3 DEF PtrFields
    <3> QED
      BY <1>1, <1>8, <2>1, <3>1, <3>2, SlotCases, SlotsDiffer DEF Holds
  <2> QED
    BY <2>2, <2>3
<1> QED
  BY <1>6, <1>7, <1>9, HoldsHeld DEF R

(* L is what the callback has made of the list.                             *)
LEMMA RunOutTimers ==
  ASSUME TimersInv, omitting \in [Sides -> BOOLEAN], NEW p \in Sides, NEW proc, Fires(p, proc),
         NEW L, Linked(L, Held(ptr[p], st'[p])), Puts(p, L),
         \/ /\ proc = "test" /\ ptr' = [ptr EXCEPT ![p].timer = NULL]
            /\ omitting' = omitting
         \/ /\ proc = "omit" /\ ptr' = [ptr EXCEPT ![p].omit = NULL]
            /\ omitting' = [omitting EXCEPT ![p] = FALSE],
         \A q \in Sides : q # p => \A i \in Streams : st'[q][i].send_timer = st[q][i].send_timer
  PROVE  TimersInv'
<1> DEFINE P == ptr[p]
           Q == ptr'[p]
<1>1. /\ DOMAIN tmr = Sides /\ DOMAIN ptr = Sides /\ DOMAIN pc = Sides /\ SideTimers(p)
      /\ DOMAIN P = PtrFields /\ pc' = pc /\ pc[p] = "tmr_run"
  BY FiredCell DEF TimersInv
<1>2. cursor # NULL /\ cursor = IF proc = "test" THEN P.timer ELSE P.omit
  <2> DEFINE K == Held(P, st[p])
  <2>1. PICK b \in Act(tmr[p]) : b.id = cursor /\ b.proc = proc /\ Slot(b) \in Slots
    BY FiredCell
  <2>2. Linked(tmr[p], K) /\ Good(tmr[p])
    BY FiredCell
  <2>3. Holds(K, P, st[p])
    BY HeldHolds
  <2> HIDE DEF K
  <2>4. K[Slot(b)] = cursor
    BY <2>1, <2>2 DEF Linked
  <2>5. Slot(b) = IF proc = "test" THEN TestSlot ELSE OmitSlot
    BY <2>1, SlotOf
  <2>6. b.id # NULL
    BY <2>2, ActiveCells, CellFields DEF NULL
  <2> QED
    BY <2>1, <2>3, <2>4, <2>5, <2>6 DEF Holds
<1>3. PICK c \in Act(L) : c.id = cursor /\ c.proc = proc
  <2> DEFINE K == Held(P, st'[p])
             s == IF proc = "test" THEN TestSlot ELSE OmitSlot
  <2>1. Holds(K, P, st'[p])
    BY HeldHolds
  <2>2. Linked(L, K)
    OBVIOUS
  <2> HIDE DEF K
  <2>3. s \in Slots /\ K[s] = cursor
    BY <1>2, <2>1, SlotCases DEF Holds
  <2>4. PICK c \in Act(L) : Slot(c) = s /\ c.id = cursor
    BY <1>2, <2>2, <2>3, LinkedNames
  <2>5. c.proc = proc
    BY <2>4 DEF Slot, TestSlot, OmitSlot
  <2> QED
    BY <2>4, <2>5
<1>4. \/ c.proc = "test" /\ Q = [P EXCEPT !.timer = NULL] /\ omitting'[p] = omitting[p]
      \/ c.proc = "omit" /\ Q = [P EXCEPT !.omit = NULL]
  BY <1>1, <1>3
<1>5. /\ Linked(Reschedule(L, cursor), Held(Q, st'[p])) /\ DOMAIN Q = PtrFields
  <2> HIDE DEF P, Q
  <2>1. Linked(L, Held(P, st'[p]))
    BY DEF P
  <2>2. Linked(Reschedule(L, c.id), Held(Q, st'[p])) /\ DOMAIN Q = PtrFields
    BY <1>1, <1>3, <1>4, <2>1, RunOut
  <2> QED
    BY <1>3, <2>2
<1>6. Q.omit # NULL => omitting'[p]
  <2>1. P.omit # NULL => omitting[p]
    BY <1>1 DEF SideTimers
  <2> QED
    BY <1>1, <1>4, <2>1 DEF PtrFields
<1>7. Turn(p, Reschedule(L, cursor), Q)
  BY <1>1 DEF Turn, Puts, NotYet
<1> HIDE DEF Q
<1>8. ~(p = "server" /\ pc'["server"] = "end")
  BY <1>1
<1> QED
  BY <1>5, <1>6, <1>7, <1>8, OneSideTimers

LEMMA TestTimers ==
  ASSUME TrafficTyped, TimersInv, TestTimer
  PROVE  TimersInv'
<1>1. /\ Fires("client", "test") /\ Puts("client", tmr["client"]) /\ "client" \in Sides
      /\ ptr' = [ptr EXCEPT !["client"].timer = NULL] /\ omitting' = omitting /\ st' = st
  BY DEF TestTimer, Sides
<1>2. Linked(tmr["client"], Held(ptr["client"], st'["client"]))
  BY <1>1 DEF TimersInv, SideTimers
<1>3. omitting \in [Sides -> BOOLEAN]
  BY DEF TrafficTyped
<1> QED
  BY <1>1, <1>2, <1>3, RunOutTimers

(* A timer that is pointed to, or none, gets a new time.                    *)
LEMMA ResetLinked ==
  ASSUME clock \in Nat, NEW L, NEW K, Linked(L, K), NEW s \in Slots
  PROVE  Linked(ResetIfSet(L, Now, K[s]), K)
<1>1. CASE K[s] = NULL
  BY <1>1 DEF ResetIfSet
<1>2. CASE K[s] # NULL
  <2>1. PICK c \in Act(L) : c.id = K[s]
    BY <1>2, LinkedNames
  <2>2. Good(L) /\ Now \in Time
    BY NowType DEF Linked
  <2> DEFINE R == tmr_reset(L, Now, c.id)
  <2>3. Moved(L, c, R)
    BY <2>2, ResetTimer
  <2>4. ResetIfSet(L, Now, K[s]) = R
    BY <1>2, <2>1 DEF ResetIfSet
  <2> HIDE DEF R
  <2> QED
    BY <2>3, <2>4, LinkedMove
<1> QED
  BY <1>1, <1>2

LEMMA OmitTimers ==
  ASSUME TrafficTyped, TimersInv, TimersKept, NEW p \in Sides, OmitTimer(p)
  PROVE  TimersInv'
<1> DEFINE P == ptr[p]
           K == Held(P, st[p])
           L == ResetIfSet(tmr[p], Now, P.stats)
           M == ResetIfSet(L, Now, P.reporter)
<1>1. /\ Fires(p, "omit") /\ ptr' = [ptr EXCEPT ![p].omit = NULL]
      /\ omitting' = [omitting EXCEPT ![p] = FALSE] /\ Puts(p, M)
  BY DEF OmitTimer
<1>2. Linked(tmr[p], K)
  BY DEF TimersInv, SideTimers
<1>3. Holds(K, P, st[p])
  BY HeldHolds
<1>4. Linked(M, K)
  <2> HIDE DEF K
  <2>1. K[StatsSlot] = P.stats /\ K[ReporterSlot] = P.reporter
    BY <1>3 DEF Holds
  <2>2. StatsSlot \in Slots /\ ReporterSlot \in Slots /\ clock \in Nat
    BY SlotCases DEF TrafficTyped
  <2>3. Linked(L, K)
    BY <1>2, <2>1, <2>2, ResetLinked
  <2> HIDE DEF L
  <2> QED
    BY <2>1, <2>2, <2>3, ResetLinked
<1> HIDE DEF M
<1>5. Linked(M, Held(P, st'[p]))
  BY <1>4, HeldKept DEF TimersKept
<1>6. omitting \in [Sides -> BOOLEAN]
  BY DEF TrafficTyped
<1>7. \A q \in Sides : q # p => \A i \in Streams : st'[q][i].send_timer = st[q][i].send_timer
  BY DEF TimersKept
<1> QED
  BY <1>1, <1>5, <1>6, <1>7, RunOutTimers

(* The timers of the streams, in a list as CancelAll takes it.              *)
LEMMA SendTimerList ==
  ASSUME TrafficTyped, TimersInv, NEW p \in Sides
  PROVE  /\ SendTimers(p) \in Seq(Nat) /\ Len(SendTimers(p)) = num_streams
         /\ Streams = 1 .. num_streams /\ num_streams \in Nat
         /\ \A i \in Streams : SendTimers(p)[i] = Held(ptr[p], st[p])[SendSlot(i)]
<1> DEFINE K == Held(ptr[p], st[p])
           ids == SendTimers(p)
<1>1. num_streams \in Nat /\ Streams = 1 .. num_streams
  BY StreamAssumption DEF Streams
<1>2. Linked(tmr[p], K)
  BY DEF TimersInv, SideTimers
<1>3. Holds(K, ptr[p], st[p])
  BY HeldHolds
<1> HIDE DEF K
<1>4. \A i \in Streams : st[p][i].send_timer = K[SendSlot(i)]
  BY <1>3 DEF Holds
<1>5. \A i \in Streams : K[SendSlot(i)] \in Nat
  BY <1>2, LinkedNames, SlotCases
<1>6. ids \in [1 .. num_streams -> Nat]
  BY <1>1, <1>4, <1>5 DEF SendTimers
<1>7. \A i \in Streams : ids[i] = K[SendSlot(i)]
  BY <1>4 DEF SendTimers
<1> HIDE DEF ids
<1>8. ids \in Seq(Nat) /\ Len(ids) = num_streams
  BY <1>1, <1>6
<1> QED
  BY <1>1, <1>7, <1>8 DEF ids, K

(* iperf_free_stream for every stream.                                      *)
LEMMA FreeLinked ==
  ASSUME TrafficTyped, TimersInv, NEW p \in Sides, NEW f,
         \A i \in Streams : f[i].send_timer = NULL
  PROVE  Linked(CancelAll(tmr[p], SendTimers(p)), Held(ptr[p], f))
<1> DEFINE K == Held(ptr[p], st[p])
           ids == SendTimers(p)
           n == Len(ids)
           W == Without(K, ids, n)
<1>1. /\ n \in Nat /\ Streams = 1 .. n /\ \A i \in Streams : ids[i] = K[SendSlot(i)]
  BY SendTimerList
<1>2. Linked(tmr[p], K) /\ Holds(K, ptr[p], st[p])
  BY HeldHolds DEF TimersInv, SideTimers
<1> HIDE DEF K, ids
<1>3. \A s, t \in Slots : K[s] = K[t] /\ K[s] # NULL => s = t
  BY <1>2, LinkedNames
<1>4. Linked(CancelAll(tmr[p], ids), W)
  <2>1. \A k \in 1 .. n : \E s \in Slots : K[s] = ids[k]
    BY <1>1, SlotCases
  <2>2. \A j, k \in 1 .. n : j # k /\ ids[j] = ids[k] => ids[j] = NULL
    BY <1>1, <1>3, SlotCases, SlotsDiffer
  <2> QED
    BY <1>1, <1>2, <2>1, <2>2, CancelLinked
<1>5. /\ DOMAIN W = Slots
      /\ \A s \in Slots : W[s] = IF \E j \in 1 .. n : K[s] = ids[j] THEN NULL ELSE K[s]
  BY DEF Without
<1> HIDE DEF W
<1>6. \A i \in Streams : W[SendSlot(i)] = NULL
  BY <1>1, <1>5, SlotCases
<1>7. \A s \in {TestSlot, StatsSlot, ReporterSlot, OmitSlot} : W[s] = K[s]
  <2> SUFFICES ASSUME NEW s \in {TestSlot, StatsSlot, ReporterSlot, OmitSlot}
               PROVE  W[s] = K[s]
    OBVIOUS
  <2>1. s \in Slots /\ \A j \in 1 .. n : SendSlot(j) \in Slots /\ s # SendSlot(j)
    BY <1>1, SlotCases, SlotsDiffer
  <2>2. \A j \in 1 .. n : K[s] = ids[j] => K[s] = NULL
    BY <1>1, <1>3, <2>1
  <2> QED
    BY <1>5, <2>1, <2>2
<1>8. Holds(W, ptr[p], f)
  BY <1>2, <1>5, <1>6, <1>7 DEF Holds
<1>9. Linked(CancelAll(tmr[p], ids), Held(ptr[p], f))
  BY <1>4, <1>8, HoldsHeld
<1> QED
  BY <1>9 DEF ids

(* Freed streams have no timer.                                             *)
LEMMA FreedStreams ==
  ASSUME TrafficTyped, NEW p \in Sides,
         st' = [st EXCEPT ![p] = [i \in Streams |-> [st[p][i] EXCEPT !.send_timer = NULL]]]
  PROVE  /\ \A i \in Streams : st'[p][i].send_timer = NULL
         /\ \A q \in Sides : q # p => st'[q] = st[q]
<1>1. DOMAIN st = Sides /\ \A i \in Streams : IsStream(st[p][i])
  BY DEF TrafficTyped, StreamsTyped, IsStreamNo
<1>2. \A i \in Streams : [st[p][i] EXCEPT !.send_timer = NULL].send_timer = NULL
  BY <1>1 DEF IsStream
<1>3. st'[p] = [i \in Streams |-> [st[p][i] EXCEPT !.send_timer = NULL]]
  BY <1>1
<1> QED
  BY <1>1, <1>2, <1>3

LEMMA ServerTimers ==
  ASSUME TrafficTyped, TimersInv, ServerTimer
  PROVE  TimersInv'
<1> DEFINE L == IF done["server"] THEN tmr["server"]
                ELSE CancelAll(tmr["server"], SendTimers("server"))
<1>1. /\ Fires("server", "test") /\ Puts("server", L) /\ "server" \in Sides
      /\ ptr' = [ptr EXCEPT !["server"].timer = NULL] /\ omitting' = omitting
      /\ omitting \in [Sides -> BOOLEAN]
  BY DEF ServerTimer, Sides, TrafficTyped
<1>2. /\ Linked(L, Held(ptr["server"], st'["server"]))
      /\ \A q \in Sides : q # "server" => st'[q] = st[q]
  <2>1. CASE done["server"]
    <3>1. L = tmr["server"] /\ st' = st
      BY <2>1 DEF ServerTimer
    <3> QED
      BY <1>1, <3>1 DEF TimersInv, SideTimers
  <2>2. CASE ~done["server"]
    <3>1. /\ L = CancelAll(tmr["server"], SendTimers("server"))
          /\ st' = [st EXCEPT !["server"] =
                      [i \in Streams |-> [st["server"][i] EXCEPT !.send_timer = NULL]]]
      BY <2>2 DEF ServerTimer
    <3>2. /\ \A i \in Streams : st'["server"][i].send_timer = NULL
          /\ \A q \in Sides : q # "server" => st'[q] = st[q]
      BY <1>1, <3>1, FreedStreams
    <3> QED
      BY <1>1, <3>1, <3>2, FreeLinked
  <2> QED
    BY <2>1, <2>2
<1> HIDE DEF L
<1> QED
  BY <1>1, <1>2, RunOutTimers

(* Nothing is left of a list when all its pointers are NULL.                *)
LEMMA NoneLinked ==
  ASSUME NEW L, NEW K, Linked(L, K), \A s \in Slots : K[s] = NULL
  PROVE  Act(L) = {}
<1>1. Act(L) \subseteq Cells
  BY ActiveCells DEF Linked
<1>2. \A c \in Act(L) : c.id # NULL
  BY <1>1, CellFields DEF NULL
<1> QED
  BY <1>2 DEF Linked

(* cleanup_server and iperf_reset_test leave no timer.                      *)
LEMMA CancelledLinked ==
  ASSUME TrafficTyped, TimersInv, NEW p \in Sides, NEW f,
         \A i \in Streams : f[i].send_timer = NULL
  PROVE  Linked(Cancelled(p), Held(NoPtr, f)) /\ Act(Cancelled(p)) = {}
<1> DEFINE P == ptr[p]
           K == Held(P, st[p])
           S == SendTimers(p)
           ids == <<P.stats, P.reporter, P.omit, P.timer>> \o S
           n == Len(S)
           to(k) == CASE k = 1 -> StatsSlot [] k = 2 -> ReporterSlot [] k = 3 -> OmitSlot
                      [] k = 4 -> TestSlot [] OTHER -> SendSlot(k - 4)
<1>1. /\ n \in Nat /\ Streams = 1 .. n /\ \A i \in Streams : S[i] = K[SendSlot(i)]
      /\ S \in Seq(Nat)
  BY SendTimerList
<1>2. Linked(tmr[p], K) /\ Holds(K, P, st[p])
  BY HeldHolds DEF TimersInv, SideTimers
<1> HIDE DEF K, S
<1>3. /\ \A s, t \in Slots : K[s] = K[t] /\ K[s] # NULL => s = t
      /\ \A s \in Slots : K[s] \in Nat
  BY <1>2, LinkedNames
<1>a. {P.stats, P.reporter, P.omit, P.timer} \subseteq Nat
  BY <1>2, <1>3, SlotCases DEF Holds
<1>4. Len(ids) = 4 + n /\ Len(ids) \in Nat
  BY <1>1, <1>a
<1>5. /\ ids[1] = P.stats /\ ids[2] = P.reporter /\ ids[3] = P.omit /\ ids[4] = P.timer
      /\ \A i \in 1 .. n : ids[i + 4] = S[i]
  BY <1>1, <1>a
<1>6. Cancelled(p) = CancelAll(tmr[p], ids)
  BY DEF Cancelled, S
<1> HIDE DEF ids
<1>7. \A k \in 1 .. Len(ids) : k \in {1, 2, 3, 4} \/ k - 4 \in 1 .. n
  BY <1>1, <1>4
<1>8. ASSUME NEW k \in 1 .. Len(ids)
      PROVE  to(k) \in Slots /\ ids[k] = K[to(k)]
  <2>1. CASE k \in {1, 2, 3, 4}
    BY <1>2, <1>5, <2>1, SlotCases DEF Holds
  <2>2. CASE k \notin {1, 2, 3, 4}
    <3>1. k - 4 \in 1 .. n /\ to(k) = SendSlot(k - 4) /\ (k - 4) + 4 = k
      BY <1>7, <2>2
    <3>2. ids[(k - 4) + 4] = S[k - 4]
      BY <1>5, <3>1
    <3> HIDE DEF to
    <3> QED
      BY <1>1, <3>1, <3>2, SlotCases
  <2> QED
    BY <2>1, <2>2
<1>9. ASSUME NEW j \in 1 .. Len(ids), NEW k \in 1 .. Len(ids), to(j) = to(k)
      PROVE  j = k
  <2>1. CASE j \in {1, 2, 3, 4} /\ k \in {1, 2, 3, 4}
    BY <1>9, <2>1, SlotsDiffer
  <2>2. CASE j \in {1, 2, 3, 4} /\ k \notin {1, 2, 3, 4}
    BY <1>9, <2>2, SlotsDiffer
  <2>3. CASE j \notin {1, 2, 3, 4} /\ k \in {1, 2, 3, 4}
    BY <1>9, <2>3, SlotsDiffer
  <2>4. CASE j \notin {1, 2, 3, 4} /\ k \notin {1, 2, 3, 4}
    <3>1. SendSlot(j - 4) = SendSlot(k - 4)
      BY <1>9, <2>4
    <3>2. j - 4 = k - 4
      BY <3>1, SlotsDiffer
    <3> QED
      BY <1>4, <3>2
  <2> QED
    BY <2>1, <2>2, <2>3, <2>4
<1>10. ASSUME NEW s \in Slots
       PROVE  \E k \in 1 .. Len(ids) : K[s] = ids[k]
  <2>1. CASE s \in {TestSlot, StatsSlot, ReporterSlot, OmitSlot}
    <3>1. K[s] \in {ids[1], ids[2], ids[3], ids[4]}
      BY <1>2, <1>5, <2>1 DEF Holds
    <3>2. {1, 2, 3, 4} \subseteq 1 .. Len(ids)
      BY <1>1, <1>4
    <3> QED
      BY <3>1, <3>2
  <2>2. CASE \E i \in Streams : s = SendSlot(i)
    <3>1. PICK i \in Streams : s = SendSlot(i)
      BY <2>2
    <3>2. i + 4 \in 1 .. Len(ids)
      BY <1>1, <1>4
    <3>3. K[s] = ids[i + 4]
      BY <1>1, <1>5, <3>1
    <3> QED
      BY <3>2, <3>3
  <2> QED
    BY <2>1, <2>2, SlotCases
<1> DEFINE W == Without(K, ids, Len(ids))
<1>11. Linked(Cancelled(p), W)
  <2> HIDE DEF to
  <2>1. \A k \in 1 .. Len(ids) : \E s \in Slots : K[s] = ids[k]
    BY <1>8
  <2>2. \A j, k \in 1 .. Len(ids) : j # k /\ ids[j] = ids[k] => ids[j] = NULL
    BY <1>3, <1>8, <1>9
  <2> QED
    BY <1>2, <1>4, <1>6, <2>1, <2>2, CancelLinked
<1>12. DOMAIN W = Slots /\ \A s \in Slots : W[s] = NULL
  BY <1>10 DEF Without
<1> HIDE DEF W
<1>13. Holds(W, NoPtr, f)
  BY <1>12, SlotCases DEF Holds, NoPtr
<1> QED
  BY <1>11, <1>12, <1>13, NoneLinked, HoldsHeld

LEMMA ServerEndTimers ==
  ASSUME TrafficTyped, TimersInv, ServerEnds
  PROVE  TimersInv'
<1> DEFINE R == Cancelled("server")
<1>1. /\ tmr' = [tmr EXCEPT !["server"] = R] /\ ptr' = [ptr EXCEPT !["server"] = NoPtr]
      /\ st' = [st EXCEPT !["server"] =
                  [i \in Streams |-> [st["server"][i] EXCEPT !.send_timer = NULL]]]
      /\ pc' = [pc EXCEPT !["server"] = "end"] /\ omitting' = omitting /\ "server" \in Sides
  BY DEF ServerEnds, Sides
<1>2. /\ \A i \in Streams : st'["server"][i].send_timer = NULL
      /\ \A q \in Sides : q # "server" => st'[q] = st[q]
  BY <1>1, FreedStreams
<1>3. Linked(R, Held(NoPtr, st'["server"])) /\ Act(R) = {}
  BY <1>1, <1>2, CancelledLinked
<1> HIDE DEF R
<1>4. DOMAIN tmr = Sides /\ DOMAIN ptr = Sides /\ DOMAIN pc = Sides
  BY DEF TimersInv
<1>5. Turn("server", R, NoPtr)
  BY <1>1, <1>4 DEF Turn, NotYet
<1>6. DOMAIN NoPtr = PtrFields /\ NoPtr.omit = NULL
  BY DEF NoPtr, PtrFields
<1>7. \A q \in Sides : q # "server" =>
        \A i \in Streams : st'[q][i].send_timer = st[q][i].send_timer
  BY <1>2
<1> QED
  BY <1>1, <1>3, <1>5, <1>6, <1>7, OneSideTimers

(* The start of the test on side p.                                         *)
LEMMA BeginTimers ==
  ASSUME TrafficTyped, TimersInv, NEW p \in Sides, StartTest(p), pc[p] = "ready",
         NEW v, pc' = [pc EXCEPT ![p] = v], v \notin NotYet, v # "end"
  PROVE  /\ TimersInv' /\ Planned(tmr'[p], StartLast(p), omit * MILLION) /\ Paired(tmr'[p])
         /\ omit # 0 => ptr'[p].omit # NULL
<1>1. PICK a, b, c, d :
        /\ a = Create(tmr[p], duration # 0, "test", NULL, StartLast(p), FALSE)
        /\ b = Create(a.L, stats_interval # 0, "stats", NULL, stats_interval, TRUE)
        /\ c = Create(b.L, reporter_interval # 0, "reporter", NULL, reporter_interval, TRUE)
        /\ d = Create(c.L, omit # 0, "omit", NULL, omit * MILLION, FALSE)
        /\ StartBody(p, a, b, c, d)
  BY StartParts, Zenon
<1>2. tmr[p] = NoTimers /\ Linked(NoTimers, Held(ptr[p], st[p]))
  BY DEF TimersInv, SideTimers, NotYet
<1>3. StartLast(p) \in Nat /\ omit * MILLION \in Nat
  BY TrafficAssumption DEF StartLast, MILLION
<1>4. Timers(StartLast(p), omit * MILLION, a, b, c, d)
  BY <1>1, <1>2, Zenon DEF Timers
<1>5. d.id # NULL => omit # 0
  BY <1>1 DEF Create
<1>6. StartBody(p, a, b, c, d)
  BY <1>1
<1> DEFINE Q == [timer |-> a.id, stats |-> b.id, reporter |-> c.id, omit |-> d.id]
           e == iperf_create_send_timers(d)
<1>7. PICK K : /\ Linked(d.L, K) /\ Fresh(d.L)
               /\ K[TestSlot] = a.id /\ K[StatsSlot] = b.id /\ K[ReporterSlot] = c.id
               /\ K[OmitSlot] = d.id /\ \A i \in Streams : K[SendSlot(i)] = NULL
               /\ Planned(d.L, StartLast(p), omit * MILLION) /\ (omit # 0 => d.id # NULL)
               /\ Paired(d.L)
  BY <1>3, <1>4, StartTimers
<1>8. \A i \in Streams : st[p][i].send_timer = NULL
  <2> DEFINE H == Held(ptr[p], st[p])
  <2>1. Holds(H, ptr[p], st[p]) /\ Linked(NoTimers, H)
    BY <1>2, HeldHolds
  <2> HIDE DEF H
  <2>2. Act(NoTimers) = {}
    BY DEF Act, NoTimers, Members
  <2>3. \A s \in Slots : H[s] = NULL
    BY <2>1, <2>2 DEF Linked
  <2> QED
    BY <2>1, <2>3, SlotCases DEF Holds
<1>9. /\ DOMAIN st = Sides /\ \A i \in Streams : IsStream(st[p][i])
      /\ omitting \in [Sides -> BOOLEAN]
  BY DEF TrafficTyped, StreamsTyped, IsStreamNo
<1>a. DOMAIN tmr = Sides /\ DOMAIN ptr = Sides /\ DOMAIN pc = Sides
  BY DEF TimersInv
<1>10. PICK R : /\ tmr' = [tmr EXCEPT ![p] = R] /\ Linked(R, Held(Q, st'[p]))
                /\ \A q \in Sides : q # p => st'[q] = st[q]
                /\ Planned(R, StartLast(p), omit * MILLION) /\ Paired(R)
  <2>1. CASE p = Snd
    <3> DEFINE f == [i \in Streams |-> [st[p][i] EXCEPT !.start_time = Now, !.green = TRUE,
                                                          !.send_timer = e[i].id]]
    <3>1. tmr' = [tmr EXCEPT ![p] = e[num_streams].L] /\ st' = [st EXCEPT ![p] = f]
      BY <1>6, <2>1 DEF StartBody
    <3>2. \A i \in Streams : f[i].send_timer = e[i].id
      <4> HIDE DEF e
      <4> QED
        BY <1>9 DEF IsStream
    <3> HIDE DEF f, e
    <3>3. st'[p] = f /\ \A q \in Sides : q # p => st'[q] = st[q]
      BY <1>9, <3>1
    <3>4. PICK M : /\ Linked(e[num_streams].L, M)
                   /\ \A i \in Streams : M[SendSlot(i)] = e[i].id
                   /\ \A s \in {TestSlot, StatsSlot, ReporterSlot, OmitSlot} : M[s] = K[s]
                   /\ \A x \in Act(e[num_streams].L) : x.proc # "send" => x \in Act(d.L)
                   /\ Kept(d.L, e[num_streams].L)
      BY <1>7, StartSendTimers DEF e
    <3>5. Holds(M, Q, f)
      BY <1>7, <3>2, <3>4 DEF Holds, Linked
    <3>6. Linked(e[num_streams].L, Held(Q, f))
      <4> HIDE DEF Q
      <4> QED
        BY <3>4, <3>5, HoldsHeld
    <3>7. Planned(e[num_streams].L, StartLast(p), omit * MILLION) /\ Paired(e[num_streams].L)
      BY <1>7, <3>4, KeptPaired DEF Planned
    <3> HIDE DEF Q
    <3> QED
      BY <3>1, <3>3, <3>6, <3>7
  <2>2. CASE p # Snd
    <3> DEFINE f == [i \in Streams |-> [st[p][i] EXCEPT !.start_time = Now]]
    <3>1. tmr' = [tmr EXCEPT ![p] = d.L] /\ st' = [st EXCEPT ![p] = f]
      BY <1>6, <2>2 DEF StartBody
    <3>2. \A i \in Streams : f[i].send_timer = NULL
      BY <1>8, <1>9 DEF IsStream
    <3> HIDE DEF f
    <3>3. st'[p] = f /\ \A q \in Sides : q # p => st'[q] = st[q]
      BY <1>9, <3>1
    <3>5. Holds(K, Q, f)
      BY <1>7, <3>2 DEF Holds, Linked
    <3>6. Linked(d.L, Held(Q, f))
      <4> HIDE DEF Q
      <4> QED
        BY <1>7, <3>5, HoldsHeld
    <3> HIDE DEF Q
    <3> QED
      BY <1>7, <3>1, <3>3, <3>6
  <2> QED
    BY <2>1, <2>2
<1>11. ptr' = [ptr EXCEPT ![p] = Q] /\ omitting' = [omitting EXCEPT ![p] = omit # 0]
  BY <1>6 DEF StartBody
<1>12. DOMAIN Q = PtrFields /\ (Q.omit # NULL => omitting'[p]) /\ Q.omit = d.id
  BY <1>5, <1>9, <1>11 DEF PtrFields
<1> HIDE DEF Q
<1>13. Turn(p, R, Q)
  BY <1>9, <1>10, <1>11, <1>a DEF Turn
<1>14. \A q \in Sides : q # p => \A i \in Streams : st'[q][i].send_timer = st[q][i].send_timer
  BY <1>10
<1>15. ~(p = "server" /\ pc'["server"] = "end")
  BY <1>a
<1>16. TimersInv'
  BY <1>10, <1>12, <1>13, <1>14, <1>15, OneSideTimers
<1>17. tmr'[p] = R /\ ptr'[p].omit = d.id
  BY <1>12, <1>13 DEF Turn
<1> QED
  BY <1>7, <1>10, <1>16, <1>17

(* The steps that leave the timers alone.                                   *)
Still ==
  /\ tmr' = tmr /\ ptr' = ptr /\ omitting' = omitting /\ DOMAIN pc' = Sides
  /\ \A p \in Sides : pc'[p] \in NotYet => pc[p] \in NotYet
  /\ pc'["server"] = "end" => pc["server"] = "end"
  /\ pc'["server"] = "results" => pc["server"] = "results" \/ ServerTestEnd

LEMMA StillHandshake ==
  ASSUME DOMAIN pc = Sides,
         UdpConnect \/ UdpAccept \/ UdpConnected \/ UdpConnectFails \/ ClientRuns
           \/ ClientTerminates \/ ClientClosed \/ Tick
  PROVE  Still
<1>1. ASSUME NEW v, pc' = [pc EXCEPT !["client"] = v], v \in NotYet => pc["client"] \in NotYet,
             tmr' = tmr, ptr' = ptr, omitting' = omitting
      PROVE  Still
  BY <1>1 DEF Still, Sides
<1>2. CASE UdpConnect
  BY <1>1, <1>2 DEF UdpConnect, testVars, NotYet
<1>3. CASE UdpAccept
  BY <1>3 DEF UdpAccept, testVars, Still, NotYet, Sides
<1>4. CASE UdpConnected
  BY <1>1, <1>4 DEF UdpConnected, testVars, NotYet
<1>5. CASE UdpConnectFails
  BY <1>1, <1>5 DEF UdpConnectFails, testVars, NotYet
<1>6. CASE ClientRuns
  BY <1>1, <1>6 DEF ClientRuns, testVars, NotYet
<1>7. CASE ClientTerminates
  BY <1>1, <1>7 DEF ClientTerminates, testVars, NotYet
<1>8. CASE ClientClosed
  BY <1>1, <1>8 DEF ClientClosed, testVars, NotYet
<1>9. CASE Tick
  BY <1>9 DEF Tick, testVars, Still
<1> QED
  BY <1>2, <1>3, <1>4, <1>5, <1>6, <1>7, <1>8, <1>9

LEMMA StillTest ==
  ASSUME DOMAIN pc = Sides,
         ClientPass \/ ServerPass \/ (\E p \in Sides : TimersRun(p)) \/ ClientChecks
           \/ ClientDrains \/ ServerTestEnd \/ ClientResults
  PROVE  Still
<1>1. ASSUME NEW p \in Sides, NEW v, pc' = [pc EXCEPT ![p] = v], v \notin NotYet, v # "end",
             p = "client" \/ v # "results" \/ ServerTestEnd,
             tmr' = tmr, ptr' = ptr, omitting' = omitting
      PROVE  Still
  BY <1>1 DEF Still
<1>2. "client" \in Sides /\ "server" \in Sides
  BY DEF Sides
<1>3. CASE ClientPass
  BY <1>1, <1>2, <1>3 DEF ClientPass, RunTimers, NotYet
<1>4. CASE ServerPass
  <2>1. pc' = [pc EXCEPT !["server"] = "tmr_run"] \/ pc' = pc
    BY <1>4 DEF ServerPass, RunTimers
  <2>2. tmr' = tmr /\ ptr' = ptr /\ omitting' = omitting
    BY <1>4 DEF ServerPass
  <2> QED
    BY <1>1, <1>2, <2>1, <2>2 DEF NotYet, Still
<1>5. CASE \E p \in Sides : TimersRun(p)
  BY <1>1, <1>5 DEF TimersRun, NotYet
<1>6. CASE ClientChecks
  <2>1. pc' = [pc EXCEPT !["client"] = "results"] \/ pc' = [pc EXCEPT !["client"] = "select"]
    BY <1>6 DEF ClientChecks
  <2>2. tmr' = tmr /\ ptr' = ptr /\ omitting' = omitting
    BY <1>6 DEF ClientChecks
  <2> QED
    BY <1>1, <1>2, <2>1, <2>2 DEF NotYet
<1>7. CASE ClientDrains
  BY <1>7 DEF ClientDrains, Still
<1>8. CASE ServerTestEnd
  BY <1>1, <1>2, <1>8 DEF ServerTestEnd, NotYet
<1>9. CASE ClientResults
  BY <1>9 DEF ClientResults, Still, NotYet, Sides
<1> QED
  BY <1>3, <1>4, <1>5, <1>6, <1>7, <1>8, <1>9

LEMMA TimersNext ==
  ASSUME TrafficTyped, TimersInv, [Next]_trafficVars
  PROVE  TimersInv'
<1>0. DOMAIN pc = Sides /\ "client" \in Sides /\ "server" \in Sides
  BY DEF TimersInv, Sides
<1>1. CASE UNCHANGED trafficVars
  <2>1. TimersKept
    BY <1>1 DEF TimersKept, trafficVars
  <2> QED
    BY <1>0, <1>1, <2>1, QuietTimers DEF trafficVars
<1>2. ASSUME Still, TimersKept
      PROVE  TimersInv'
  BY <1>2, QuietTimers DEF Still
<1>3. CASE ServerStarts
  <2>1. /\ pc["server"] = "ready" /\ StartTest("server")
        /\ pc' = [pc EXCEPT !["server"] = "select"]
    BY <1>3 DEF ServerStarts
  <2> QED
    BY <1>0, <2>1, BeginTimers DEF NotYet
<1>4. CASE ClientStarts
  <2>1. /\ pc["client"] = "ready" /\ StartTest("client")
        /\ pc' = [pc EXCEPT !["client"] = "started"]
    BY <1>4 DEF ClientStarts
  <2> QED
    BY <1>0, <2>1, BeginTimers DEF NotYet
<1>5. ASSUME TimersKept, NEW p \in Sides,
             StatsTimer(p) \/ ReporterTimer(p) \/ SendTimer(p)
      PROVE  TimersInv'
  <2>1. /\ Fires(p, "stats") \/ Fires(p, "reporter") \/ Fires(p, "send")
        /\ Puts(p, tmr[p]) /\ ptr' = ptr /\ omitting' = omitting
    BY <1>5 DEF StatsTimer, ReporterTimer, SendTimer
  <2> QED
    BY <1>5, <2>1, RepeatTimers
<1>6. ASSUME TimersKept, Next
      PROVE  TimersInv'
  BY <1>0, <1>2, <1>3, <1>4, <1>5, <1>6, TestTimers, ServerTimers, OmitTimers, ServerEndTimers,
     StillHandshake, StillTest, Zenon DEF Next, Steps
<1> QED
  BY <1>1, <1>3, <1>4, <1>6, ServerTimers, ServerEndTimers, KeptSendTimers

(* What the invariant says of the pointers of the program.                  *)
LEMMA TimersLive ==
  ASSUME TimersInv
  PROVE  PointersLive /\ NoTimerLeft
<1>1. ASSUME NEW p \in Sides, NEW s \in Slots, NEW id, id = Held(ptr[p], st[p])[s]
      PROVE  id = NULL \/ (id \in Ids(tmr[p]) /\ CellOf(tmr[p], id).proc = s[1])
  <2> DEFINE K == Held(ptr[p], st[p])
  <2>1. Linked(tmr[p], K)
    BY DEF TimersInv, SideTimers
  <2>2. id = K[s]
    BY <1>1
  <2> HIDE DEF K
  <2>3. CASE id # NULL
    <3>1. PICK c \in Act(tmr[p]) : Slot(c) = s /\ c.id = id
      BY <2>1, <2>2, <2>3, LinkedNames
    <3>2. Good(tmr[p])
      BY <2>1 DEF Linked
    <3>3. id \in Ids(tmr[p]) /\ CellOf(tmr[p], id) = c
      BY <3>1, <3>2, ActiveCells
    <3>4. c.proc = s[1]
      BY <3>1 DEF Slot
    <3> QED
      BY <3>3, <3>4
  <2> QED
    BY <2>3
<1>2. PointersLive
  <2> SUFFICES ASSUME NEW p \in Sides
               PROVE  LET names(id, proc) ==
                            id = NULL \/ (id \in Ids(tmr[p]) /\ CellOf(tmr[p], id).proc = proc) IN
                      /\ WellFormed(tmr[p])
                      /\ names(ptr[p].timer, "test") /\ names(ptr[p].stats, "stats")
                      /\ names(ptr[p].reporter, "reporter") /\ names(ptr[p].omit, "omit")
                      /\ \A i \in Streams : names(st[p][i].send_timer, "send")
    BY DEF PointersLive
  <2> DEFINE names(id, proc) ==
               id = NULL \/ (id \in Ids(tmr[p]) /\ CellOf(tmr[p], id).proc = proc)
             K == Held(ptr[p], st[p])
  <2>1. WellFormed(tmr[p])
    BY GoodWellFormed DEF TimersInv, SideTimers, Linked
  <2>2. Holds(K, ptr[p], st[p])
    BY HeldHolds
  <2>3. \A s \in Slots : names(K[s], s[1])
    BY <1>1
  <2> HIDE DEF names, K
  <2>4. /\ TestSlot[1] = "test" /\ StatsSlot[1] = "stats" /\ ReporterSlot[1] = "reporter"
        /\ OmitSlot[1] = "omit" /\ \A i : SendSlot(i)[1] = "send"
    BY DEF TestSlot, StatsSlot, ReporterSlot, OmitSlot, SendSlot
  <2>5. /\ names(ptr[p].timer, "test") /\ names(ptr[p].stats, "stats")
        /\ names(ptr[p].reporter, "reporter") /\ names(ptr[p].omit, "omit")
    BY <2>2, <2>3, <2>4, SlotCases DEF Holds
  <2>6. \A i \in Streams : names(st[p][i].send_timer, "send")
    BY <2>2, <2>3, <2>4, SlotCases DEF Holds
  <2> QED
    BY <2>1, <2>5, <2>6 DEF names
<1>3. NoTimerLeft
  <2> SUFFICES ASSUME pc["server"] = "end"
               PROVE  tmr["server"].active = <<>>
    BY DEF NoTimerLeft
  <2>1. Act(tmr["server"]) = {} /\ tmr["server"].active \in Seq(Cells)
    BY DEF TimersInv, SideTimers, Linked, Good, Sides
  <2> DEFINE a == tmr["server"].active
  <2>2. a \in Seq(Cells) /\ \A j \in 1 .. Len(a) : FALSE
    BY <2>1 DEF Act, Members
  <2> HIDE DEF a
  <2>3. Len(a) = 0
    BY <2>2
  <2>4. a = <<>>
    BY <2>2, <2>3
  <2> QED
    BY <2>4 DEF a
<1> QED
  BY <1>2, <1>3

(* The pointers that the program keeps and the lists of timers go together  *)
(* in every state that a test comes to.                                     *)
THEOREM TimersStayLinked == Spec => []TimersInv
<1>1. TrafficInit => TimersInv
  BY TimersInit
<1>2. TrafficTyped /\ TimersInv /\ [Next]_trafficVars => TimersInv'
  BY TimersNext
<1> QED
  BY <1>1, <1>2, StreamsStayTyped, PTL DEF Spec

(* Every pointer to a timer is NULL or names an active timer of its kind,   *)
(* on both sides, for any number of streams, any intervals and any times at *)
(* which the callbacks come: neither tmr_reset in the omit callback nor     *)
(* tmr_cancel in cleanup_server and iperf_free_stream meets a cell that is  *)
(* free. The lists stay sorted, as tmr_timeout and tmr_run assume.          *)
THEOREM AlwaysPointersLive == Spec => []PointersLive
<1>1. TimersInv => PointersLive
  BY TimersLive
<1> QED
  BY <1>1, TimersStayLinked, PTL

(* When the server is done with a test, no timer of it is left, whether the *)
(* test ended as it should, the client went away or the server's own timer  *)
(* closed the connection.                                                   *)
THEOREM AlwaysNoTimerLeft == Spec => []NoTimerLeft
<1>1. TimersInv => NoTimerLeft
  BY TimersLive
<1> QED
  BY <1>1, TimersStayLinked, PTL

---------------------------------------------------------------------------------
(* The intervals. IntervalBytes is a recursive function; a step only ever   *)
(* adds an interval at the end.                                             *)

Plus(v, e) == v + (IF e.omitted THEN 0 ELSE e.bytes)

Adds(f, n, I) == f = [k \in 0 .. n |-> IF k = 0 THEN 0 ELSE Plus(f[k - 1], I[k])]

LEMMA AddRecursion ==
  ASSUME NEW n \in Nat, NEW I
  PROVE  \E f : Adds(f, n, I)
<1> DEFINE Upto(m) == \E f : Adds(f, m, I)
           T == {m \in 0 .. n : Upto(m)}
<1>0. \A m \in 0 .. n : m \in T <=> Upto(m)
  OBVIOUS
<1>1. 0 \in T
  <2> DEFINE f == [k \in 0 .. 0 |-> 0]
  <2>1. f = [k \in 0 .. 0 |-> IF k = 0 THEN 0 ELSE Plus(f[k - 1], I[k])]
    OBVIOUS
  <2>2. Upto(0)
    BY <2>1 DEF Adds
  <2> HIDE DEF Upto, T
  <2>3. 0 \in 0 .. n
    OBVIOUS
  <2> QED
    BY <1>0, <2>2, <2>3
<1>2. ASSUME NEW m \in 0 .. n, m < n, m \in T
      PROVE  m + 1 \in T
  <2>1. PICK f : f = [k \in 0 .. m |-> IF k = 0 THEN 0 ELSE Plus(f[k - 1], I[k])]
    BY <1>0, <1>2 DEF Adds
  <2> DEFINE v == Plus(f[m], I[m + 1])
             g == [k \in 0 .. m + 1 |-> IF k = m + 1 THEN v ELSE f[k]]
  <2>2. m \in Nat
    OBVIOUS
  <2> HIDE DEF v
  <2>3. ASSUME NEW k \in 0 .. m + 1
        PROVE  g[k] = IF k = 0 THEN 0 ELSE Plus(g[k - 1], I[k])
    <3>1. CASE k = m + 1
      <4>1. g[k] = v /\ k # 0 /\ k - 1 = m /\ g[k - 1] = f[m]
        BY <2>2, <3>1
      <4> HIDE DEF g
      <4>2. Plus(g[k - 1], I[k]) = v
        BY <3>1, <4>1 DEF v
      <4> QED
        BY <4>1, <4>2
    <3>2. CASE k # m + 1
      <4>1. k \in 0 .. m /\ g[k] = f[k] /\ (k # 0 => g[k - 1] = f[k - 1])
        BY <2>2, <3>2
      <4>2. f[k] = IF k = 0 THEN 0 ELSE Plus(f[k - 1], I[k])
        BY <2>1, <4>1
      <4> HIDE DEF g
      <4> QED
        BY <4>1, <4>2
    <3> QED
      BY <3>1, <3>2
  <2>4. g = [k \in 0 .. m + 1 |-> IF k = 0 THEN 0 ELSE Plus(g[k - 1], I[k])]
    BY <2>3
  <2>5. Upto(m + 1)
    BY <2>4 DEF Adds
  <2>6. m + 1 \in 0 .. n
    BY <1>2, <2>2
  <2> HIDE DEF Upto, T
  <2> QED
    BY <1>0, <2>5, <2>6
<1> HIDE DEF T
<1>3. 0 .. n \subseteq T
  BY <1>1, <1>2, Induct
<1>4. n \in T
  BY <1>3
<1> QED
  BY <1>0, <1>4

LEMMA IntervalSum ==
  ASSUME NEW s, Len(s.intervals) \in Nat
  PROVE  \E f : Adds(f, Len(s.intervals), s.intervals) /\ IntervalBytes(s) = f[Len(s.intervals)]
<1> DEFINE n == Len(s.intervals)
           f == CHOOSE f : Adds(f, n, s.intervals)
<1>1. \E g : Adds(g, n, s.intervals)
  BY AddRecursion
<1>2. Adds(f, n, s.intervals)
  BY <1>1, Zenon
<1>3. IntervalBytes(s) = f[n]
  BY Zenon DEF IntervalBytes, Adds, Plus
<1> QED
  BY <1>2, <1>3

LEMMA AddSteps ==
  ASSUME NEW n \in Nat, NEW I, NEW f, Adds(f, n, I)
  PROVE  f[0] = 0 /\ \A k \in 1 .. n : f[k] = Plus(f[k - 1], I[k])
<1>1. f = [k \in 0 .. n |-> IF k = 0 THEN 0 ELSE Plus(f[k - 1], I[k])]
  BY DEF Adds
<1> QED
  BY <1>1

(* Sums over sequences that agree on the first n intervals.                 *)
LEMMA AddsAgree ==
  ASSUME NEW n \in Nat, NEW m \in Nat, n <= m, NEW I, NEW J, \A k \in 1 .. n : J[k] = I[k],
         \A k \in 1 .. n : I[k] \in Entries,
         NEW f, Adds(f, n, I), NEW g, Adds(g, m, J)
  PROVE  g[n] = f[n] /\ f[n] \in Int
<1> DEFINE T == {k \in 0 .. n : g[k] = f[k] /\ f[k] \in Int}
<1>1. f[0] = 0 /\ \A k \in 1 .. n : f[k] = Plus(f[k - 1], I[k])
  BY AddSteps
<1>2. g[0] = 0 /\ \A k \in 1 .. m : g[k] = Plus(g[k - 1], J[k])
  BY AddSteps
<1>3. 0 \in T
  BY <1>1, <1>2
<1>4. ASSUME NEW k \in 0 .. n, k < n, k \in T
      PROVE  k + 1 \in T
  <2>1. k + 1 \in 1 .. n /\ k + 1 \in 1 .. m /\ (k + 1) - 1 = k /\ k + 1 \in 0 .. n
    BY <1>4
  <2>2. g[k] = f[k] /\ f[k] \in Int
    BY <1>4
  <2>3. I[k + 1] \in Entries /\ J[k + 1] = I[k + 1]
    BY <2>1
  <2>4. f[k + 1] = Plus(f[k], I[k + 1]) /\ g[k + 1] = Plus(f[k], I[k + 1])
    BY <1>1, <1>2, <2>1, <2>2, <2>3
  <2>5. Plus(f[k], I[k + 1]) \in Int
    BY <2>2, <2>3 DEF Plus, Entries
  <2> QED
    BY <2>1, <2>4, <2>5
<1> HIDE DEF T
<1>5. 0 .. n \subseteq T
  BY <1>3, <1>4, Induct
<1> QED
  BY <1>5 DEF T

LEMMA IntervalAppend ==
  ASSUME NEW s, s.intervals \in Seq(Entries), NEW e \in Entries, NEW r,
         r.intervals = Append(s.intervals, e)
  PROVE  IntervalBytes(s) \in Int /\ IntervalBytes(r) = Plus(IntervalBytes(s), e)
<1> DEFINE I == s.intervals
           J == r.intervals
           n == Len(I)
<1>1. /\ n \in Nat /\ J \in Seq(Entries) /\ Len(J) = n + 1 /\ J[n + 1] = e
      /\ \A k \in 1 .. n : J[k] = I[k] /\ I[k] \in Entries
  OBVIOUS
<1>2. PICK f : Adds(f, n, I) /\ IntervalBytes(s) = f[n]
  BY <1>1, IntervalSum
<1>a. Len(J) \in Nat
  BY <1>1
<1>b. PICK g : Adds(g, Len(J), J) /\ IntervalBytes(r) = g[Len(J)]
  BY <1>a, IntervalSum
<1> HIDE DEF I, J, n
<1>3. Adds(g, n + 1, J) /\ IntervalBytes(r) = g[n + 1]
  BY <1>1, <1>b
<1>4. n + 1 \in Nat /\ n <= n + 1 /\ n + 1 \in 1 .. n + 1 /\ (n + 1) - 1 = n
  BY <1>1
<1>5. g[n] = f[n] /\ f[n] \in Int
  BY <1>1, <1>2, <1>3, <1>4, AddsAgree
<1>6. g[n + 1] = Plus(g[n], J[n + 1])
  BY <1>3, <1>4, AddSteps
<1> QED
  BY <1>1, <1>2, <1>3, <1>5, <1>6

LEMMA IntervalNone ==
  ASSUME NEW s, s.intervals = <<>>
  PROVE  IntervalBytes(s) = 0
<1>1. Len(s.intervals) = 0
  OBVIOUS
<1>2. PICK f : Adds(f, 0, <<>>) /\ IntervalBytes(s) = f[0]
  BY <1>1, IntervalSum
<1> QED
  BY <1>2, AddSteps

LEMMA IntervalSame ==
  ASSUME NEW s, NEW r, r.intervals = s.intervals
  PROVE  IntervalBytes(r) = IntervalBytes(s)
  BY Zenon DEF IntervalBytes

LEMMA IntervalInt ==
  ASSUME NEW s, s.intervals \in Seq(Entries)
  PROVE  IntervalBytes(s) \in Int
<1> DEFINE I == s.intervals
           n == Len(I)
<1>1. n \in Nat /\ n <= n /\ \A k \in 1 .. n : I[k] \in Entries
  OBVIOUS
<1>2. PICK f : Adds(f, n, I) /\ IntervalBytes(s) = f[n]
  BY <1>1, IntervalSum
<1> HIDE DEF I, n
<1>3. \A k \in 1 .. n : I[k] = I[k]
  OBVIOUS
<1>4. f[n] = f[n] /\ f[n] \in Int
  BY <1>1, <1>2, <1>3, AddsAgree, Zenon
<1> QED
  BY <1>2, <1>4

(* The intervals of stream s add up, or the omitted time o is not over and  *)
(* they do not count.                                                       *)
Tally(s, sender, o) ==
  IF o THEN IntervalBytes(s) = 0
  ELSE IF sender THEN IntervalBytes(s) + s.sent_iv = s.sent - s.sent_omit
       ELSE IntervalBytes(s) + s.received_iv = s.received

LEMMA TallySame ==
  ASSUME NEW s, NEW r, NEW sender, NEW o, Tally(s, sender, o), r.intervals = s.intervals,
         sender => r.sent_iv = s.sent_iv /\ r.sent = s.sent /\ r.sent_omit = s.sent_omit,
         ~sender => r.received_iv = s.received_iv /\ r.received = s.received
  PROVE  Tally(r, sender, o)
<1>1. IntervalBytes(r) = IntervalBytes(s)
  BY IntervalSame
<1> QED
  BY <1>1 DEF Tally

LEMMA TallyCollected ==
  ASSUME NEW s, NEW r, NEW sender \in BOOLEAN, NEW o \in BOOLEAN, IsStream(s),
         Tally(s, sender, o), Collected(s, r, sender, o)
  PROVE  Tally(r, sender, o)
<1>1. PICK e \in Entries : /\ r.intervals = Append(s.intervals, e) /\ e.omitted = o
                           /\ e.bytes = IF sender THEN s.sent_iv ELSE s.received_iv
  BY DEF Collected
<1>2. IntervalBytes(s) \in Int /\ IntervalBytes(r) = Plus(IntervalBytes(s), e)
  BY <1>1, IntervalAppend DEF IsStream
<1>3. /\ r.sent_iv = 0 /\ r.received_iv = 0 /\ r.sent = s.sent /\ r.sent_omit = s.sent_omit
      /\ r.received = s.received
  BY DEF Collected
<1>4. s.sent_iv \in Int /\ s.received_iv \in Int
  BY DEF IsStream
<1>5. CASE o
  <2>1. IntervalBytes(r) = IntervalBytes(s)
    BY <1>1, <1>2, <1>5 DEF Plus
  <2> QED
    BY <1>5, <2>1 DEF Tally
<1>6. CASE ~o
  <2>1. IntervalBytes(r) = IntervalBytes(s) + (IF sender THEN s.sent_iv ELSE s.received_iv)
    BY <1>1, <1>2, <1>6 DEF Plus
  <2>2. CASE sender
    <3>1. IntervalBytes(r) = s.sent - s.sent_omit /\ IntervalBytes(r) \in Int
      BY <1>2, <1>4, <1>6, <2>1, <2>2 DEF Tally
    <3> QED
      BY <1>3, <1>6, <2>2, <3>1 DEF Tally
  <2>3. CASE ~sender
    <3>1. IntervalBytes(r) = s.received /\ IntervalBytes(r) \in Int
      BY <1>2, <1>4, <1>6, <2>1, <2>3 DEF Tally
    <3> QED
      BY <1>3, <1>6, <2>3, <3>1 DEF Tally
  <2> QED
    BY <2>2, <2>3
<1> QED
  BY <1>5, <1>6

LEMMA TallyReset ==
  ASSUME NEW s, NEW r, NEW sender \in BOOLEAN, IsStream(s), Tally(s, sender, TRUE), HasReset(s, r)
  PROVE  Tally(r, sender, FALSE)
<1>1. IntervalBytes(r) = IntervalBytes(s) /\ IntervalBytes(s) = 0
  BY IntervalSame DEF HasReset, Tally
<1> QED
  BY <1>1 DEF Tally, HasReset, IsStream

LEMMA TallySent ==
  ASSUME NEW s, NEW r, NEW e, NEW d, NEW o \in BOOLEAN, IsStream(s), Tally(s, TRUE, o),
         HasSent(s, r, e, d)
  PROVE  Tally(r, TRUE, o)
<1>1. IntervalBytes(r) = IntervalBytes(s) /\ blksize \in Int
  BY IntervalSame, StreamAssumption DEF HasSent
<1>2. /\ r.sent = s.sent + blksize /\ r.sent_iv = s.sent_iv + blksize
      /\ r.sent_omit = s.sent_omit
      /\ s.sent \in Int /\ s.sent_iv \in Int /\ s.sent_omit \in Int
  BY DEF HasSent, IsStream
<1>3. s.intervals \in Seq(Entries)
  BY DEF IsStream
<1>4. IntervalBytes(s) \in Int
  BY <1>3, IntervalInt
<1> QED
  BY <1>1, <1>2, <1>4 DEF Tally

LEMMA TallyReceived ==
  ASSUME NEW s, NEW r, NEW n, NEW o \in BOOLEAN, IsStream(s), Tally(s, FALSE, o),
         HasReceived(s, r, n)
  PROVE  Tally(r, FALSE, o)
<1>1. IntervalBytes(r) = IntervalBytes(s) /\ blksize \in Int
  BY IntervalSame, StreamAssumption DEF HasReceived
<1>2. /\ r.received = s.received + blksize /\ r.received_iv = s.received_iv + blksize
      /\ s.received \in Int /\ s.received_iv \in Int
  BY DEF HasReceived, IsStream
<1>3. s.intervals \in Seq(Entries)
  BY DEF IsStream
<1>4. IntervalBytes(s) \in Int
  BY <1>3, IntervalInt
<1> QED
  BY <1>1, <1>2, <1>4 DEF Tally

(* Only the streams of side p change, which runs its test.                  *)
OnlySide(p) ==
  /\ DOMAIN pc' = Sides /\ pc'[p] \notin NotYet /\ pc[p] # "results"
  /\ p = "server" /\ pc'[p] = "results" => ServerTestEnd
  /\ \A q \in Sides : q # p => pc'[q] = pc[q] /\ st'[q] = st[q] /\ omitting'[q] = omitting[q]

(* A side that has not begun, or that waits for the results, is left alone. *)
Untouched ==
  /\ \A q \in Sides : pc'[q] \in NotYet =>
       pc[q] \in NotYet /\ st'[q] = st[q] /\ omitting'[q] = omitting[q]
  /\ \A q \in Sides : pc[q] = "results" => st'[q] = st[q] \/ ClientResults
  /\ pc'["server"] = "results" => pc["server"] = "results" \/ ServerTestEnd

LEMMA OnlySideUntouched ==
  ASSUME NEW p \in Sides, OnlySide(p)
  PROVE  Untouched
<1>1. pc'["server"] = "results" => pc["server"] = "results" \/ ServerTestEnd
  BY DEF OnlySide, Sides
<1> QED
  BY <1>1 DEF OnlySide, Untouched

LEMMA StartOnly ==
  ASSUME TrafficTyped, DOMAIN pc = Sides, ServerStarts \/ ClientStarts
  PROVE  Untouched
<1>1. PICK p \in Sides : \E v \in {"select", "started"} :
        StartTest(p) /\ pc' = [pc EXCEPT ![p] = v] /\ pc[p] # "results"
  BY DEF ServerStarts, ClientStarts, Sides
<1>2. PICK a, b, c, d : StartBody(p, a, b, c, d)
  BY <1>1, StartParts, Zenon
<1>3. PICK f : st' = [st EXCEPT ![p] = f]
  BY <1>2, Zenon DEF StartBody
<1>4. omitting' = [omitting EXCEPT ![p] = omit # 0]
  BY <1>2 DEF StartBody
<1>5. DOMAIN st = Sides /\ omitting \in [Sides -> BOOLEAN]
  BY DEF TrafficTyped, StreamsTyped
<1>6. OnlySide(p)
  BY <1>1, <1>3, <1>4, <1>5 DEF OnlySide, NotYet
<1> QED
  BY <1>6, OnlySideUntouched

LEMMA PassOnly ==
  ASSUME TrafficTyped, DOMAIN pc = Sides, ClientPass \/ ServerPass
  PROVE  Untouched
<1>1. PICK p \in Sides : /\ Traffic(p) \/ NoTraffic
                         /\ pc[p] = "select" /\ omitting' = omitting
                         /\ pc' = [pc EXCEPT ![p] = "tmr_run"] \/ pc' = pc
  BY DEF ClientPass, ServerPass, RunTimers, Selects, Sides
<1>2. DOMAIN st = Sides
  BY DEF TrafficTyped, StreamsTyped
<1>3. \A q \in Sides : q # p => st'[q] = st[q]
  <2>1. CASE NoTraffic
    BY <2>1 DEF NoTraffic
  <2>2. CASE Traffic(p)
    <3>1. (p = Snd /\ Send) \/ (p = Rcv /\ Receive)
      BY <2>2, SideOfSender DEF Traffic
    <3>2. \E f : st' = [st EXCEPT ![p] = f]
      BY <3>1, Zenon DEF Send, Receive
    <3> QED
      BY <1>2, <3>2
  <2> QED
    BY <1>1, <2>1, <2>2
<1>4. OnlySide(p)
  BY <1>1, <1>3 DEF OnlySide, NotYet
<1> QED
  BY <1>4, OnlySideUntouched

LEMMA FireOnly ==
  ASSUME TrafficTyped, DOMAIN pc = Sides, NEW p \in Sides,
         \/ TestTimer \/ ServerTimer \/ TimersRun(p) \/ StatsTimer(p) \/ ReporterTimer(p)
         \/ OmitTimer(p) \/ SendTimer(p)
  PROVE  Untouched
<1>1. DOMAIN st = Sides /\ omitting \in [Sides -> BOOLEAN]
  BY DEF TrafficTyped, StreamsTyped
<1>2. ASSUME NEW q \in Sides, NEW proc, Fires(q, proc),
             st' = st \/ \E f : st' = [st EXCEPT ![q] = f],
             omitting' = omitting \/ \E o : omitting' = [omitting EXCEPT ![q] = o]
      PROVE  Untouched
  <2>1. pc' = pc /\ pc[q] = "tmr_run"
    BY <1>2 DEF Fires
  <2>2. OnlySide(q)
    BY <1>1, <1>2, <2>1 DEF OnlySide, NotYet
  <2> QED
    BY <2>2, OnlySideUntouched
<1>3. CASE TestTimer
  BY <1>2, <1>3 DEF TestTimer, Sides
<1>4. CASE ServerTimer
  <2>1. Fires("server", "test") /\ omitting' = omitting /\ "server" \in Sides
    BY <1>4 DEF ServerTimer, Sides
  <2>2. st' = st \/ \E f : st' = [st EXCEPT !["server"] = f]
    BY <1>4, Zenon DEF ServerTimer
  <2> QED
    BY <1>2, <2>1, <2>2
<1>5. CASE TimersRun(p)
  <2>1. /\ st' = st /\ omitting' = omitting
        /\ pc' = [pc EXCEPT ![p] = IF p = "client" THEN "check" ELSE "select"]
        /\ pc[p] = "tmr_run"
    BY <1>5 DEF TimersRun
  <2>2. OnlySide(p)
    BY <2>1 DEF OnlySide, NotYet
  <2> QED
    BY <2>2, OnlySideUntouched
<1>6. CASE StatsTimer(p)
  <2>1. Fires(p, "stats") /\ omitting' = omitting
    BY <1>6 DEF StatsTimer
  <2>2. st' = st \/ \E f : st' = [st EXCEPT ![p] = f]
    BY <1>6, Zenon DEF StatsTimer
  <2> QED
    BY <1>2, <2>1, <2>2
<1>7. CASE ReporterTimer(p)
  BY <1>2, <1>7 DEF ReporterTimer
<1>8. CASE OmitTimer(p)
  <2>1. Fires(p, "omit") /\ omitting' = [omitting EXCEPT ![p] = FALSE]
    BY <1>8 DEF OmitTimer
  <2>2. \E f : st' = [st EXCEPT ![p] = f]
    BY <1>8, Zenon DEF OmitTimer
  <2> QED
    BY <1>2, <2>1, <2>2
<1>9. CASE SendTimer(p)
  <2>1. Fires(p, "send") /\ omitting' = omitting
    BY <1>9 DEF SendTimer
  <2>2. \E i, x : st' = [st EXCEPT ![p][i] = x]
    BY <1>9, Zenon DEF SendTimer
  <2>3. \E f : st' = [st EXCEPT ![p] = f]
    BY <2>2, Zenon
  <2> QED
    BY <1>2, <2>1, <2>3
<1> QED
  BY <1>3, <1>4, <1>5, <1>6, <1>7, <1>8, <1>9

LEMMA EndOnly ==
  ASSUME TrafficTyped, DOMAIN pc = Sides,
         ClientChecks \/ ClientDrains \/ ServerTestEnd \/ ClientResults \/ ServerEnds
  PROVE  Untouched
<1>1. DOMAIN st = Sides /\ omitting \in [Sides -> BOOLEAN] /\ "client" \in Sides /\ "server" \in Sides
  BY DEF TrafficTyped, StreamsTyped, Sides
<1>2. CASE ClientChecks
  <2>1. omitting' = omitting /\ (st' = st \/ \E f : st' = [st EXCEPT !["client"] = f])
    BY <1>2, Zenon DEF ClientChecks
  <2>2. /\ pc' = [pc EXCEPT !["client"] = "results"] \/ pc' = [pc EXCEPT !["client"] = "select"]
        /\ pc["client"] = "check"
    BY <1>2 DEF ClientChecks
  <2>3. OnlySide("client")
    BY <1>1, <2>1, <2>2 DEF OnlySide, NotYet
  <2> QED
    BY <1>1, <2>3, OnlySideUntouched
<1>3. CASE ClientDrains
  BY <1>3 DEF ClientDrains, Untouched, Sides
<1>4. CASE ServerTestEnd
  <2>1. /\ omitting' = omitting /\ pc' = [pc EXCEPT !["server"] = "results"]
        /\ pc["server"] = "select" /\ \E f : st' = [st EXCEPT !["server"] = f]
    BY <1>4, Zenon DEF ServerTestEnd
  <2>2. OnlySide("server")
    BY <1>1, <1>4, <2>1 DEF OnlySide, NotYet
  <2> QED
    BY <1>1, <2>2, OnlySideUntouched
<1>5. CASE ClientResults
  <2>1. pc' = [client |-> "end", server |-> "select"]
    BY <1>5 DEF ClientResults
  <2> QED
    BY <1>5, <2>1 DEF Untouched, NotYet, Sides
<1>6. CASE ServerEnds
  <2>1. /\ omitting' = omitting /\ pc' = [pc EXCEPT !["server"] = "end"]
        /\ pc["server"] \in {"accept", "ready", "select"} /\ \E f : st' = [st EXCEPT !["server"] = f]
    BY <1>6, Zenon DEF ServerEnds
  <2>2. OnlySide("server")
    BY <1>1, <2>1 DEF OnlySide, NotYet
  <2> QED
    BY <1>1, <2>2, OnlySideUntouched
<1> QED
  BY <1>2, <1>3, <1>4, <1>5, <1>6

(* No step of a side reaches the streams of one that has not begun.         *)
LEMMA NextUntouched ==
  ASSUME TrafficTyped, TimersInv, Next
  PROVE  Untouched
<1>1. DOMAIN pc = Sides
  BY DEF TimersInv
<1>2. ASSUME UdpConnect \/ UdpAccept \/ UdpConnected \/ UdpConnectFails \/ ClientRuns
               \/ ClientTerminates \/ ClientClosed \/ Tick
      PROVE  Untouched
  <2>1. Still
    BY <1>1, <1>2, StillHandshake
  <2>2. st' = st
    BY <1>2 DEF UdpConnect, UdpAccept, UdpConnected, UdpConnectFails, ClientRuns,
                ClientTerminates, ClientClosed, Tick, testVars
  <2> QED
    BY <2>1, <2>2 DEF Still, Untouched
<1> QED
  BY <1>1, <1>2, StartOnly, PassOnly, FireOnly, EndOnly, Zenon DEF Next, Steps, Sides

SideIntervals(p) ==
  /\ \A i \in Streams : Tally(st[p][i], p = Snd, omitting[p])
  /\ pc[p] \in NotYet => ~omitting[p] /\ \A i \in Streams : st[p][i].intervals = <<>>

IntervalInv == \A p \in Sides : SideIntervals(p)

LEMMA IntervalInit ==
  ASSUME TrafficInit
  PROVE  IntervalInv
<1> SUFFICES ASSUME NEW p \in Sides
             PROVE  SideIntervals(p)
  BY DEF IntervalInv
<1>1. omitting[p] = FALSE
  BY DEF TrafficInit
<1>2. ASSUME NEW i \in Streams
      PROVE  Tally(st[p][i], p = Snd, FALSE) /\ st[p][i].intervals = <<>>
  <2> DEFINE s == st[p][i]
  <2>1. s = iperf_new_stream(i)
    BY DEF TrafficInit
  <2> HIDE DEF s
  <2>2. /\ s.sent = 0 /\ s.sent_omit = 0 /\ s.received = 0 /\ s.sent_iv = 0
        /\ s.received_iv = 0 /\ s.intervals = <<>>
    BY <2>1, NewStream
  <2>3. IntervalBytes(s) = 0
    BY <2>2, IntervalNone
  <2>4. Tally(s, p = Snd, FALSE)
    BY <2>2, <2>3 DEF Tally
  <2> QED
    BY <2>2, <2>4 DEF s
<1> QED
  BY <1>1, <1>2 DEF SideIntervals

(* The omit timer fires only in the omitted time.                           *)
LEMMA OmitFires ==
  ASSUME TimersInv, NEW p \in Sides, Fires(p, "omit")
  PROVE  omitting[p]
<1> DEFINE K == Held(ptr[p], st[p])
<1>1. PICK b \in Act(tmr[p]) : b.id = cursor /\ b.proc = "omit" /\ Slot(b) \in Slots
  BY FiredCell
<1>2. Linked(tmr[p], K) /\ Good(tmr[p])
  BY FiredCell
<1>3. Holds(K, ptr[p], st[p])
  BY HeldHolds
<1> HIDE DEF K
<1>4. K[Slot(b)] = cursor /\ Slot(b) = OmitSlot
  BY <1>1, <1>2, SlotOf DEF Linked
<1>5. b.id # NULL
  BY <1>2, ActiveCells, CellFields DEF NULL
<1>6. ptr[p].omit # NULL
  BY <1>1, <1>3, <1>4, <1>5 DEF Holds
<1> QED
  BY <1>6 DEF TimersInv, SideTimers

(* The sums after a step, stream by stream.                                 *)
TallyNext == \A p \in Sides : \A i \in Streams : Tally(st'[p][i], p = Snd, omitting'[p])

LEMMA TallyBegin ==
  ASSUME TrafficTyped, IntervalInv, ServerStarts \/ ClientStarts,
         \A p \in Sides : \A i \in Streams : Same(st[p][i], st'[p][i])
  PROVE  TallyNext
<1>1. PICK p \in Sides : StartTest(p) /\ pc[p] \in NotYet
  BY DEF ServerStarts, ClientStarts, Sides, NotYet
<1>2. omitting' = [omitting EXCEPT ![p] = omit # 0]
  BY <1>1 DEF StartTest
<1>3. omitting \in [Sides -> BOOLEAN]
  BY DEF TrafficTyped
<1>4. ASSUME NEW q \in Sides, NEW i \in Streams
      PROVE  Tally(st'[q][i], q = Snd, omitting[q])
  <2>1. Tally(st[q][i], q = Snd, omitting[q]) /\ Same(st[q][i], st'[q][i])
    BY DEF IntervalInv, SideIntervals
  <2> QED
    BY <2>1, TallySame DEF Same
<1>5. ASSUME NEW i \in Streams
      PROVE  Tally(st'[p][i], p = Snd, omitting'[p])
  <2>1. ~omitting[p] /\ st[p][i].intervals = <<>> /\ Same(st[p][i], st'[p][i])
    BY <1>1 DEF IntervalInv, SideIntervals
  <2>2. st'[p][i].intervals = <<>>
    BY <2>1 DEF Same
  <2>3. IntervalBytes(st'[p][i]) = 0
    BY <2>2, IntervalNone
  <2>4. Tally(st'[p][i], p = Snd, omitting[p])
    BY <1>4
  <2> QED
    BY <1>2, <1>3, <2>1, <2>3, <2>4 DEF Tally
<1> QED
  BY <1>2, <1>3, <1>4, <1>5 DEF TallyNext

LEMMA TallySend ==
  ASSUME TrafficTyped, IntervalInv, SendStep
  PROVE  TallyNext
<1>1. PICK sent \in SUBSET Streams, failed \in SUBSET Streams :
        /\ \A i \in sent : HasSent(st[Snd][i], st'[Snd][i], Elapsed(Snd), done[Snd])
        /\ \A i \in failed : HasFailed(st[Snd][i], st'[Snd][i])
        /\ \A i \in Streams \ (sent \cup failed) : st'[Snd][i] = st[Snd][i]
  BY DEF SendStep
<1>2. /\ st'[Rcv] = st[Rcv] /\ omitting' = omitting /\ omitting \in [Sides -> BOOLEAN]
      /\ Snd \in Sides /\ Rcv \in Sides /\ Snd # Rcv /\ Sides = {Snd, Rcv}
  BY SideOfSender DEF SendStep, TrafficTyped
<1>3. ASSUME NEW i \in Streams
      PROVE  Tally(st'[Snd][i], TRUE, omitting[Snd])
  <2> DEFINE s == st[Snd][i]
             r == st'[Snd][i]
             o == omitting[Snd]
  <2>1. IsStream(s) /\ Tally(s, TRUE, o) /\ o \in BOOLEAN
    BY <1>2 DEF TrafficTyped, StreamsTyped, IsStreamNo, IntervalInv, SideIntervals
  <2>2. \/ HasSent(s, r, Elapsed(Snd), done[Snd]) \/ HasFailed(s, r) \/ r = s
    BY <1>1
  <2> HIDE DEF s, r, o
  <2>3. Tally(r, TRUE, o)
    <3>1. CASE HasSent(s, r, Elapsed(Snd), done[Snd])
      BY <2>1, <3>1, TallySent
    <3>2. CASE HasFailed(s, r)
      BY <2>1, <3>2, TallySame DEF HasFailed
    <3> QED
      BY <2>1, <2>2, <3>1, <3>2
  <2> QED
    BY <2>3 DEF r, o
<1>4. ASSUME NEW i \in Streams
      PROVE  Tally(st'[Rcv][i], FALSE, omitting[Rcv])
  BY <1>2 DEF IntervalInv, SideIntervals
<1>5. ASSUME NEW p \in Sides, NEW i \in Streams
      PROVE  Tally(st'[p][i], p = Snd, omitting[p])
  <2>1. CASE p = Snd
    BY <1>3, <2>1 DEF Tally
  <2>2. CASE p = Rcv
    BY <1>2, <1>4, <2>2 DEF Tally
  <2> QED
    BY <1>2, <2>1, <2>2
<1> QED
  BY <1>2, <1>5 DEF TallyNext

LEMMA TallyReceive ==
  ASSUME TrafficTyped, IntervalInv, ReceiveStep
  PROVE  TallyNext
<1>1. ASSUME NEW i \in Streams
      PROVE  st'[Rcv][i] = st[Rcv][i] \/ \E n : HasReceived(st[Rcv][i], st'[Rcv][i], n)
  BY DEF ReceiveStep
<1>2. /\ st'[Snd] = st[Snd] /\ omitting' = omitting /\ omitting \in [Sides -> BOOLEAN]
      /\ Snd \in Sides /\ Rcv \in Sides /\ Snd # Rcv /\ Sides = {Snd, Rcv}
  BY SideOfSender DEF ReceiveStep, TrafficTyped
<1>3. ASSUME NEW i \in Streams
      PROVE  Tally(st'[Rcv][i], FALSE, omitting[Rcv])
  <2> DEFINE s == st[Rcv][i]
             r == st'[Rcv][i]
             o == omitting[Rcv]
  <2>1. IsStream(s) /\ o \in BOOLEAN
    BY <1>2 DEF TrafficTyped, StreamsTyped, IsStreamNo
  <2>2. Tally(s, FALSE, o)
    BY <1>2 DEF IntervalInv, SideIntervals
  <2>3. r = s \/ \E n : HasReceived(s, r, n)
    BY <1>1
  <2> HIDE DEF s, r, o
  <2>4. Tally(r, FALSE, o)
    BY <2>1, <2>2, <2>3, TallyReceived
  <2> QED
    BY <2>4 DEF r, o
<1>4. ASSUME NEW i \in Streams
      PROVE  Tally(st'[Snd][i], TRUE, omitting[Snd])
  BY <1>2 DEF IntervalInv, SideIntervals
<1>5. ASSUME NEW p \in Sides, NEW i \in Streams
      PROVE  Tally(st'[p][i], p = Snd, omitting[p])
  <2>1. CASE p = Snd
    BY <1>4, <2>1 DEF Tally
  <2>2. CASE p = Rcv
    BY <1>2, <1>3, <2>2 DEF Tally
  <2> QED
    BY <1>2, <2>1, <2>2
<1> QED
  BY <1>2, <1>5 DEF TallyNext

LEMMA TallySteps ==
  ASSUME TrafficTyped, TimersInv, IntervalInv, Next
  PROVE  TallyNext
<1>1. Kind
  BY NextKind
<1>2. omitting \in [Sides -> BOOLEAN] /\ \A p \in Sides : \A i \in Streams : IsStream(st[p][i])
  BY DEF TrafficTyped, StreamsTyped, IsStreamNo
<1>3. \A p \in Sides : \A i \in Streams : Tally(st[p][i], p = Snd, omitting[p])
  BY DEF IntervalInv, SideIntervals
<1>4. CASE SameStep
  <2>1. CASE omitting' = omitting
    <3>1. ASSUME NEW p \in Sides, NEW i \in Streams
          PROVE  Tally(st'[p][i], p = Snd, omitting[p])
      <4>1. Tally(st[p][i], p = Snd, omitting[p]) /\ Same(st[p][i], st'[p][i])
        BY <1>3, <1>4 DEF SameStep
      <4> QED
        BY <4>1, TallySame DEF Same
    <3> QED
      BY <2>1, <3>1 DEF TallyNext
  <2>2. CASE ServerStarts \/ ClientStarts
    BY <1>4, <2>2, TallyBegin DEF SameStep
  <2> QED
    BY <1>4, <2>1, <2>2 DEF SameStep
<1>5. CASE StatsStep
  <2>1. PICK p \in Sides :
          /\ \A i \in Streams : Collected(st[p][i], st'[p][i], p = Snd, omitting[p])
          /\ \A q \in Sides : q # p => st'[q] = st[q]
    BY <1>5 DEF StatsStep
  <2>2. omitting' = omitting
    BY <1>5 DEF StatsStep
  <2>3. ASSUME NEW i \in Streams
        PROVE  Tally(st'[p][i], p = Snd, omitting[p])
    <3>1. (p = Snd) \in BOOLEAN /\ omitting[p] \in BOOLEAN /\ IsStream(st[p][i])
      BY <1>2
    <3>2. /\ Tally(st[p][i], p = Snd, omitting[p])
          /\ Collected(st[p][i], st'[p][i], p = Snd, omitting[p])
      BY <1>3, <2>1
    <3> QED
      BY <3>1, <3>2, TallyCollected, Zenon
  <2> QED
    BY <1>3, <2>1, <2>2, <2>3 DEF TallyNext
<1>6. CASE OmitStep
  <2>1. PICK p \in Sides : /\ OmitTimer(p)
                           /\ \A i \in Streams : HasReset(st[p][i], st'[p][i])
                           /\ \A q \in Sides : q # p => st'[q] = st[q]
    BY <1>6 DEF OmitStep
  <2>2. Fires(p, "omit") /\ omitting' = [omitting EXCEPT ![p] = FALSE]
    BY <2>1 DEF OmitTimer
  <2>3. omitting[p] = TRUE
    BY <1>2, <2>2, OmitFires
  <2>4. ASSUME NEW i \in Streams
        PROVE  Tally(st'[p][i], p = Snd, FALSE)
    BY <1>2, <1>3, <2>1, <2>3, TallyReset
  <2>5. omitting'[p] = FALSE /\ \A q \in Sides : q # p => omitting'[q] = omitting[q]
    BY <1>2, <2>2
  <2> QED
    BY <1>3, <2>1, <2>4, <2>5 DEF TallyNext
<1>7. CASE SendStep
  BY <1>7, TallySend
<1>8. CASE ReceiveStep
  BY <1>8, TallyReceive
<1>9. CASE ResultStep
  <2>1. omitting' = omitting
    BY <1>9 DEF ResultStep, ClientResults
  <2>2. ASSUME NEW p \in Sides, NEW i \in Streams
        PROVE  Tally(st'[p][i], p = Snd, omitting[p])
    <3>1. PICK o : HasResults(st[p][i], st'[p][i], p = Snd, o)
      BY <1>9 DEF ResultStep
    <3> QED
      BY <1>3, <3>1, TallySame DEF HasResults
  <2> QED
    BY <2>1, <2>2 DEF TallyNext
<1> QED
  BY <1>1, <1>4, <1>5, <1>6, <1>7, <1>8, <1>9 DEF Kind

LEMMA IntervalNext ==
  ASSUME TrafficTyped, TimersInv, IntervalInv, [Next]_trafficVars
  PROVE  IntervalInv'
<1>1. CASE UNCHANGED trafficVars
  <2>1. \A p \in Sides : SideIntervals(p)' <=> SideIntervals(p)
    BY <1>1 DEF SideIntervals, trafficVars, Snd, Tally, IntervalBytes
  <2> QED
    BY <2>1 DEF IntervalInv
<1>2. CASE Next
  <2>1. TallyNext /\ Untouched /\ reverse' = reverse
    BY <1>2, TallySteps, NextUntouched, NextKind
  <2>2. Snd' = Snd
    BY <2>1, SideOfSender
  <2>3. ASSUME NEW p \in Sides
        PROVE  SideIntervals(p)'
    <3>1. \A i \in Streams : Tally(st'[p][i], p = Snd, omitting'[p])
      BY <2>1 DEF TallyNext
    <3>2. \A i \in Streams : Tally(st[p][i], p = Snd, omitting[p])'
      BY <2>2, <3>1 DEF Tally, IntervalBytes
    <3>3. pc'[p] \in NotYet => ~omitting'[p] /\ \A i \in Streams : st'[p][i].intervals = <<>>
      BY <2>1 DEF Untouched, IntervalInv, SideIntervals
    <3> QED
      BY <3>2, <3>3 DEF SideIntervals
  <2> QED
    BY <2>3 DEF IntervalInv
<1> QED
  BY <1>1, <1>2

(* The reports. The server's report is of the streams as they stay until    *)
(* the client has the results, and a client that has reported does nothing. *)
Received(p) == SumFunction([i \in Streams |-> st[p][i].received])

ReportInv ==
  /\ DOMAIN report = Sides
  /\ pc["server"] = "results" => report["server"][1].received = Received("server")
  /\ report["client"] # <<>> => pc["client"] = "end" /\ ctl \in {"IPERF_DONE", "closed"}
  /\ ~reverse /\ report["client"] # <<>> =>
       report["client"][1].received = report["server"][1].received

LEMMA ReportInit ==
  ASSUME TrafficInit
  PROVE  ReportInv
<1>1. report = [p \in Sides |-> <<>>] /\ pc["server"] = "accept" /\ "client" \in Sides
  BY DEF TrafficInit, Sides
<1> QED
  BY <1>1 DEF ReportInv

(* A client that has ended stays so, and only its server still speaks.      *)
LEMMA ClientEnded ==
  ASSUME DOMAIN pc = Sides, pc["client"] = "end", Next
  PROVE  pc'["client"] = "end" /\ ctl' \in {ctl, "closed"} /\ ~ClientResults
<1>0. "client" \in Sides /\ "server" \in Sides
  BY DEF Sides
<1>1. ~UdpConnect /\ ~UdpConnected /\ ~UdpConnectFails
  BY DEF UdpConnect, UdpConnected, UdpConnectFails
<1>2. ~ClientStarts /\ ~ClientRuns /\ ~ClientPass /\ ~TestTimer
  BY DEF ClientStarts, ClientRuns, ClientPass, Selects, TestTimer, Fires
<1>3. ~ClientChecks /\ ~ClientDrains /\ ~ClientTerminates /\ ~ClientClosed /\ ~ClientResults
  BY DEF ClientChecks, ClientDrains, ClientTerminates, ClientClosed, ClientResults
<1>4. CASE UdpAccept
  BY <1>0, <1>3, <1>4 DEF UdpAccept
<1>5. CASE ServerStarts
  BY <1>0, <1>3, <1>5 DEF ServerStarts
<1>6. CASE ServerPass
  BY <1>0, <1>3, <1>6 DEF ServerPass, RunTimers
<1>7. CASE ServerTimer
  BY <1>0, <1>3, <1>7 DEF ServerTimer, Fires
<1>8. ASSUME NEW p \in Sides,
             TimersRun(p) \/ StatsTimer(p) \/ ReporterTimer(p) \/ OmitTimer(p) \/ SendTimer(p)
      PROVE  pc'["client"] = "end" /\ ctl' = ctl
  <2>1. CASE TimersRun(p)
    BY <1>0, <2>1 DEF TimersRun
  <2>2. CASE StatsTimer(p) \/ ReporterTimer(p) \/ OmitTimer(p) \/ SendTimer(p)
    BY <2>2 DEF StatsTimer, ReporterTimer, OmitTimer, SendTimer, Fires
  <2> QED
    BY <1>8, <2>1, <2>2
<1>9. CASE ServerTestEnd
  BY <1>0, <1>3, <1>9 DEF ServerTestEnd
<1>10. CASE ServerEnds
  BY <1>0, <1>3, <1>10 DEF ServerEnds
<1>11. CASE Tick
  BY <1>3, <1>11 DEF Tick
<1> QED
  BY <1>1, <1>2, <1>3, <1>4, <1>5, <1>6, <1>7, <1>8, <1>9, <1>10, <1>11 DEF Next, Steps

LEMMA ReportsKept ==
  ASSUME Next
  PROVE  report' = report \/ ServerTestEnd \/ ClientResults \/ ServerEnds
<1>1. ASSUME UdpConnect \/ UdpAccept \/ UdpConnected \/ UdpConnectFails \/ ClientRuns
               \/ ClientTerminates \/ ClientClosed \/ Tick
      PROVE  report' = report
  BY <1>1 DEF UdpConnect, UdpAccept, UdpConnected, UdpConnectFails, ClientRuns,
              ClientTerminates, ClientClosed, Tick, testVars
<1>2. ASSUME ServerStarts \/ ClientStarts \/ ClientPass \/ ServerPass \/ ClientChecks \/ ClientDrains
      PROVE  report' = report
  BY <1>2 DEF ServerStarts, ClientStarts, ClientPass, ServerPass, ClientChecks, ClientDrains
<1>3. ASSUME TestTimer \/ ServerTimer
      PROVE  report' = report
  BY <1>3 DEF TestTimer, ServerTimer, Fires
<1>4. ASSUME NEW p \in Sides,
             TimersRun(p) \/ StatsTimer(p) \/ ReporterTimer(p) \/ OmitTimer(p) \/ SendTimer(p)
      PROVE  report' = report
  BY <1>4 DEF TimersRun, StatsTimer, ReporterTimer, OmitTimer, SendTimer, Fires
<1> QED
  BY <1>1, <1>2, <1>3, <1>4, Zenon DEF Next, Steps

(* The sender learns what the receiver has counted.                         *)
LEMMA ResultReceived ==
  ASSUME TrafficTyped, Next, ClientResults, Snd = "client", Rcv = "server"
  PROVE  \A i \in Streams : st'["client"][i].received = st["server"][i].received
<1>1. ResultStep
  BY ResultDoes
<1>2. ASSUME NEW i \in Streams
      PROVE  st'["client"][i].received = st["server"][i].received
  <2>1. PICK o : /\ HasResults(st["client"][i], st'["client"][i], "client" = Snd, o)
                 /\ o = st["server"][i]
    BY <1>1 DEF ResultStep, Sides
  <2> QED
    BY <2>1 DEF HasResults
<1> QED
  BY <1>2

LEMMA ReportNext ==
  ASSUME TrafficTyped, TimersInv, ReportInv, [Next]_trafficVars
  PROVE  ReportInv'
<1>0. DOMAIN pc = Sides /\ "client" \in Sides /\ "server" \in Sides /\ DOMAIN report = Sides
  BY DEF TimersInv, Sides, ReportInv
<1>1. CASE UNCHANGED trafficVars
  BY <1>1 DEF ReportInv, trafficVars, Received
<1>2. CASE Next /\ report' = report
  <2>1. Untouched /\ reverse' = reverse
    BY <1>2, NextUntouched, NextKind
  <2>2. report["client"] # <<>> => pc'["client"] = "end" /\ ctl' \in {"IPERF_DONE", "closed"}
    BY <1>0, <1>2, ClientEnded DEF ReportInv
  <2>3. pc'["server"] = "results" => report["server"][1].received = Received("server")'
    <3> SUFFICES ASSUME pc'["server"] = "results"
                 PROVE  report["server"][1].received = Received("server")'
      OBVIOUS
    <3>1. CASE pc["server"] = "results" /\ st'["server"] = st["server"]
      BY <3>1 DEF ReportInv, Received
    <3>2. CASE ServerTestEnd
      <4>1. report' = [report EXCEPT !["server"] =
                         <<iperf_print_results(st'["server"], "server" = Snd)>>]
        BY <3>2 DEF ServerTestEnd
      <4>2. report'["server"][1].received = Received("server")'
        BY <1>0, <4>1 DEF iperf_print_results, Received
      <4> QED
        BY <1>2, <4>2
    <3>3. ~ClientResults
      BY <1>0 DEF ClientResults
    <3> QED
      BY <1>0, <2>1, <3>1, <3>2, <3>3 DEF Untouched
  <2> QED
    BY <1>2, <2>1, <2>2, <2>3 DEF ReportInv
<1>3. CASE Next /\ ServerTestEnd
  <2>1. /\ report' = [report EXCEPT !["server"] =
                        <<iperf_print_results(st'["server"], "server" = Snd)>>]
        /\ ctl = "TEST_END"
    BY <1>3 DEF ServerTestEnd
  <2>2. report'["server"][1].received = Received("server")'
    BY <1>0, <2>1 DEF iperf_print_results, Received
  <2>3. report["client"] = <<>> /\ report'["client"] = report["client"] /\ DOMAIN report' = Sides
    BY <1>0, <2>1 DEF ReportInv
  <2> QED
    BY <2>2, <2>3 DEF ReportInv
<1>4. CASE Next /\ ClientResults
  <2>1. /\ report' = [report EXCEPT !["client"] =
                        <<iperf_print_results(st'["client"], "client" = Snd)>>]
        /\ pc' = [client |-> "end", server |-> "select"] /\ ctl' = "IPERF_DONE"
        /\ pc["server"] = "results"
    BY <1>4 DEF ClientResults
  <2>2. reverse' = reverse /\ Kind
    BY <1>4, NextKind
  <2>3. /\ DOMAIN report' = Sides /\ report'["server"] = report["server"]
        /\ report'["client"][1].received = Received("client")'
    BY <1>0, <2>1 DEF iperf_print_results, Received
  <2>4. ASSUME ~reverse
        PROVE  Received("client")' = Received("server")
    <3>1. Snd = "client" /\ Rcv = "server"
      BY <2>4 DEF Snd, Rcv
    <3>2. \A i \in Streams : st'["client"][i].received = st["server"][i].received
      BY <1>0, <1>4, <3>1, ResultReceived
    <3>3. [i \in Streams |-> st'["client"][i].received] = [i \in Streams |-> st["server"][i].received]
      BY <3>2
    <3> QED
      BY <3>3 DEF Received
  <2>5. report["server"][1].received = Received("server")
    BY <2>1 DEF ReportInv
  <2> QED
    BY <2>1, <2>2, <2>3, <2>4, <2>5 DEF ReportInv
<1>5. CASE Next /\ ServerEnds
  <2>1. /\ report' = report \/ (ctl = "CLIENT_TERMINATE" /\ DOMAIN report' = Sides
                                 /\ report'["client"] = report["client"])
        /\ pc'["server"] = "end" /\ ctl' = ctl
    BY <1>0, <1>5 DEF ServerEnds
  <2>2. report["client"] # <<>> => report' = report /\ pc'["client"] = "end"
    BY <1>0, <1>5, <2>1, ClientEnded DEF ReportInv
  <2>3. report'["client"] = report["client"] /\ DOMAIN report' = Sides
    BY <1>0, <2>1
  <2>4. reverse' = reverse
    BY <1>5, NextKind
  <2> QED
    BY <2>1, <2>2, <2>3, <2>4 DEF ReportInv
<1> QED
  BY <1>1, <1>2, <1>3, <1>4, <1>5, ReportsKept

LEMMA IntervalFollows ==
  ASSUME IntervalInv, ReportInv
  PROVE  IntervalsAddUp
<1>1. Snd \in Sides /\ Rcv \in Sides /\ Snd # Rcv
  BY SideOfSender
<1>2. ASSUME NEW i \in Streams, ~omitting[Snd]
      PROVE  IntervalBytes(st[Snd][i]) + st[Snd][i].sent_iv = st[Snd][i].sent - st[Snd][i].sent_omit
  BY <1>1, <1>2 DEF IntervalInv, SideIntervals, Tally
<1>3. ASSUME NEW i \in Streams, ~omitting[Rcv]
      PROVE  IntervalBytes(st[Rcv][i]) + st[Rcv][i].received_iv = st[Rcv][i].received
  BY <1>1, <1>3 DEF IntervalInv, SideIntervals, Tally
<1>4. ~reverse /\ report["client"] # <<>> =>
        report["client"][1].received = report["server"][1].received
  BY DEF ReportInv
<1> QED
  BY <1>2, <1>3, <1>4, Zenon DEF IntervalsAddUp

(* Once the omitted time is over, the intervals that a side has collected   *)
(* for a stream and the one in progress add up to what it reports for the   *)
(* whole test, whatever the order of omit timer, statistics timer and end   *)
(* of the test; and a client that sends reports as received what the server *)
(* has reported itself.                                                     *)
THEOREM AlwaysIntervalsAddUp == Spec => []IntervalsAddUp
<1>1. TrafficInit => IntervalInv /\ ReportInv
  BY IntervalInit, ReportInit
<1>2. TrafficTyped /\ TimersInv /\ IntervalInv /\ [Next]_trafficVars => IntervalInv'
  BY IntervalNext
<1>3. TrafficTyped /\ TimersInv /\ ReportInv /\ [Next]_trafficVars => ReportInv'
  BY ReportNext
<1>4. IntervalInv /\ ReportInv => IntervalsAddUp
  BY IntervalFollows
<1> QED
  BY <1>1, <1>2, <1>3, <1>4, StreamsStayTyped, TimersStayLinked, PTL DEF Spec

---------------------------------------------------------------------------------
(* The rate. A client that is done does not send: the test timer comes      *)
(* after the omit timer, and tmr_run takes them in this order, so the       *)
(* question after the timers ends the test. Where the cursor of tmr_run     *)
(* stands in the list decides it.                                           *)

LEMMA NextBefore ==
  ASSUME NEW L, Good(L), NEW x, NEW y, Before(L.active, x, y)
  PROVE  /\ NextOf(L, x) = y \/ Before(L.active, NextOf(L, x), y)
         /\ NextOf(L, x) # x
<1> DEFINE a == L.active
<1>1. a \in Seq(Cells) /\ Len(a) \in Nat /\ DOMAIN a = 1 .. Len(a) /\ Distinct(a)
  BY DEF Good
<1>2. PICK i \in 1 .. Len(a), j \in 1 .. Len(a) : i < j /\ a[i].id = x /\ a[j].id = y
  BY DEF Before
<1>3. x \in Ids(L)
  BY <1>1, <1>2 DEF Ids
<1> DEFINE k == CHOOSE k \in DOMAIN a : a[k].id = x
<1>4. k = i
  <2>1. \A n \in DOMAIN a : a[n].id = x => n = i
    BY <1>1, <1>2 DEF Distinct
  <2> QED
    BY <1>1, <1>2, <2>1
<1>5. NextOf(L, x) = IF k = Len(a) THEN NULL ELSE a[k + 1].id
  BY <1>3 DEF NextOf
<1> HIDE DEF k
<1>6. i # Len(a) /\ i + 1 \in 1 .. Len(a) /\ (i + 1 = j \/ i + 1 < j)
  BY <1>1, <1>2
<1>7. NextOf(L, x) = a[i + 1].id
  BY <1>4, <1>5, <1>6
<1>8. NextOf(L, x) # x
  BY <1>1, <1>2, <1>6, <1>7 DEF Distinct
<1> QED
  BY <1>2, <1>6, <1>7, <1>8 DEF Before

LEMMA FirstBefore ==
  ASSUME NEW L, Good(L), NEW d \in Act(L)
  PROVE  First(L) = d.id \/ Before(L.active, First(L), d.id)
<1> DEFINE a == L.active
<1>1. a \in Seq(Cells) /\ Len(a) \in Nat
  BY DEF Good
<1>2. PICK j \in 1 .. Len(a) : d = a[j]
  BY DEF Act, Members
<1>3. a # <<>> /\ 1 \in 1 .. Len(a) /\ (j = 1 \/ 1 < j)
  BY <1>1, <1>2
<1>4. First(L) = a[1].id
  BY <1>1, <1>3 DEF First
<1> QED
  BY <1>2, <1>3, <1>4 DEF Before

LEMMA BeforeSorted ==
  ASSUME NEW L, Good(L), NEW c \in Act(L), NEW d \in Act(L), Before(L.active, c.id, d.id)
  PROVE  Us(c) <= Us(d)
<1>1. PICK i \in 1 .. Len(L.active), j \in 1 .. Len(L.active) :
        i < j /\ L.active[i].id = c.id /\ L.active[j].id = d.id
  BY DEF Before
<1>2. L.active[i] \in Act(L) /\ L.active[j] \in Act(L)
  BY DEF Act, Members
<1>3. L.active[i] = c /\ L.active[j] = d
  BY <1>1, <1>2, ActiveCells
<1> QED
  BY <1>1, <1>3 DEF Good, Sorted

(* The omit timer of the client is due before its test timer, and tmr_run   *)
(* has not passed it.                                                       *)
Timely(L) == \A c, d \in Act(L) : c.proc = "test" /\ d.proc = "omit" => Us(d) < Us(c)

Ahead(L, x, y) == x = y \/ Before(L.active, x, y)

PaceInv ==
  /\ ptr["client"].omit # NULL =>
       /\ Timely(tmr["client"])
       /\ pc["client"] = "tmr_run" => Ahead(tmr["client"], cursor, ptr["client"].omit)
  /\ omitting["client"] => ptr["client"].omit # NULL
  /\ done["client"] =>
       ~omitting["client"] /\ pc["client"] \in {"tmr_run", "check", "results", "end"}
  /\ pc["client"] = "tmr_run" => pc["server"] # "tmr_run"

LEMMA PaceInit ==
  ASSUME TrafficInit
  PROVE  PaceInv
<1>1. ptr["client"].omit = NULL /\ ~omitting["client"] /\ ~done["client"]
  BY DEF TrafficInit, Sides, NoPtr
<1>2. pc["client"] = "connect"
  BY DEF TrafficInit
<1> QED
  BY <1>1, <1>2 DEF PaceInv

(* The cell of the omit timer, while the pointer is set.                    *)
LEMMA OmitCell ==
  ASSUME TimersInv, NEW p \in Sides, ptr[p].omit # NULL
  PROVE  \E d \in Act(tmr[p]) : d.id = ptr[p].omit /\ d.proc = "omit"
<1> DEFINE K == Held(ptr[p], st[p])
<1>1. Linked(tmr[p], K)
  BY DEF TimersInv, SideTimers
<1>2. Holds(K, ptr[p], st[p])
  BY HeldHolds
<1> HIDE DEF K
<1>3. K[OmitSlot] = ptr[p].omit /\ OmitSlot \in Slots
  BY <1>2, SlotCases DEF Holds
<1>4. PICK d \in Act(tmr[p]) : Slot(d) = OmitSlot /\ d.id = K[OmitSlot]
  BY <1>1, <1>3, LinkedNames
<1>5. d.proc = "omit"
  BY <1>4 DEF Slot, OmitSlot
<1> QED
  BY <1>3, <1>4, <1>5

(* As the test timer of the client fires, the omitted time is over.         *)
LEMMA TestAfterOmit ==
  ASSUME TimersInv, PaceInv, Fires("client", "test")
  PROVE  ptr["client"].omit = NULL
<1> SUFFICES ASSUME ptr["client"].omit # NULL
             PROVE  FALSE
  OBVIOUS
<1> DEFINE L == tmr["client"]
<1>0. "client" \in Sides
  BY DEF Sides
<1>1. PICK c \in Act(L) : c.id = cursor /\ c.proc = "test"
  BY <1>0, FiredCell
<1>2. Good(L) /\ pc["client"] = "tmr_run"
  BY <1>0, FiredCell
<1>3. PICK d \in Act(L) : d.id = ptr["client"].omit /\ d.proc = "omit"
  BY <1>0, OmitCell
<1>4. Timely(L) /\ Ahead(L, cursor, ptr["client"].omit)
  BY <1>2 DEF PaceInv
<1>5. c # d
  BY <1>1, <1>3
<1>6. c.id # d.id
  BY <1>2, <1>5, ActiveCells
<1>7. Before(L.active, c.id, d.id)
  BY <1>1, <1>3, <1>4, <1>6 DEF Ahead
<1>8. Us(c) <= Us(d) /\ Us(c) \in Nat /\ Us(d) \in Nat
  <2> HIDE DEF L
  <2> QED
    BY <1>2, <1>7, BeforeSorted, ActiveCells, CellFields
<1>9. Us(d) < Us(c)
  BY <1>1, <1>3, <1>4 DEF Timely
<1> QED
  BY <1>8, <1>9

(* Another timer fires and finds its next place.                            *)
LEMMA RepeatAhead ==
  ASSUME NEW L, Good(L), NEW c \in Act(L), NEW d \in Act(L), c.proc \notin {"test", "omit"},
         d.proc = "omit", NEW R, Moved(L, c, R), Timely(L), Ahead(L, c.id, d.id)
  PROVE  Timely(R) /\ Ahead(R, NextOf(L, c.id), d.id)
<1>1. PICK e \in Cells : /\ e.id = c.id /\ e.proc = c.proc
                         /\ Act(R) = (Act(L) \ {c}) \cup {e}
  BY DEF Moved
<1>2. Timely(R)
  BY <1>1 DEF Timely
<1>3. c.id # d.id
  BY ActiveCells
<1>4. Before(L.active, c.id, d.id)
  BY <1>3 DEF Ahead
<1> DEFINE n == NextOf(L, c.id)
<1>5. (n = d.id \/ Before(L.active, n, d.id)) /\ n # c.id
  BY <1>4, NextBefore
<1> QED
  BY <1>2, <1>3, <1>5 DEF Moved, Ahead

(* A step that leaves the client's timers alone and its place in tmr_run.   *)
Passive ==
  /\ tmr'["client"] = tmr["client"] /\ ptr'["client"] = ptr["client"]
  /\ omitting'["client"] = omitting["client"] /\ done'["client"] = done["client"]
  /\ pc'["client"] = "tmr_run" =>
       /\ pc["client"] = "tmr_run" /\ cursor' = cursor
       /\ pc'["server"] = "tmr_run" => pc["server"] = "tmr_run"
  /\ pc["client"] \in {"tmr_run", "check", "results", "end"} =>
       pc'["client"] \in {"tmr_run", "check", "results", "end"}

LEMMA PassivePace ==
  ASSUME PaceInv, Passive
  PROVE  PaceInv'
<1>1. ptr'["client"].omit # NULL =>
        /\ Timely(tmr'["client"])
        /\ pc'["client"] = "tmr_run" => Ahead(tmr'["client"], cursor', ptr'["client"].omit)
  BY DEF PaceInv, Passive
<1>2. omitting'["client"] => ptr'["client"].omit # NULL
  BY DEF PaceInv, Passive
<1>3. done'["client"] =>
        ~omitting'["client"] /\ pc'["client"] \in {"tmr_run", "check", "results", "end"}
  BY DEF PaceInv, Passive
<1>4. pc'["client"] = "tmr_run" => pc'["server"] # "tmr_run"
  BY DEF PaceInv, Passive
<1> QED
  BY <1>1, <1>2, <1>3, <1>4 DEF PaceInv

LEMMA PassiveHandshake ==
  ASSUME TimersInv, \/ UdpConnect \/ UdpAccept \/ UdpConnected \/ UdpConnectFails
                    \/ ClientRuns \/ ClientTerminates \/ ClientClosed \/ Tick
  PROVE  Passive
<1>1. /\ tmr' = tmr /\ ptr' = ptr /\ omitting' = omitting /\ done' = done /\ cursor' = cursor
  BY DEF UdpConnect, UdpAccept, UdpConnected, UdpConnectFails, ClientRuns, ClientTerminates,
         ClientClosed, Tick, testVars
<1>2. DOMAIN pc = Sides /\ "client" \in Sides /\ "server" \in Sides
  BY DEF TimersInv, Sides
<1>3. ASSUME NEW v, pc' = [pc EXCEPT !["client"] = v], v # "tmr_run",
             v = "end" \/ pc["client"] \notin {"tmr_run", "check", "results", "end"}
      PROVE  Passive
  BY <1>1, <1>2, <1>3 DEF Passive
<1>4. CASE UdpConnect
  BY <1>3, <1>4 DEF UdpConnect
<1>5. CASE UdpAccept
  <2>1. pc' = [pc EXCEPT !["server"] = "ready"] \/ pc' = [pc EXCEPT !["server"] = "accept"]
    BY <1>5 DEF UdpAccept
  <2> QED
    BY <1>1, <1>2, <2>1 DEF Passive
<1>6. CASE UdpConnected
  BY <1>3, <1>6 DEF UdpConnected
<1>7. CASE UdpConnectFails
  BY <1>3, <1>7 DEF UdpConnectFails
<1>8. CASE ClientRuns
  BY <1>3, <1>8 DEF ClientRuns
<1>9. CASE ClientTerminates
  BY <1>3, <1>9 DEF ClientTerminates
<1>10. CASE ClientClosed
  BY <1>3, <1>10 DEF ClientClosed
<1>11. CASE Tick
  <2>1. pc' = pc
    BY <1>11 DEF Tick
  <2> QED
    BY <1>1, <2>1 DEF Passive
<1> QED
  BY <1>4, <1>5, <1>6, <1>7, <1>8, <1>9, <1>10, <1>11

(* What the server does does not concern the client's timers.               *)
LEMMA PassiveServer ==
  ASSUME TrafficTyped, TimersInv, PaceInv,
         \/ ServerStarts \/ ServerPass \/ ServerTimer \/ ServerTestEnd \/ ServerEnds
         \/ TimersRun("server") \/ StatsTimer("server") \/ ReporterTimer("server")
         \/ OmitTimer("server") \/ SendTimer("server")
  PROVE  Passive
<1>1. /\ DOMAIN pc = Sides /\ DOMAIN tmr = Sides /\ DOMAIN ptr = Sides
      /\ DOMAIN omitting = Sides /\ DOMAIN done = Sides
      /\ "client" \in Sides /\ "server" \in Sides
  BY DEF TimersInv, TrafficTyped, Sides
<1> DEFINE Mine == /\ tmr'["client"] = tmr["client"] /\ ptr'["client"] = ptr["client"]
                   /\ omitting'["client"] = omitting["client"] /\ done'["client"] = done["client"]
<1>2. ASSUME Mine, pc' = [pc EXCEPT !["server"] = "tmr_run"] \/ pc' = pc,
             cursor' = cursor \/ pc["client"] # "tmr_run",
             pc["client"] = "tmr_run" => pc' = pc
      PROVE  Passive
  BY <1>1, <1>2 DEF Passive
<1>3. ASSUME NEW v, Mine, pc' = [pc EXCEPT !["server"] = v], v # "tmr_run",
             cursor' = cursor \/ pc["client"] # "tmr_run"
      PROVE  Passive
  BY <1>1, <1>3 DEF Passive
<1>4. CASE ServerStarts
  <2>1. /\ StartTest("server") /\ pc' = [pc EXCEPT !["server"] = "select"]
        /\ cursor' = cursor /\ done' = done
    BY <1>4 DEF ServerStarts
  <2>2. PICK a, b, c, d : StartBody("server", a, b, c, d)
    BY <2>1, StartParts, Zenon
  <2>3. \E R, P, o : /\ tmr' = [tmr EXCEPT !["server"] = R] /\ ptr' = [ptr EXCEPT !["server"] = P]
                     /\ omitting' = [omitting EXCEPT !["server"] = o]
    BY <2>2, Zenon DEF StartBody
  <2>4. Mine
    BY <1>1, <2>1, <2>3
  <2> QED
    BY <1>3, <2>1, <2>4
<1>5. CASE ServerPass
  <2>1. tmr' = tmr /\ ptr' = ptr /\ omitting' = omitting /\ done' = done
    BY <1>5 DEF ServerPass
  <2>2. ~Busy /\ (pc' = [pc EXCEPT !["server"] = "tmr_run"] \/ (pc' = pc /\ cursor' = cursor))
    BY <1>5 DEF ServerPass, Selects, RunTimers
  <2>3. pc["client"] # "tmr_run"
    BY <2>2 DEF Busy
  <2> QED
    BY <1>2, <2>1, <2>2, <2>3
<1>6. CASE ServerTestEnd
  <2>1. /\ tmr' = tmr /\ ptr' = ptr /\ omitting' = omitting /\ cursor' = cursor
        /\ done' = [done EXCEPT !["server"] = TRUE] /\ pc' = [pc EXCEPT !["server"] = "results"]
    BY <1>6 DEF ServerTestEnd
  <2>2. Mine
    BY <1>1, <2>1
  <2> QED
    BY <1>3, <2>1, <2>2
<1>7. CASE ServerEnds
  <2>1. /\ \E R : tmr' = [tmr EXCEPT !["server"] = R]
        /\ ptr' = [ptr EXCEPT !["server"] = NoPtr] /\ omitting' = omitting /\ cursor' = cursor
        /\ done' = done /\ pc' = [pc EXCEPT !["server"] = "end"]
    BY <1>7, Zenon DEF ServerEnds
  <2>2. Mine
    BY <1>1, <2>1
  <2> QED
    BY <1>3, <2>1, <2>2
<1>8. CASE TimersRun("server")
  <2>1. /\ tmr' = tmr /\ ptr' = ptr /\ omitting' = omitting /\ done' = done
        /\ pc["server"] = "tmr_run" /\ pc' = [pc EXCEPT !["server"] = "select"]
    BY <1>8 DEF TimersRun
  <2>2. pc["client"] # "tmr_run"
    BY <2>1 DEF PaceInv
  <2> QED
    BY <1>3, <2>1, <2>2
<1>9. ASSUME NEW proc, Fires("server", proc), Mine
      PROVE  Passive
  <2>1. pc' = pc /\ pc["server"] = "tmr_run"
    BY <1>9 DEF Fires
  <2>2. pc["client"] # "tmr_run"
    BY <2>1 DEF PaceInv
  <2> QED
    BY <1>2, <1>9, <2>1, <2>2
<1>10. CASE ServerTimer
  <2>1. /\ Fires("server", "test") /\ \E R : tmr' = [tmr EXCEPT !["server"] = R]
        /\ ptr' = [ptr EXCEPT !["server"].timer = NULL] /\ omitting' = omitting
        /\ done' = [done EXCEPT !["server"] = TRUE]
    BY <1>10, Zenon DEF ServerTimer, Puts
  <2>2. Mine
    BY <1>1, <2>1
  <2> QED
    BY <1>9, <2>1, <2>2
<1>11. CASE StatsTimer("server") \/ ReporterTimer("server") \/ SendTimer("server")
  <2>1. /\ Fires("server", "stats") \/ Fires("server", "reporter") \/ Fires("server", "send")
        /\ \E R : tmr' = [tmr EXCEPT !["server"] = R]
        /\ ptr' = ptr /\ omitting' = omitting /\ done' = done
    BY <1>11, Zenon DEF StatsTimer, ReporterTimer, SendTimer, Puts
  <2>2. Mine
    BY <1>1, <2>1
  <2> QED
    BY <1>9, <2>1, <2>2
<1>12. CASE OmitTimer("server")
  <2>1. /\ Fires("server", "omit") /\ \E R : tmr' = [tmr EXCEPT !["server"] = R]
        /\ ptr' = [ptr EXCEPT !["server"].omit = NULL]
        /\ omitting' = [omitting EXCEPT !["server"] = FALSE] /\ done' = done
    BY <1>12, Zenon DEF OmitTimer, Puts
  <2>2. Mine
    BY <1>1, <2>1
  <2> QED
    BY <1>9, <2>1, <2>2
<1> QED
  BY <1>4, <1>5, <1>6, <1>7, <1>8, <1>10, <1>11, <1>12

(* The client's own steps.                                                  *)
LEMMA ClientPace ==
  ASSUME TrafficTyped, TimersInv, TimersKept, PaceInv,
         \/ ClientPass \/ TestTimer \/ TimersRun("client") \/ ClientChecks \/ ClientDrains
         \/ StatsTimer("client") \/ ReporterTimer("client") \/ SendTimer("client")
         \/ OmitTimer("client") \/ ClientResults
  PROVE  PaceInv'
<1>1. /\ DOMAIN pc = Sides /\ DOMAIN tmr = Sides /\ DOMAIN ptr = Sides
      /\ DOMAIN omitting = Sides /\ done \in [Sides -> BOOLEAN]
      /\ "client" \in Sides /\ "server" \in Sides
      /\ DOMAIN ptr["client"] = PtrFields /\ Good(tmr["client"])
  BY DEF TimersInv, TrafficTyped, Sides, SideTimers, Linked
<1>2. CASE ClientPass
  <2>1. /\ tmr' = tmr /\ ptr' = ptr /\ omitting' = omitting /\ done' = done
        /\ pc' = [pc EXCEPT !["client"] = "tmr_run"] /\ cursor' = First(tmr["client"])
        /\ pc["client"] = "select" /\ ~Busy
    BY <1>2 DEF ClientPass, RunTimers, Selects
  <2>2. ptr["client"].omit # NULL => Ahead(tmr["client"], First(tmr["client"]), ptr["client"].omit)
    BY <1>1, OmitCell, FirstBefore DEF Ahead
  <2>3. pc["server"] # "tmr_run"
    BY <2>1 DEF Busy
  <2> QED
    BY <1>1, <2>1, <2>2, <2>3 DEF PaceInv
<1>3. CASE TestTimer
  <2>1. /\ Fires("client", "test") /\ ptr' = [ptr EXCEPT !["client"].timer = NULL]
        /\ omitting' = omitting
    BY <1>3 DEF TestTimer
  <2>2. ptr["client"].omit = NULL
    BY <2>1, TestAfterOmit
  <2>3. ptr'["client"].omit = NULL
    BY <1>1, <2>1, <2>2 DEF PtrFields
  <2>4. pc' = pc /\ pc["client"] = "tmr_run" /\ ~omitting["client"]
    BY <2>1, <2>2 DEF Fires, PaceInv
  <2> QED
    BY <2>1, <2>3, <2>4 DEF PaceInv
<1>4. CASE TimersRun("client")
  <2>1. /\ tmr' = tmr /\ ptr' = ptr /\ omitting' = omitting /\ done' = done
        /\ pc' = [pc EXCEPT !["client"] = "check"]
    BY <1>4 DEF TimersRun
  <2>2. Passive
    BY <1>1, <2>1 DEF Passive
  <2> QED
    BY <2>2, PassivePace
<1>5. CASE ClientChecks
  <2>1. tmr' = tmr /\ ptr' = ptr /\ omitting' = omitting /\ pc["client"] = "check"
    BY <1>5 DEF ClientChecks
  <2>2. \/ ~omitting["client"] /\ pc' = [pc EXCEPT !["client"] = "results"]
        \/ /\ omitting["client"] \/ ~done["client"]
           /\ pc' = [pc EXCEPT !["client"] = "select"] /\ done' = done
    BY <1>5 DEF ClientChecks
  <2> QED
    BY <1>1, <2>1, <2>2 DEF PaceInv
<1>6. CASE ClientDrains \/ ClientResults
  <2>1. /\ tmr' = tmr /\ ptr' = ptr /\ omitting' = omitting /\ done' = done /\ cursor' = cursor
        /\ pc' = pc \/ pc' = [client |-> "end", server |-> "select"]
    BY <1>6 DEF ClientDrains, ClientResults
  <2>2. Passive
    BY <2>1 DEF Passive
  <2> QED
    BY <2>2, PassivePace
<1>7. CASE StatsTimer("client") \/ ReporterTimer("client") \/ SendTimer("client")
  <2>1. PICK proc \in {"stats", "reporter", "send"} :
          /\ Fires("client", proc) /\ Puts("client", tmr["client"])
          /\ ptr' = ptr /\ omitting' = omitting /\ done' = done
    BY <1>7 DEF StatsTimer, ReporterTimer, SendTimer
  <2> DEFINE L == tmr["client"]
             R == Reschedule(L, cursor)
  <2>2. PICK c \in Act(L) : c.id = cursor /\ c.proc = proc /\ Slot(c) \in Slots
    BY <1>1, <2>1, FiredCell
  <2>3. /\ pc' = pc /\ pc["client"] = "tmr_run" /\ cursor' = NextOf(L, c.id)
        /\ tmr'["client"] = R
    BY <1>1, <2>1, <2>2 DEF Fires, Puts
  <2>4. c.periodic
    <3>1. Repeats(Slot(c))
      BY <2>2, SlotOf
    <3>2. Linked(L, Held(ptr["client"], st["client"]))
      BY <1>1 DEF TimersInv, SideTimers
    <3> QED
      BY <3>1, <3>2 DEF Linked
  <2>5. Moved(L, c, R)
    BY <1>1, <2>2, <2>4, RescheduleTimer
  <2> HIDE DEF R
  <2>6. ASSUME ptr["client"].omit # NULL
        PROVE  Timely(R) /\ Ahead(R, cursor', ptr["client"].omit)
    <3>1. PICK d \in Act(L) : d.id = ptr["client"].omit /\ d.proc = "omit"
      BY <1>1, <2>6, OmitCell
    <3>2. Timely(L) /\ Ahead(L, c.id, d.id)
      BY <2>2, <2>3, <2>6, <3>1 DEF PaceInv
    <3>3. Good(L)
      BY <1>1
    <3> HIDE DEF L
    <3>4. Timely(R) /\ Ahead(R, NextOf(L, c.id), d.id)
      BY <2>1, <2>2, <2>5, <3>1, <3>2, <3>3, RepeatAhead
    <3> QED
      BY <2>3, <3>1, <3>4
  <2> QED
    BY <2>1, <2>3, <2>6 DEF PaceInv
<1>8. CASE OmitTimer("client")
  <2>1. /\ Fires("client", "omit") /\ ptr' = [ptr EXCEPT !["client"].omit = NULL]
        /\ omitting' = [omitting EXCEPT !["client"] = FALSE] /\ done' = done
    BY <1>8 DEF OmitTimer
  <2>2. ptr'["client"].omit = NULL /\ omitting'["client"] = FALSE
    BY <1>1, <2>1 DEF PtrFields
  <2>3. pc' = pc
    BY <2>1 DEF Fires
  <2> QED
    BY <2>1, <2>2, <2>3 DEF PaceInv
<1> QED
  BY <1>2, <1>3, <1>4, <1>5, <1>6, <1>7, <1>8

LEMMA StartPace ==
  ASSUME TrafficTyped, TimersInv, PaceInv, ClientStarts
  PROVE  PaceInv'
<1>1. /\ pc["client"] = "ready" /\ StartTest("client") /\ done' = done
      /\ pc' = [pc EXCEPT !["client"] = "started"]
  BY DEF ClientStarts
<1>2. DOMAIN pc = Sides /\ "client" \in Sides /\ omitting \in [Sides -> BOOLEAN] /\ clock \in Nat
  BY DEF TimersInv, TrafficTyped, Sides
<1>3. /\ Planned(tmr'["client"], StartLast("client"), omit * MILLION)
      /\ omit # 0 => ptr'["client"].omit # NULL
  BY <1>1, <1>2, BeginTimers DEF NotYet
<1>4. omitting' = [omitting EXCEPT !["client"] = omit # 0]
  BY <1>1 DEF StartTest
<1>5. ~done["client"]
  BY <1>1 DEF PaceInv
<1>6. Timely(tmr'["client"])
  <2> DEFINE u == iperf_time_in_usecs(Now)
  <2>1. u \in Nat
    BY <1>2, NowType, CompareTimes
  <2>2. duration # 0 => u + omit * MILLION < u + StartLast("client")
    <3>1. duration \in Nat /\ omit \in Nat
      BY TrafficAssumption
    <3>2. StartLast("client") = (duration + omit + 0) * MILLION
      BY DEF StartLast
    <3> HIDE DEF u
    <3> QED
      BY <2>1, <3>1, <3>2, SMT DEF MILLION
  <2> HIDE DEF u
  <2> QED
    BY <1>3, <2>2 DEF Timely, Planned, u
<1> QED
  BY <1>1, <1>2, <1>3, <1>4, <1>5, <1>6 DEF PaceInv

LEMMA PaceNext ==
  ASSUME TrafficTyped, TimersInv, PaceInv, [Next]_trafficVars
  PROVE  PaceInv'
<1>1. CASE UNCHANGED trafficVars
  <2>1. Passive
    BY <1>1 DEF Passive, trafficVars
  <2> QED
    BY <2>1, PassivePace
<1>2. CASE Next /\ TimersKept
  BY <1>2, PassivePace, PassiveHandshake, PassiveServer, ClientPace, StartPace, Zenon
     DEF Next, Steps, Sides
<1>3. CASE ServerStarts \/ ServerTimer \/ ServerEnds
  BY <1>3, PassivePace, PassiveServer
<1> QED
  BY <1>1, <1>2, <1>3, StartPace, KeptSendTimers

(* Microseconds from s to the k-th step of the clock.                       *)
LEMMA SinceStart ==
  ASSUME NEW s \in Time, NEW k \in Nat, iperf_time_in_usecs(s) <= k * TICK
  PROVE  LET now == iperf_time_add_usecs([secs |-> 0, usecs |-> 0], k * TICK)
             e == iperf_time_in_usecs(iperf_time_diff(s, now).diff)
         IN e \in Nat /\ e = k * TICK - iperf_time_in_usecs(s)
<1> DEFINE z == [secs |-> 0, usecs |-> 0]
           now == iperf_time_add_usecs(z, k * TICK)
<1>1. k * TICK \in Nat
  BY TrafficAssumption
<1>2. z \in Time /\ iperf_time_in_usecs(z) = 0
  BY TimeFields, Million DEF iperf_time_in_usecs
<1>3. now \in Time /\ iperf_time_in_usecs(now) = 0 + k * TICK
  <2> HIDE DEF z
  <2> QED
    BY <1>1, <1>2, AddType
<1> HIDE DEF now
<1>4. iperf_time_in_usecs(now) = k * TICK
  BY <1>1, <1>3
<1>5. iperf_time_in_usecs(iperf_time_diff(s, now).diff) = k * TICK - iperf_time_in_usecs(s)
  BY <1>3, <1>4, DiffTimes
<1>6. iperf_time_in_usecs(s) \in Nat
  BY CompareTimes
<1>7. k * TICK - iperf_time_in_usecs(s) \in Nat
  BY <1>1, <1>6
<1> QED
  BY <1>5, <1>7 DEF now, z

(* A stream after e microseconds: it is at most a datagram ahead of the     *)
(* rate, and not ahead with a green light.                                  *)
RateOf(s, e) ==
  /\ s.sent * 8 * MILLION <= rate * e + 8 * blksize * MILLION
  /\ s.green => s.sent * 8 * MILLION <= rate * e

LEMMA RateGrows ==
  ASSUME NEW e \in Nat, NEW f \in Nat, e <= f
  PROVE  rate * e \in Nat /\ rate * f \in Nat /\ rate * e <= rate * f
<1>1. rate \in Nat
  BY StreamAssumption
<1>2. rate * e \in Nat /\ rate * f \in Nat /\ rate * (f - e) \in Nat
  BY <1>1
<1>3. rate * f = rate * e + rate * (f - e)
  BY <1>1
<1> QED
  BY <1>2, <1>3

LEMMA RateSame ==
  ASSUME NEW s, IsStream(s), NEW r, NEW e \in Nat, NEW f \in Nat, e <= f, RateOf(s, e),
         r.sent = s.sent, r.green => s.green \/ s.sent * 8 * MILLION < rate * e
  PROVE  RateOf(r, f)
<1>1. s.sent \in Int /\ blksize \in Nat
  BY StreamAssumption DEF IsStream
<1>2. rate * e \in Nat /\ rate * f \in Nat /\ rate * e <= rate * f
  BY RateGrows
<1> DEFINE x == rate * e
           y == rate * f
<1>3. /\ s.sent * 8 * MILLION <= x + 8 * blksize * MILLION
      /\ s.green => s.sent * 8 * MILLION <= x
      /\ r.green => s.green \/ s.sent * 8 * MILLION < x
  BY DEF RateOf
<1>4. x \in Nat /\ y \in Nat /\ x <= y
  BY <1>2
<1> HIDE DEF x, y
<1>5. /\ s.sent * 8 * MILLION <= y + 8 * blksize * MILLION
      /\ r.green => s.sent * 8 * MILLION <= y
  BY <1>1, <1>3, <1>4 DEF MILLION
<1> QED
  BY <1>5 DEF RateOf, y

LEMMA RateSent ==
  ASSUME NEW s, IsStream(s), NEW r, NEW e \in Nat, NEW f \in Nat, e <= f, RateOf(s, e),
         rate # 0, s.green, HasSent(s, r, e, FALSE)
  PROVE  RateOf(r, f)
<1>1. s.sent \in Int /\ blksize \in Nat
  BY StreamAssumption DEF IsStream
<1>2. rate * e \in Nat /\ rate * f \in Nat /\ rate * e <= rate * f
  BY RateGrows
<1> DEFINE x == rate * e
           y == rate * f
<1>3. /\ s.sent * 8 * MILLION <= x /\ r.sent = s.sent + blksize
      /\ r.green => r.sent * 8 * MILLION < x
  BY DEF RateOf, HasSent
<1>4. x \in Nat /\ y \in Nat /\ x <= y
  BY <1>2
<1> HIDE DEF x, y
<1>5. /\ r.sent * 8 * MILLION <= y + 8 * blksize * MILLION
      /\ r.green => r.sent * 8 * MILLION <= y
  BY <1>1, <1>3, <1>4 DEF MILLION
<1> QED
  BY <1>5 DEF RateOf, y

RateInv ==
  /\ iperf_time_in_usecs(start[Snd]) <= clock * TICK
  /\ \A i \in Streams : RateOf(st[Snd][i], Elapsed(Snd))
  /\ pc[Snd] \in NotYet => \A i \in Streams : st[Snd][i].sent = 0

LEMMA NothingSent ==
  ASSUME NEW r, NEW e \in Nat, r.sent = 0
  PROVE  RateOf(r, e)
<1>1. rate * e \in Nat /\ blksize \in Nat
  BY StreamAssumption
<1> DEFINE x == rate * e
<1>2. x \in Nat
  BY <1>1
<1> HIDE DEF x
<1>3. /\ r.sent * 8 * MILLION <= x + 8 * blksize * MILLION
      /\ r.sent * 8 * MILLION <= x
  BY <1>1, <1>2 DEF MILLION
<1> QED
  BY <1>3 DEF RateOf, x

LEMMA RateInit ==
  ASSUME TrafficInit
  PROVE  RateInv
<1>1. TrafficTyped
  BY TypedInit
<1>2. Snd \in Sides /\ clock = 0 /\ clock \in Nat
  BY SideOfSender DEF TrafficInit
<1>3. start[Snd] = [secs |-> 0, usecs |-> 0]
  BY <1>2 DEF TrafficInit
<1>4. iperf_time_in_usecs(start[Snd]) = 0 /\ start[Snd] \in Time
  BY <1>3, ZeroTime, Million DEF iperf_time_in_usecs
<1>5. clock * TICK = 0
  BY <1>2, TrafficAssumption
<1>6. iperf_time_in_usecs(start[Snd]) <= clock * TICK
  BY <1>4, <1>5
<1>7. Elapsed(Snd) \in Nat
  BY <1>2, <1>4, <1>6, SinceStart DEF Elapsed, Now
<1>8. \A i \in Streams : st[Snd][i].sent = 0
  BY <1>2, NewStream DEF TrafficInit
<1> QED
  BY <1>6, <1>7, <1>8, NothingSent DEF RateInv

(* The sender starts.                                                       *)
Begins == IF Snd = "server" THEN ServerStarts ELSE ClientStarts

(* The clock goes on, or the streams of the sender start now.               *)
LEMMA TimeNext ==
  ASSUME TrafficTyped, [Next]_trafficVars,
         iperf_time_in_usecs(start[Snd]) <= clock * TICK
  PROVE  /\ iperf_time_in_usecs(start'[Snd]) <= clock' * TICK
         /\ Elapsed(Snd) \in Nat /\ Elapsed(Snd)' \in Nat
         /\ \/ Elapsed(Snd) <= Elapsed(Snd)'
            \/ Begins
<1>1. /\ Snd \in Sides /\ Snd' = Snd /\ clock \in Nat /\ start \in [Sides -> Time]
      /\ TICK \in Nat
  <2>1. reverse' = reverse
    BY DEF Next, Steps, trafficVars
  <2> QED
    BY <2>1, SideOfSender, TrafficAssumption DEF TrafficTyped
<1>2. Now \in Time /\ iperf_time_in_usecs(Now) = clock * TICK
  BY <1>1, NowType
<1>3. \/ (clock' = clock \/ clock' = clock + 1) /\ start' = start
      \/ ServerStarts \/ ClientStarts
  BY DEF Next, Steps, trafficVars, UdpConnect, UdpAccept, UdpConnected, UdpConnectFails,
         ClientRuns, ClientPass, ServerPass, TestTimer, ServerTimer, TimersRun, StatsTimer,
         ReporterTimer, OmitTimer, SendTimer, Fires, ClientChecks, ClientDrains, ClientClosed,
         ClientTerminates, ServerTestEnd, ClientResults, ServerEnds, Tick, testVars
<1>4. /\ clock' \in Nat /\ start'[Snd] \in Time
      /\ \/ start'[Snd] = start[Snd] /\ (clock' = clock \/ clock' = clock + 1)
         \/ start'[Snd] = Now /\ clock' = clock /\ Begins
  <2>1. CASE ServerStarts \/ ClientStarts
    <3>1. PICK p \in Sides : StartTest(p) /\ (p = Snd => Begins)
      BY <2>1 DEF ServerStarts, ClientStarts, Sides, Begins
    <3>2. start' = [start EXCEPT ![p] = Now] /\ clock' = clock
      BY <2>1, <3>1 DEF StartTest, ServerStarts, ClientStarts
    <3> QED
      BY <1>1, <1>2, <2>1, <3>1, <3>2
  <2>2. CASE (clock' = clock \/ clock' = clock + 1) /\ start' = start
    BY <1>1, <2>2
  <2> QED
    BY <1>3, <2>1, <2>2
<1> DEFINE U(x) == iperf_time_in_usecs(x)
<1>5. U(start[Snd]) \in Nat /\ U(start'[Snd]) \in Nat
  BY <1>1, <1>4, CompareTimes
<1>6. (clock + 1) * TICK = clock * TICK + TICK /\ clock * TICK \in Nat
  BY <1>1
<1>7. U(start'[Snd]) <= clock' * TICK
  <2>1. CASE start'[Snd] = Now /\ clock' = clock
    BY <1>2, <1>6, <2>1
  <2>2. CASE start'[Snd] = start[Snd] /\ (clock' = clock \/ clock' = clock + 1)
    <3> HIDE DEF U
    <3>1. U(start[Snd]) <= clock * TICK
      BY DEF U
    <3> QED
      BY <1>1, <1>5, <1>6, <2>2, <3>1
  <2> QED
    BY <1>4, <2>1, <2>2
<1>8. Elapsed(Snd) \in Nat /\ Elapsed(Snd) = clock * TICK - U(start[Snd])
  BY <1>1, SinceStart DEF Elapsed, Now
<1>9. Elapsed(Snd)' \in Nat /\ Elapsed(Snd)' = clock' * TICK - U(start'[Snd])
  <2>1. Elapsed(Snd)' = iperf_time_in_usecs(iperf_time_diff(start'[Snd],
                          iperf_time_add_usecs([secs |-> 0, usecs |-> 0], clock' * TICK)).diff)
    BY <1>1 DEF Elapsed, Now
  <2> QED
    BY <1>4, <1>7, <2>1, SinceStart
<1>10. start'[Snd] = start[Snd] /\ (clock' = clock \/ clock' = clock + 1)
         => Elapsed(Snd) <= Elapsed(Snd)'
  <2> HIDE DEF U
  <2> QED
    BY <1>1, <1>5, <1>6, <1>8, <1>9
<1> QED
  BY <1>4, <1>7, <1>8, <1>9, <1>10

(* What a step that is not the sender's start makes of a stream.            *)
LEMMA RateStep ==
  ASSUME TrafficTyped, PaceInv, Next, rate # 0, NEW i \in Streams, NEW f \in Nat,
         Elapsed(Snd) \in Nat, Elapsed(Snd) <= f, RateOf(st[Snd][i], Elapsed(Snd)),
         ~Begins
  PROVE  RateOf(st'[Snd][i], f)
<1> DEFINE s == st[Snd][i]
           r == st'[Snd][i]
           e == Elapsed(Snd)
<1>1. Kind /\ Snd \in Sides /\ Rcv \in Sides /\ Snd # Rcv /\ Sides = {Snd, Rcv}
  BY NextKind, SideOfSender
<1>2. IsStream(s)
  BY <1>1 DEF TrafficTyped, StreamsTyped, IsStreamNo
<1>3. ASSUME r.sent = s.sent, r.green => s.green \/ s.sent * 8 * MILLION < rate * e
      PROVE  RateOf(r, f)
  <2> HIDE DEF s, r, e
  <2> QED
    BY <1>2, <1>3, RateSame DEF s, e
<1>4. CASE ServerStarts \/ ClientStarts
  <2>1. PICK p \in Sides : StartTest(p) /\ p # Snd
    BY <1>1, <1>4 DEF ServerStarts, ClientStarts, Sides, Begins
  <2>2. PICK a, b, c, d : StartBody(p, a, b, c, d)
    BY <2>1, StartParts, Zenon
  <2>3. PICK g : st' = [st EXCEPT ![p] = g]
    BY <2>2, Zenon DEF StartBody
  <2>4. st'[Snd] = st[Snd]
    BY <1>1, <2>1, <2>3 DEF TrafficTyped, StreamsTyped
  <2> QED
    BY <1>3, <2>4
<1>5. CASE SameStep /\ ~(ServerStarts \/ ClientStarts)
  <2>1. Same(s, r) /\ LightsKept
    BY <1>1, <1>5 DEF SameStep
  <2>2. r.green => s.green \/ s.sent * 8 * MILLION < rate * e
    BY <1>1, <2>1, Zenon DEF LightsKept
  <2> QED
    BY <1>3, <2>1, <2>2 DEF Same
<1>6. CASE StatsStep
  <2>1. r.sent = s.sent /\ r.green = s.green
    BY <1>1, <1>6 DEF StatsStep, Collected
  <2> QED
    BY <1>3, <2>1
<1>7. CASE OmitStep
  <2>1. r.sent = s.sent /\ r.green = s.green
    BY <1>1, <1>7 DEF OmitStep, HasReset
  <2> QED
    BY <1>3, <2>1
<1>8. CASE SendStep
  <2>1. ~done[Snd] /\ done[Snd] \in BOOLEAN
    <3>1. Selects(Snd) /\ (Snd = "server" => ~done["server"]) /\ done \in [Sides -> BOOLEAN]
      BY <1>8 DEF SendStep, TrafficTyped
    <3>2. Snd = "client" => pc["client"] = "select"
      BY <3>1 DEF Selects
    <3> QED
      BY <1>1, <3>1, <3>2 DEF PaceInv, Sides
  <2>2. \/ s.green /\ HasSent(s, r, e, done[Snd])
        \/ HasFailed(s, r)
        \/ r = s
    BY <1>8, Zenon DEF SendStep
  <2>3. CASE s.green /\ HasSent(s, r, e, done[Snd])
    <3>1. HasSent(s, r, e, FALSE)
      BY <2>1, <2>3
    <3>2. e \in Nat /\ e <= f /\ RateOf(s, e)
      OBVIOUS
    <3> HIDE DEF s, r, e
    <3>3. RateOf(r, f)
      BY <1>2, <2>3, <3>1, <3>2, RateSent
    <3> QED
      BY <3>3 DEF r
  <2>4. CASE HasFailed(s, r)
    BY <1>3, <2>4 DEF HasFailed
  <2>5. CASE r = s
    BY <1>3, <2>5
  <2> QED
    BY <2>2, <2>3, <2>4, <2>5
<1>9. CASE ReceiveStep
  <2>1. st'[Snd] = st[Snd]
    BY <1>9 DEF ReceiveStep
  <2> QED
    BY <1>3, <2>1
<1>10. CASE ResultStep
  <2>1. r.sent = s.sent /\ r.green = s.green
    BY <1>1, <1>10 DEF ResultStep, HasResults
  <2> QED
    BY <1>3, <2>1
<1> QED
  BY <1>1, <1>4, <1>5, <1>6, <1>7, <1>8, <1>9, <1>10 DEF Kind

LEMMA RateNext ==
  ASSUME TrafficTyped, TimersInv, PaceInv, RateInv, [Next]_trafficVars, rate # 0
  PROVE  RateInv'
<1>1. /\ iperf_time_in_usecs(start'[Snd]) <= clock' * TICK
      /\ Elapsed(Snd) \in Nat /\ Elapsed(Snd)' \in Nat
      /\ \/ Elapsed(Snd) <= Elapsed(Snd)'
         \/ Begins
  BY TimeNext DEF RateInv
<1>2. Snd' = Snd /\ Snd \in Sides
  <2>1. reverse' = reverse
    BY DEF Next, Steps, trafficVars
  <2> QED
    BY <2>1, SideOfSender
<1>3. CASE UNCHANGED trafficVars
  BY <1>3 DEF RateInv, trafficVars, Snd, Elapsed, Now
<1>4. CASE Next
  <2>1. pc'[Snd] \in NotYet => pc[Snd] \in NotYet /\ st'[Snd] = st[Snd]
    BY <1>2, <1>4, NextUntouched DEF Untouched
  <2>2. pc'[Snd] \in NotYet => \A i \in Streams : st'[Snd][i].sent = 0
    BY <2>1 DEF RateInv
  <2>3. ASSUME NEW i \in Streams
        PROVE  RateOf(st'[Snd][i], Elapsed(Snd)')
    <3>1. CASE Begins
      <4>1. StartTest(Snd) /\ pc[Snd] = "ready"
        BY <1>2, <3>1 DEF Begins, ServerStarts, ClientStarts, Sides
      <4>2. Same(st[Snd][i], st'[Snd][i])
        BY <1>2, <4>1, StartStep
      <4>3. st'[Snd][i].sent = 0
        BY <4>1, <4>2 DEF RateInv, NotYet, Same
      <4> QED
        BY <1>1, <4>3, NothingSent
    <3>2. CASE ~Begins
      <4>1. RateOf(st[Snd][i], Elapsed(Snd))
        BY DEF RateInv
      <4>2. Elapsed(Snd) <= Elapsed(Snd)'
        BY <1>1, <3>2
      <4> DEFINE f == Elapsed(Snd)'
      <4>3. f \in Nat /\ Elapsed(Snd) <= f
        BY <1>1, <4>2
      <4> HIDE DEF f
      <4>4. RateOf(st'[Snd][i], f)
        BY <1>1, <1>4, <3>2, <4>1, <4>3, RateStep
      <4> QED
        BY <4>4 DEF f
    <3> QED
      BY <3>1, <3>2
  <2> QED
    BY <1>1, <1>2, <2>2, <2>3 DEF RateInv
<1> QED
  BY <1>3, <1>4

(* With a rate, the sender is never more than one datagram ahead of it,     *)
(* whatever the sizes, the intervals of the pacing timers and the clock     *)
(* are: iperf_check_throttle after each datagram, and in send_timer_proc,   *)
(* gives a green light only behind the rate, and a sender whose test is     *)
(* done, which is no longer checked, does not send.                         *)
THEOREM AlwaysRateKept ==
  ASSUME rate # 0
  PROVE  Spec => []RateKept
<1>1. TrafficInit => TrafficTyped /\ TimersInv /\ PaceInv /\ RateInv
  BY TypedInit, TimersInit, PaceInit, RateInit
<1>2. TrafficTyped /\ TimersInv /\ PaceInv /\ RateInv /\ [Next]_trafficVars
        => (PaceInv /\ RateInv)'
  BY PaceNext, RateNext
<1>3. RateInv => RateKept
  BY DEF RateInv, RateOf, RateKept
<1> QED
  BY <1>1, <1>2, <1>3, StreamsStayTyped, TimersStayLinked, PTL DEF Spec

---------------------------------------------------------------------------------
(* The reports. The statistics and the reporter timer have the same period  *)
(* and take turns: they are due together, the statistics timer first, or    *)
(* the statistics timer has run in this pass and the reporter timer is next *)
(* of the two.                                                              *)

LEMMA SortedBefore ==
  ASSUME NEW L, Good(L), NEW c \in Act(L), NEW d \in Act(L), Us(c) < Us(d)
  PROVE  Before(L.active, c.id, d.id)
<1> DEFINE a == L.active
<1>1. a \in Seq(Cells) /\ Len(a) \in Nat /\ Sorted(a)
  BY DEF Good
<1>2. PICK i \in 1 .. Len(a) : c = a[i]
  BY DEF Act, Members
<1>3. PICK j \in 1 .. Len(a) : d = a[j]
  BY DEF Act, Members
<1>4. Us(c) \in Nat /\ Us(d) \in Nat
  BY ActiveCells, CellFields
<1>5. i # j
  BY <1>2, <1>3, <1>4
<1>6. ~(j < i)
  <2>1. j < i => Us(d) <= Us(c)
    BY <1>1, <1>2, <1>3 DEF Sorted
  <2> QED
    BY <1>4, <2>1
<1> QED
  BY <1>2, <1>3, <1>5, <1>6 DEF Before

LEMMA BeforeOneWay ==
  ASSUME NEW L, Good(L), NEW x, NEW y, Before(L.active, x, y)
  PROVE  x # y /\ ~Before(L.active, y, x)
<1> DEFINE a == L.active
<1>1. Distinct(a) /\ Len(a) \in Nat
  BY DEF Good
<1>2. PICK i \in 1 .. Len(a), j \in 1 .. Len(a) : i < j /\ a[i].id = x /\ a[j].id = y
  BY DEF Before
<1>3. \A k \in 1 .. Len(a) : (a[k].id = x => k = i) /\ (a[k].id = y => k = j)
  BY <1>1, <1>2 DEF Distinct
<1>4. x # y
  BY <1>2, <1>3
<1>5. ~Before(L.active, y, x)
  BY <1>2, <1>3 DEF Before
<1> QED
  BY <1>4, <1>5

(* Only the pacing timers are several.                                      *)
Single(L) == \A c, d \in Act(L) : c.proc = d.proc /\ c.proc # "send" => c = d

LEMMA LinkedSingle ==
  ASSUME NEW L, NEW K, Linked(L, K)
  PROVE  Single(L)
<1> SUFFICES ASSUME NEW c \in Act(L), NEW d \in Act(L), c.proc = d.proc, c.proc # "send"
             PROVE  c = d
  BY DEF Single
<1>1. Slot(c) \in Slots /\ Slot(d) \in Slots /\ K[Slot(c)] = c.id /\ K[Slot(d)] = d.id /\ Good(L)
  BY DEF Linked
<1>2. Slot(c) = Slot(d)
  BY <1>1 DEF Slot, Slots
<1>3. c.id = d.id
  BY <1>1, <1>2
<1> QED
  BY <1>1, <1>3, ActiveCells

(* The timer c fires, and tmr_run goes on to a timer z that was still to    *)
(* come.                                                                    *)
LEMMA StillAhead ==
  ASSUME NEW L, Good(L), NEW c, NEW z, c.id # z.id, Ahead(L, c.id, z.id), NEW R,
         \A x, y : Before(L.active, x, y) /\ x # c.id /\ y # c.id => Before(R.active, x, y)
  PROVE  Ahead(R, NextOf(L, c.id), z.id)
<1>1. Before(L.active, c.id, z.id)
  BY DEF Ahead
<1> DEFINE n == NextOf(L, c.id)
<1>2. (n = z.id \/ Before(L.active, n, z.id)) /\ n # c.id
  BY <1>1, NextBefore
<1> QED
  BY <1>2 DEF Ahead

(* The two timers of a list: run says that tmr_run is at cell cur, now is   *)
(* the time in microseconds, and ended that the newest intervals end now.   *)
Rhythm(L, run, cur, now, ended) ==
  \E x, y \in Act(L) :
    /\ Pair(L, x, y)
    /\ \/ Level(L, x, y) /\ (run => Ahead(L, cur, x.id) \/ now < Us(x))
       \/ /\ run /\ Us(x) = Us(y) + stats_interval /\ Us(y) <= now
          /\ Ahead(L, cur, y.id) /\ ended

LEMMA RhythmIdle ==
  ASSUME NEW L, NEW cur, NEW now, NEW ended, NEW c, NEW n, NEW e, Rhythm(L, FALSE, cur, now, ended)
  PROVE  Rhythm(L, FALSE, c, n, e)
  BY DEF Rhythm

LEMMA RhythmStarts ==
  ASSUME NEW L, Good(L), NEW cur, NEW now, NEW ended, NEW n, NEW e,
         Rhythm(L, FALSE, cur, now, ended)
  PROVE  Rhythm(L, TRUE, First(L), n, e)
<1>1. PICK x \in Act(L), y \in Act(L) : Pair(L, x, y) /\ Level(L, x, y)
  BY DEF Rhythm
<1>2. Ahead(L, First(L), x.id)
  BY FirstBefore DEF Ahead
<1> QED
  BY <1>1, <1>2 DEF Rhythm

(* The loop of tmr_run does not end between the two timers.                 *)
LEMMA RhythmEnds ==
  ASSUME NEW L, Good(L), NEW cur, NEW now \in Time, NEW ended, NEW n, NEW e, NEW c,
         Rhythm(L, TRUE, cur, iperf_time_in_usecs(now), ended), LoopEnds(L, cur, now)
  PROVE  Rhythm(L, FALSE, c, n, e)
<1>1. PICK x \in Act(L), y \in Act(L) :
        /\ Pair(L, x, y)
        /\ \/ Level(L, x, y)
           \/ Us(y) <= iperf_time_in_usecs(now) /\ Ahead(L, cur, y.id)
  BY DEF Rhythm
<1>2. ASSUME Us(y) <= iperf_time_in_usecs(now), Ahead(L, cur, y.id)
      PROVE  FALSE
  <2>1. y \in Cells /\ y.id # 0 /\ Us(y) \in Nat
    BY ActiveCells, CellFields
  <2>2. PICK z \in Act(L) : z.id = cur /\ Us(z) <= Us(y)
    <3>1. CASE cur = y.id
      BY <2>1, <3>1
    <3>2. CASE Before(L.active, cur, y.id)
      <4>1. PICK i \in 1 .. Len(L.active) : L.active[i].id = cur
        BY <3>2 DEF Before
      <4>2. L.active[i] \in Act(L)
        BY DEF Act, Members
      <4> QED
        BY <3>2, <4>1, <4>2, BeforeSorted
    <3> QED
      BY <1>2, <3>1, <3>2 DEF Ahead
  <2>3. z \in Cells /\ CellOf(L, cur) = z /\ cur # NULL /\ z.time \in Time /\ Us(z) \in Nat
    BY <2>2, ActiveCells, CellFields DEF NULL
  <2>4. iperf_time_compare(z.time, now) > 0
    BY <2>3 DEF LoopEnds
  <2>5. Us(z) > iperf_time_in_usecs(now) /\ iperf_time_in_usecs(now) \in Nat
    BY <2>3, <2>4, CompareTimes DEF Us
  <2> QED
    BY <1>2, <2>1, <2>2, <2>3, <2>5
<1>3. Level(L, x, y)
  BY <1>1, <1>2
<1> QED
  BY <1>1, <1>3 DEF Rhythm

(* The statistics timer fires: it was its turn, and now it is the reporter  *)
(* timer's.                                                                 *)
LEMMA RhythmStats ==
  ASSUME NEW L, Good(L), Single(L), NEW c \in Act(L), c.proc = "stats", NEW now \in Nat,
         Us(c) <= now, NEW ended, Rhythm(L, TRUE, c.id, now, ended), stats_interval # 0,
         NEW R, Moved(L, c, R), Placed(L, c, Us(c) + c.usecs, R)
  PROVE  Rhythm(R, TRUE, NextOf(L, c.id), now, TRUE)
<1>1. PICK x \in Act(L), y \in Act(L) :
        /\ Pair(L, x, y)
        /\ \/ Level(L, x, y)
           \/ Us(x) = Us(y) + stats_interval /\ Ahead(L, c.id, y.id)
  BY DEF Rhythm
<1>2. x = c /\ y # c /\ c.usecs = stats_interval /\ y.proc = "reporter" /\ y.usecs = stats_interval
  BY <1>1 DEF Pair, Single
<1>3. Us(x) \in Nat /\ Us(y) \in Nat /\ stats_interval \in Nat /\ c.id # y.id
  BY <1>2, ActiveCells, CellFields, TrafficAssumption
<1>4. Level(L, x, y)
  <2>1. SUFFICES ASSUME Us(x) = Us(y) + stats_interval, Ahead(L, c.id, y.id)
                 PROVE  FALSE
    BY <1>1
  <2>2. Before(L.active, c.id, y.id)
    BY <1>3, <2>1 DEF Ahead
  <2>3. Us(c) <= Us(y)
    BY <2>2, BeforeSorted
  <2> QED
    BY <1>2, <1>3, <2>1, <2>3
<1>5. Us(c) = Us(y) /\ Ahead(L, c.id, y.id)
  BY <1>2, <1>4 DEF Level, Ahead
<1>6. Ahead(R, NextOf(L, c.id), y.id)
  BY <1>3, <1>5, StillAhead DEF Moved
<1>7. PICK d \in Act(R) : d.proc = "stats" /\ d.usecs = stats_interval /\ Us(d) = Us(y) + stats_interval
  BY <1>2, <1>5 DEF Placed
<1>8. y \in Act(R)
  BY <1>2 DEF Placed
<1>9. Pair(R, d, y)
  BY <1>2, <1>7, <1>8 DEF Pair
<1>10. Us(y) <= now
  BY <1>5
<1> QED
  BY <1>6, <1>7, <1>8, <1>9, <1>10 DEF Rhythm

(* The reporter timer fires: the statistics timer has run before it.        *)
LEMMA RhythmReporter ==
  ASSUME NEW L, Good(L), Single(L), NEW c \in Act(L), c.proc = "reporter", NEW now \in Nat,
         Us(c) <= now, NEW ended, Rhythm(L, TRUE, c.id, now, ended), stats_interval # 0
  PROVE  /\ ended
         /\ \A R : Moved(L, c, R) /\ Placed(L, c, Us(c) + c.usecs, R) =>
                     \A e : Rhythm(R, TRUE, NextOf(L, c.id), now, e)
<1>1. PICK x \in Act(L), y \in Act(L) :
        /\ Pair(L, x, y)
        /\ \/ Level(L, x, y) /\ (Ahead(L, c.id, x.id) \/ now < Us(x))
           \/ Us(x) = Us(y) + stats_interval /\ ended
  BY DEF Rhythm
<1>2. y = c /\ x # c /\ c.usecs = stats_interval /\ x.proc = "stats" /\ x.usecs = stats_interval
  BY <1>1 DEF Pair, Single
<1>3. Us(x) \in Nat /\ Us(c) \in Nat /\ stats_interval \in Nat /\ c.id # x.id
  BY <1>2, ActiveCells, CellFields, TrafficAssumption
<1>4. Us(x) = Us(c) + stats_interval /\ ended
  <2>1. SUFFICES ASSUME Level(L, x, y), Ahead(L, c.id, x.id) \/ now < Us(x)
                 PROVE  FALSE
    BY <1>1, <1>2
  <2>2. Us(x) = Us(c) /\ Before(L.active, x.id, c.id)
    BY <1>2, <2>1 DEF Level
  <2>3. ~Before(L.active, c.id, x.id)
    BY <2>2, BeforeOneWay
  <2>4. now < Us(x)
    BY <1>3, <2>1, <2>3 DEF Ahead
  <2> QED
    BY <1>3, <2>2, <2>4
<1>5. Before(L.active, c.id, x.id)
  <2>1. Us(c) < Us(x)
    BY <1>3, <1>4
  <2> QED
    BY <2>1, SortedBefore
<1>6. ASSUME NEW R, Moved(L, c, R), Placed(L, c, Us(c) + c.usecs, R), NEW e
      PROVE  Rhythm(R, TRUE, NextOf(L, c.id), now, e)
  <2>1. Ahead(L, c.id, x.id)
    BY <1>5 DEF Ahead
  <2>2. Ahead(R, NextOf(L, c.id), x.id)
    BY <1>3, <1>6, <2>1, StillAhead DEF Moved
  <2>3. PICK d \in Act(R) :
          /\ d.id = c.id /\ d.proc = "reporter" /\ d.usecs = stats_interval
          /\ Us(d) = Us(c) + stats_interval
          /\ \A z \in Act(L) : z # c => z \in Act(R)
          /\ \A z \in Act(L) : z # c /\ Us(z) <= Us(c) + stats_interval =>
               Before(R.active, z.id, c.id)
    BY <1>2, <1>6 DEF Placed
  <2>4. x \in Act(R) /\ Before(R.active, x.id, d.id) /\ Us(x) = Us(d)
    BY <1>2, <1>3, <1>4, <2>3
  <2>5. Pair(R, x, d) /\ Level(R, x, d)
    BY <1>2, <2>3, <2>4 DEF Pair, Level
  <2> QED
    BY <2>2, <2>4, <2>5 DEF Rhythm
<1> QED
  BY <1>4, <1>6

(* A pacing timer fires.                                                    *)
LEMMA RhythmSend ==
  ASSUME NEW L, Good(L), NEW c \in Act(L), c.proc = "send", NEW now, NEW ended,
         Rhythm(L, TRUE, c.id, now, ended),
         NEW R, Moved(L, c, R), Placed(L, c, Us(c) + c.usecs, R)
  PROVE  Rhythm(R, TRUE, NextOf(L, c.id), now, ended)
<1>1. PICK x \in Act(L), y \in Act(L) :
        /\ Pair(L, x, y)
        /\ \/ Level(L, x, y) /\ (Ahead(L, c.id, x.id) \/ now < Us(x))
           \/ /\ Us(x) = Us(y) + stats_interval /\ Us(y) <= now
              /\ Ahead(L, c.id, y.id) /\ ended
  BY DEF Rhythm
<1>2. x # c /\ y # c
  BY <1>1 DEF Pair
<1>3. x.id # c.id /\ y.id # c.id
  BY <1>2, ActiveCells
<1>4. x \in Act(R) /\ y \in Act(R)
  BY <1>2 DEF Placed
<1>5. Pair(R, x, y)
  BY <1>1, <1>4 DEF Pair
<1>6. Level(L, x, y) => Level(R, x, y)
  BY <1>3 DEF Level, Moved
<1>7. Ahead(L, c.id, x.id) => Ahead(R, NextOf(L, c.id), x.id)
  BY <1>3, StillAhead DEF Moved
<1>8. Ahead(L, c.id, y.id) => Ahead(R, NextOf(L, c.id), y.id)
  BY <1>3, StillAhead DEF Moved
<1> QED
  BY <1>1, <1>4, <1>5, <1>6, <1>7, <1>8 DEF Rhythm

(* R is N without the timer c.                                              *)
Less(N, c, R) ==
  /\ \A v \in Act(N) : v.id # c.id => v \in Act(R)
  /\ \A v, w : Before(N.active, v, w) /\ v # c.id /\ w # c.id => Before(R.active, v, w)

(* The omit timer fires and restarts both: the list L becomes M, N, then R. *)
LEMMA RhythmOmit ==
  ASSUME NEW now \in Nat, stats_interval # 0, NEW L, NEW x, NEW y, Pair(L, x, y),
         NEW M, Placed(L, x, now + x.usecs, M),
         NEW N, Placed(M, y, now + y.usecs, N),
         NEW c, x.id # c.id, y.id # c.id, NEW R, Less(N, c, R)
  PROVE  \A k, e : Rhythm(R, TRUE, k, now, e)
<1>1. /\ x.proc = "stats" /\ x.usecs = stats_interval /\ x \in Act(L)
      /\ y.proc = "reporter" /\ y.usecs = stats_interval /\ y \in Act(L) /\ stats_interval \in Nat
  BY TrafficAssumption DEF Pair
<1>2. PICK v \in Act(M) : v.id = x.id /\ v.proc = "stats" /\ v.usecs = stats_interval
                          /\ Us(v) = now + stats_interval
  BY <1>1 DEF Placed
<1>3. v # y
  BY <1>1, <1>2
<1>4. PICK w \in Act(N) : /\ w.id = y.id /\ w.proc = "reporter" /\ w.usecs = stats_interval
                          /\ Us(w) = now + stats_interval
                          /\ \A z \in Act(M) : z # y => z \in Act(N)
                          /\ \A z \in Act(M) : z # y /\ Us(z) <= now + stats_interval =>
                               Before(N.active, z.id, y.id)
  BY <1>1 DEF Placed
<1>5. v \in Act(N) /\ Before(N.active, v.id, w.id)
  BY <1>1, <1>2, <1>3, <1>4
<1>6. v \in Act(R) /\ w \in Act(R) /\ Before(R.active, v.id, w.id)
  BY <1>2, <1>4, <1>5 DEF Less
<1>7. Pair(R, v, w) /\ Level(R, v, w)
  BY <1>2, <1>4, <1>6 DEF Pair, Level
<1>8. now < Us(v)
  BY <1>1, <1>2
<1> QED
  BY <1>6, <1>7, <1>8 DEF Rhythm

(* The newest intervals of side p end now.                                  *)
Ended(p) ==
  \A i \in Streams : LET I == st[p][i].intervals IN I # <<>> /\ I[Len(I)].end = Now

SideFresh(p) ==
  ~done[p] /\ pc[p] \notin NotYet \cup {"end"} =>
    Rhythm(tmr[p], pc[p] = "tmr_run", cursor, iperf_time_in_usecs(Now), Ended(p))

FreshInv == \A p \in Sides : SideFresh(p)

LEMMA FreshInit ==
  ASSUME TrafficInit
  PROVE  FreshInv
<1>1. pc["client"] \in NotYet /\ pc["server"] \in NotYet
  BY DEF TrafficInit, NotYet
<1> QED
  BY <1>1 DEF FreshInv, SideFresh, Sides

(* The step is not one of the timers of side p, nor its start.              *)
Idle(p) ==
  \/ done'[p] \/ pc'[p] \in NotYet \cup {"end"}
  \/ /\ tmr'[p] = tmr[p] /\ done'[p] = done[p] /\ pc[p] \notin NotYet \cup {"end"}
     /\ \/ pc[p] # "tmr_run" /\ pc'[p] # "tmr_run"
        \/ pc[p] # "tmr_run" /\ pc'[p] = "tmr_run" /\ cursor' = First(tmr[p])
        \/ pc'[p] = pc[p] /\ cursor' = cursor /\ clock' = clock /\ st'[p] = st[p]

LEMMA IdleFresh ==
  ASSUME TimersInv, NEW p \in Sides, SideFresh(p), Idle(p)
  PROVE  SideFresh(p)'
<1> SUFFICES ASSUME ~done'[p], pc'[p] \notin NotYet \cup {"end"}
             PROVE  Rhythm(tmr'[p], pc'[p] = "tmr_run", cursor', iperf_time_in_usecs(Now)', Ended(p)')
  BY DEF SideFresh
<1> DEFINE L == tmr[p]
           n == iperf_time_in_usecs(Now)
           m == iperf_time_in_usecs(Now)'
           d == Ended(p)
           e == Ended(p)'
           run == pc[p] = "tmr_run"
<1>1. /\ tmr'[p] = L /\ done'[p] = done[p] /\ pc[p] \notin NotYet \cup {"end"}
      /\ \/ pc[p] # "tmr_run" /\ pc'[p] # "tmr_run"
         \/ pc[p] # "tmr_run" /\ pc'[p] = "tmr_run" /\ cursor' = First(L)
         \/ pc'[p] = pc[p] /\ cursor' = cursor /\ clock' = clock /\ st'[p] = st[p]
  BY DEF Idle
<1>2. Rhythm(L, run, cursor, n, d)
  BY <1>1 DEF SideFresh
<1>3. Good(L)
  BY DEF TimersInv, SideTimers, Linked
<1>4. clock' = clock /\ st'[p] = st[p] => n = m /\ d = e
  BY DEF Ended, Now
<1> HIDE DEF L, n, m, d, e
<1>5. CASE pc[p] # "tmr_run" /\ pc'[p] # "tmr_run"
  <2>1. Rhythm(L, FALSE, cursor, n, d)
    BY <1>2, <1>5
  <2>2. Rhythm(L, FALSE, cursor', m, e)
    BY <2>1, RhythmIdle
  <2> QED
    BY <1>1, <1>5, <2>2 DEF m, e
<1>6. CASE pc[p] # "tmr_run" /\ pc'[p] = "tmr_run" /\ cursor' = First(L)
  <2>1. Rhythm(L, FALSE, cursor, n, d)
    BY <1>2, <1>6
  <2>2. Rhythm(L, TRUE, First(L), m, e)
    BY <1>3, <2>1, RhythmStarts
  <2> QED
    BY <1>1, <1>6, <2>2 DEF m, e
<1>7. CASE pc'[p] = pc[p] /\ cursor' = cursor /\ clock' = clock /\ st'[p] = st[p]
  BY <1>1, <1>2, <1>4, <1>7 DEF m, e
<1> QED
  BY <1>1, <1>5, <1>6, <1>7

(* The timer at the cursor of side p, which is due.                         *)
LEMMA FiredNow ==
  ASSUME TrafficTyped, TimersInv, FreshInv, NEW p \in Sides, NEW proc, Fires(p, proc), ~done[p]
  PROVE  /\ Good(tmr[p]) /\ Single(tmr[p]) /\ iperf_time_in_usecs(Now) \in Nat
         /\ \E c \in Act(tmr[p]) :
              /\ c.id = cursor /\ c.proc = proc /\ Us(c) <= iperf_time_in_usecs(Now)
              /\ proc \notin {"test", "omit"} => c.periodic
              /\ proc \in {"test", "omit"} => ~c.periodic
         /\ Rhythm(tmr[p], TRUE, cursor, iperf_time_in_usecs(Now), Ended(p))
         /\ cursor' = NextOf(tmr[p], cursor) /\ pc' = pc /\ clock' = clock
<1>1. /\ Good(tmr[p]) /\ Linked(tmr[p], Held(ptr[p], st[p]))
      /\ pc' = pc /\ pc[p] = "tmr_run" /\ pc[p] \notin NotYet
  BY FiredCell
<1>2. PICK c \in Act(tmr[p]) : c.id = cursor /\ c.proc = proc /\ Slot(c) \in Slots
  BY FiredCell
<1>3. Now \in Time
  BY NowType DEF TrafficTyped
<1>4. c \in Cells /\ c.time \in Time /\ CellOf(tmr[p], cursor) = c /\ cursor # NULL
  BY <1>1, <1>2, ActiveCells, CellFields DEF NULL
<1>5. ~(iperf_time_compare(c.time, Now) > 0)
  BY <1>4 DEF Fires, LoopEnds
<1>6. Us(c) <= iperf_time_in_usecs(Now) /\ iperf_time_in_usecs(Now) \in Nat
  <2> DEFINE u == iperf_time_in_usecs(Now)
             k == iperf_time_compare(c.time, Now)
  <2>1. /\ Us(c) \in Nat /\ u \in Nat /\ k \in {-1, 0, 1}
        /\ k = 1 <=> Us(c) > u
    BY <1>3, <1>4, CompareTimes DEF Us
  <2>2. ~(k > 0)
    BY <1>5
  <2> HIDE DEF u, k
  <2>3. Us(c) <= u /\ u \in Nat
    BY <2>1, <2>2
  <2> QED
    BY <2>3 DEF u
<1>7. /\ proc \notin {"test", "omit"} => c.periodic
      /\ proc \in {"test", "omit"} => ~c.periodic
  <2>1. c.periodic <=> Repeats(Slot(c))
    BY <1>1 DEF Linked
  <2>2. Repeats(Slot(c)) <=> proc \notin {"test", "omit"}
    BY <1>2, SlotOf, SlotsRepeat
  <2> QED
    BY <2>1, <2>2
<1>8. Single(tmr[p])
  BY <1>1, LinkedSingle
<1>9. Rhythm(tmr[p], TRUE, cursor, iperf_time_in_usecs(Now), Ended(p))
  BY <1>1 DEF FreshInv, SideFresh
<1>10. cursor' = NextOf(tmr[p], cursor) /\ clock' = clock
  BY DEF Fires
<1> QED
  BY <1>1, <1>2, <1>6, <1>7, <1>8, <1>9, <1>10

(* iperf_stats_callback ends an interval now.                               *)
LEMMA StatsEnd ==
  ASSUME NEW i, NEW s, IsStreamNo(i, s), NEW sender, NEW o, NEW t,
         NEW r, r = iperf_stats_callback(s, sender, o, t)
  PROVE  r.intervals # <<>> /\ r.intervals[Len(r.intervals)].end = t
<1> DEFINE before == IF s.intervals = <<>>
                     THEN [packet_count |-> 0, cnt_error |-> 0, end |-> s.start_time]
                     ELSE s.intervals[Len(s.intervals)]
           e == [start |-> before.end, end |-> t,
                 bytes |-> IF sender THEN s.sent_iv ELSE s.received_iv, omitted |-> o,
                 packets |-> s.packet_count - before.packet_count,
                 lost |-> s.cnt_error - before.cnt_error,
                 packet_count |-> s.packet_count, cnt_error |-> s.cnt_error]
<1>1. s.intervals \in Seq(Entries) /\ "intervals" \in DOMAIN s
  BY DEF IsStream, IsStreamNo
<1>2. r = [s EXCEPT !.intervals = Append(@, e), !.sent_iv = 0, !.received_iv = 0]
  BY DEF iperf_stats_callback
<1> HIDE DEF before
<1>3. e.end = t
  OBVIOUS
<1> HIDE DEF e
<1>4. r.intervals = Append(s.intervals, e)
  BY <1>1, <1>2
<1>5. Len(r.intervals) = Len(s.intervals) + 1 /\ r.intervals[Len(s.intervals) + 1] = e
  BY <1>1, <1>4
<1>6. r.intervals # <<>>
  BY <1>1, <1>4
<1> QED
  BY <1>3, <1>5, <1>6

LEMMA StatsFresh ==
  ASSUME TrafficTyped, TimersInv, FreshInv, stats_interval # 0, NEW p \in Sides, ~done[p],
         StatsTimer(p)
  PROVE  SideFresh(p)'
<1> DEFINE L == tmr[p]
           R == Reschedule(L, cursor)
           n == iperf_time_in_usecs(Now)
           d == Ended(p)
<1>1. /\ Fires(p, "stats") /\ Puts(p, L)
      /\ st' = [st EXCEPT ![p] = [i \in Streams |->
                  iperf_stats_callback(st[p][i], p = Snd, omitting[p], Now)]]
  BY DEF StatsTimer
<1>2. /\ Good(L) /\ Single(L) /\ n \in Nat /\ Rhythm(L, TRUE, cursor, n, d)
      /\ cursor' = NextOf(L, cursor) /\ pc' = pc /\ clock' = clock
  BY <1>1, FiredNow
<1>3. PICK c \in Act(L) : c.id = cursor /\ c.proc = "stats" /\ Us(c) <= n /\ c.periodic
  BY <1>1, FiredNow
<1>4. tmr'[p] = R
  BY <1>1 DEF Puts, TimersInv
<1>5. Moved(L, c, R) /\ Placed(L, c, Us(c) + c.usecs, R)
  BY <1>2, <1>3, RescheduleTimer
<1>6. Rhythm(R, TRUE, cursor', n, TRUE)
  <2> HIDE DEF L, R, n, d
  <2> QED
    BY <1>2, <1>3, <1>5, RhythmStats
<1>7. Now' = Now
  BY <1>2 DEF Now
<1>8. Ended(p)'
  <2>1. DOMAIN st = Sides /\ \A i \in Streams : IsStreamNo(i, st[p][i])
    BY DEF TrafficTyped, StreamsTyped
  <2>2. \A i \in Streams : st'[p][i] = iperf_stats_callback(st[p][i], p = Snd, omitting[p], Now)
    BY <1>1, <2>1
  <2>3. \A i \in Streams : /\ st'[p][i].intervals # <<>>
                           /\ st'[p][i].intervals[Len(st'[p][i].intervals)].end = Now
    BY <2>1, <2>2, StatsEnd
  <2> QED
    BY <1>7, <2>3 DEF Ended
<1>9. pc'[p] = "tmr_run"
  BY <1>1, <1>2 DEF Fires
<1>10. iperf_time_in_usecs(Now)' = n
  BY <1>7
<1> HIDE DEF R, n, L
<1>11. Rhythm(R, TRUE, cursor', n, Ended(p)')
  BY <1>6, <1>8 DEF Rhythm
<1>12. Rhythm(tmr'[p], pc'[p] = "tmr_run", cursor', iperf_time_in_usecs(Now)', Ended(p)')
  BY <1>4, <1>9, <1>10, <1>11
<1> QED
  BY <1>12 DEF SideFresh

LEMMA ReporterFresh ==
  ASSUME TrafficTyped, TimersInv, FreshInv, stats_interval # 0, NEW p \in Sides, ~done[p],
         ReporterTimer(p)
  PROVE  SideFresh(p)'
<1> DEFINE L == tmr[p]
           R == Reschedule(L, cursor)
           n == iperf_time_in_usecs(Now)
           d == Ended(p)
<1>1. Fires(p, "reporter") /\ Puts(p, L)
  BY DEF ReporterTimer
<1>2. /\ Good(L) /\ Single(L) /\ n \in Nat /\ Rhythm(L, TRUE, cursor, n, d)
      /\ cursor' = NextOf(L, cursor) /\ pc' = pc /\ clock' = clock
  BY <1>1, FiredNow
<1>3. PICK c \in Act(L) : c.id = cursor /\ c.proc = "reporter" /\ Us(c) <= n /\ c.periodic
  BY <1>1, FiredNow
<1>4. tmr'[p] = R
  BY <1>1 DEF Puts, TimersInv
<1>5. Moved(L, c, R) /\ Placed(L, c, Us(c) + c.usecs, R)
  BY <1>2, <1>3, RescheduleTimer
<1>6. pc'[p] = "tmr_run" /\ iperf_time_in_usecs(Now)' = n
  BY <1>1, <1>2 DEF Fires, Now
<1> DEFINE e == Ended(p)'
<1>7. Rhythm(R, TRUE, cursor', n, e)
  <2> HIDE DEF L, R, n, d, e
  <2> QED
    BY <1>2, <1>3, <1>5, RhythmReporter
<1> HIDE DEF R, n, L
<1>8. Rhythm(tmr'[p], pc'[p] = "tmr_run", cursor', iperf_time_in_usecs(Now)', Ended(p)')
  BY <1>4, <1>6, <1>7
<1> QED
  BY <1>8 DEF SideFresh

LEMMA SendFresh ==
  ASSUME TrafficTyped, TimersInv, FreshInv, NEW p \in Sides, ~done[p], SendTimer(p)
  PROVE  SideFresh(p)'
<1> DEFINE L == tmr[p]
           R == Reschedule(L, cursor)
           n == iperf_time_in_usecs(Now)
           d == Ended(p)
<1>1. Fires(p, "send") /\ Puts(p, L)
  BY DEF SendTimer
<1>2. /\ Good(L) /\ Rhythm(L, TRUE, cursor, n, d)
      /\ cursor' = NextOf(L, cursor) /\ pc' = pc /\ clock' = clock
  BY <1>1, FiredNow
<1>3. PICK c \in Act(L) : c.id = cursor /\ c.proc = "send" /\ c.periodic
  BY <1>1, FiredNow
<1>4. tmr'[p] = R
  BY <1>1 DEF Puts, TimersInv
<1>5. Moved(L, c, R) /\ Placed(L, c, Us(c) + c.usecs, R)
  BY <1>2, <1>3, RescheduleTimer
<1>6. pc'[p] = "tmr_run" /\ iperf_time_in_usecs(Now)' = n
  BY <1>1, <1>2 DEF Fires, Now
<1>7. d => Ended(p)'
  <2>1. \A i \in Streams : st'[p][i].intervals = st[p][i].intervals
    <3> DEFINE k == CellOf(L, cursor).data
    <3>1. st' = [st EXCEPT ![p][k] = iperf_check_throttle(st[p][k], Elapsed(p), done[p])]
      BY DEF SendTimer
    <3> HIDE DEF k
    <3>2. \A i \in Streams : Same(st[p][i], st'[p][i])
      BY <3>1, ThrottleStep
    <3> QED
      BY <3>2 DEF Same
  <2>2. Now' = Now
    BY <1>2 DEF Now
  <2> QED
    BY <2>1, <2>2 DEF Ended
<1>8. Rhythm(R, TRUE, cursor', n, d)
  <2> HIDE DEF L, R, n, d
  <2> QED
    BY <1>2, <1>3, <1>5, RhythmSend
<1> HIDE DEF R, n, L, d
<1>9. Rhythm(R, TRUE, cursor', n, Ended(p)')
  BY <1>7, <1>8 DEF Rhythm
<1>10. Rhythm(tmr'[p], pc'[p] = "tmr_run", cursor', iperf_time_in_usecs(Now)', Ended(p)')
  BY <1>4, <1>6, <1>9
<1> QED
  BY <1>10 DEF SideFresh

LEMMA OmitFresh ==
  ASSUME TrafficTyped, TimersInv, FreshInv, stats_interval # 0, NEW p \in Sides, ~done[p],
         OmitTimer(p)
  PROVE  SideFresh(p)'
<1> DEFINE L == tmr[p]
           K == Held(ptr[p], st[p])
           M == ResetIfSet(L, Now, ptr[p].stats)
           N == ResetIfSet(M, Now, ptr[p].reporter)
           R == Reschedule(N, cursor)
           n == iperf_time_in_usecs(Now)
           d == Ended(p)
           e == Ended(p)'
<1>1. Fires(p, "omit") /\ Puts(p, N)
  BY DEF OmitTimer
<1>2. /\ Good(L) /\ Single(L) /\ n \in Nat /\ Rhythm(L, TRUE, cursor, n, d)
      /\ pc' = pc /\ clock' = clock
  BY <1>1, FiredNow
<1>3. PICK c \in Act(L) : c.id = cursor /\ c.proc = "omit" /\ ~c.periodic
  BY <1>1, FiredNow
<1>4. tmr'[p] = R
  BY <1>1 DEF Puts, TimersInv
<1>5. pc'[p] = "tmr_run" /\ iperf_time_in_usecs(Now)' = n
  BY <1>1, <1>2 DEF Fires, Now
<1>6. Linked(L, K) /\ Holds(K, ptr[p], st[p]) /\ Now \in Time
  BY HeldHolds, NowType DEF TimersInv, SideTimers, TrafficTyped
<1>7. PICK x \in Act(L), y \in Act(L) : Pair(L, x, y)
  <2> HIDE DEF L, n, d
  <2> QED
    BY <1>2 DEF Rhythm
<1> HIDE DEF K
<1>8. ptr[p].stats = x.id /\ ptr[p].reporter = y.id /\ x.id # NULL /\ y.id # NULL
  <2>1. Slot(x) \in Slots /\ Slot(y) \in Slots /\ K[Slot(x)] = x.id /\ K[Slot(y)] = y.id
    BY <1>6 DEF Linked
  <2>2. Slot(x) = StatsSlot /\ Slot(y) = ReporterSlot
    BY <1>7, <2>1, SlotOf DEF Pair
  <2>3. x.id # NULL /\ y.id # NULL
    BY <1>2, ActiveCells, CellFields DEF NULL
  <2> QED
    BY <1>6, <2>1, <2>2, <2>3 DEF Holds
<1>9. M = tmr_reset(L, Now, x.id) /\ N = tmr_reset(M, Now, y.id)
  BY <1>8 DEF ResetIfSet
<1>10. Moved(L, x, M) /\ Placed(L, x, n + x.usecs, M)
  <2> HIDE DEF L, M
  <2> QED
    BY <1>2, <1>6, <1>9, ResetTimer
<1> HIDE DEF M
<1>11. x # y /\ x # c /\ y # c /\ x.id # y.id /\ x.id # c.id /\ y.id # c.id
  <2>1. x # y /\ x # c /\ y # c
    BY <1>3, <1>7 DEF Pair
  <2> QED
    BY <1>2, <2>1, ActiveCells
<1>12. Good(M) /\ y \in Act(M) /\ c \in Act(M)
  BY <1>10, <1>11 DEF Moved, Placed
<1>13. Moved(M, y, N) /\ Placed(M, y, n + y.usecs, N)
  <2> HIDE DEF N
  <2> QED
    BY <1>6, <1>9, <1>12, ResetTimer
<1> HIDE DEF N
<1>14. Good(N) /\ c \in Act(N)
  BY <1>11, <1>12, <1>13 DEF Moved, Placed
<1>15. /\ Act(R) = Act(N) \ {c}
       /\ \A v, w : Before(N.active, v, w) /\ v # c.id /\ w # c.id => Before(R.active, v, w)
  BY <1>3, <1>14, RescheduleTimer
<1> HIDE DEF L, R, n, d, e
<1>16. Less(N, c, R)
  BY <1>15 DEF Less
<1>17. Rhythm(R, TRUE, cursor', n, e)
  <2>1. \A k, b : Rhythm(R, TRUE, k, n, b)
    BY <1>2, <1>7, <1>10, <1>11, <1>13, <1>16, RhythmOmit
  <2> QED
    BY <2>1
<1>18. Rhythm(tmr'[p], pc'[p] = "tmr_run", cursor', iperf_time_in_usecs(Now)', Ended(p)')
  BY <1>4, <1>5, <1>17 DEF e
<1> QED
  BY <1>18 DEF SideFresh

(* The steps outside tmr_run.                                               *)
LEMMA IdleHandshake ==
  ASSUME TimersInv, \/ UdpConnect \/ UdpAccept \/ UdpConnected \/ UdpConnectFails
                    \/ ClientRuns \/ ClientTerminates \/ ClientClosed \/ Tick
  PROVE  \A p \in Sides : Idle(p)
<1>1. tmr' = tmr /\ done' = done /\ cursor' = cursor /\ st' = st
  BY DEF UdpConnect, UdpAccept, UdpConnected, UdpConnectFails, ClientRuns, ClientTerminates,
         ClientClosed, Tick, testVars
<1>2. DOMAIN pc = Sides /\ Sides = {"client", "server"}
  BY DEF TimersInv, Sides
<1>3. ASSUME NEW v, pc' = [pc EXCEPT !["client"] = v], clock' = clock,
             \/ v \in NotYet \cup {"end"}
             \/ v = "select" /\ pc["client"] = "started"
      PROVE  \A p \in Sides : Idle(p)
  BY <1>1, <1>2, <1>3 DEF Idle, NotYet
<1>4. CASE UdpConnect
  BY <1>3, <1>4 DEF UdpConnect, NotYet
<1>5. CASE UdpAccept
  <2>1. /\ pc' = [pc EXCEPT !["server"] = "ready"] \/ pc' = [pc EXCEPT !["server"] = "accept"]
        /\ clock' = clock
    BY <1>5 DEF UdpAccept
  <2> QED
    BY <1>1, <1>2, <2>1 DEF Idle, NotYet
<1>6. CASE UdpConnected
  BY <1>3, <1>6 DEF UdpConnected, NotYet
<1>7. CASE UdpConnectFails
  BY <1>3, <1>7 DEF UdpConnectFails
<1>8. CASE ClientRuns
  BY <1>3, <1>8 DEF ClientRuns
<1>9. CASE ClientTerminates
  BY <1>3, <1>9 DEF ClientTerminates
<1>10. CASE ClientClosed
  BY <1>3, <1>10 DEF ClientClosed
<1>11. CASE Tick
  <2>1. pc' = pc /\ pc["client"] # "tmr_run" /\ pc["server"] # "tmr_run"
    BY <1>11 DEF Tick, Busy
  <2> QED
    BY <1>1, <1>2, <2>1 DEF Idle
<1> QED
  BY <1>4, <1>5, <1>6, <1>7, <1>8, <1>9, <1>10, <1>11

LEMMA IdleTest ==
  ASSUME TrafficTyped, TimersInv,
         \/ ClientPass \/ ServerPass \/ ClientChecks \/ ClientDrains \/ ServerTestEnd
         \/ ClientResults \/ ServerEnds
  PROVE  \A p \in Sides : Idle(p)
<1>1. /\ DOMAIN pc = Sides /\ DOMAIN tmr = Sides /\ DOMAIN done = Sides /\ DOMAIN st = Sides
      /\ Sides = {"client", "server"}
  BY DEF TimersInv, TrafficTyped, StreamsTyped, Sides
<1>2. CASE ClientPass
  <2>1. /\ tmr' = tmr /\ done' = done /\ pc' = [pc EXCEPT !["client"] = "tmr_run"]
        /\ cursor' = First(tmr["client"]) /\ pc["client"] = "select" /\ pc["server"] # "tmr_run"
    BY <1>2 DEF ClientPass, RunTimers, Selects, Busy
  <2> QED
    BY <1>1, <2>1 DEF Idle, NotYet
<1>3. CASE ServerPass
  <2>1. /\ tmr' = tmr /\ done' = done /\ pc["server"] = "select" /\ pc["client"] # "tmr_run"
        /\ \/ pc' = [pc EXCEPT !["server"] = "tmr_run"] /\ cursor' = First(tmr["server"])
           \/ pc' = pc
    BY <1>3 DEF ServerPass, RunTimers, Selects, Busy
  <2> QED
    BY <1>1, <2>1 DEF Idle, NotYet
<1>4. CASE ClientChecks
  <2>1. /\ tmr' = tmr /\ cursor' = cursor /\ clock' = clock /\ pc["client"] = "check"
        /\ done' = [done EXCEPT !["client"] = TRUE] \/ done' = done
    BY <1>4 DEF ClientChecks
  <2>2. pc' = [pc EXCEPT !["client"] = "results"] \/ pc' = [pc EXCEPT !["client"] = "select"]
    BY <1>4 DEF ClientChecks
  <2>3. st' = st \/ \E f : st' = [st EXCEPT !["client"] = f]
    BY <1>4, Zenon DEF ClientChecks
  <2>4. st'["server"] = st["server"]
    BY <1>1, <2>3
  <2> QED
    BY <1>1, <2>1, <2>2, <2>4 DEF Idle, NotYet
<1>5. CASE ClientDrains
  BY <1>5 DEF ClientDrains, Idle
<1>6. CASE ServerTestEnd
  <2>1. /\ tmr' = tmr /\ done' = [done EXCEPT !["server"] = TRUE] /\ pc["client"] # "tmr_run"
        /\ pc' = [pc EXCEPT !["server"] = "results"]
    BY <1>6 DEF ServerTestEnd, Busy
  <2> QED
    BY <1>1, <2>1 DEF Idle
<1>7. CASE ClientResults
  <2>1. /\ tmr' = tmr /\ done' = done /\ pc["server"] = "results"
        /\ pc' = [client |-> "end", server |-> "select"]
    BY <1>7 DEF ClientResults
  <2> QED
    BY <1>1, <2>1 DEF Idle, NotYet
<1>8. CASE ServerEnds
  <2>1. /\ \E R : tmr' = [tmr EXCEPT !["server"] = R]
        /\ done' = done /\ pc' = [pc EXCEPT !["server"] = "end"] /\ pc["client"] # "tmr_run"
    BY <1>8, Zenon DEF ServerEnds, Busy
  <2> QED
    BY <1>1, <2>1 DEF Idle
<1> QED
  BY <1>2, <1>3, <1>4, <1>5, <1>6, <1>7, <1>8

(* While one side is in tmr_run, the other is not.                          *)
LEMMA IdleOther ==
  ASSUME TrafficTyped, TimersInv, PaceInv, NEW p \in Sides, NEW q \in Sides, q # p,
         \/ TimersRun(p) \/ StatsTimer(p) \/ ReporterTimer(p) \/ OmitTimer(p) \/ SendTimer(p)
         \/ (p = "client" /\ TestTimer) \/ (p = "server" /\ ServerTimer)
  PROVE  Idle(q)
<1>1. DOMAIN pc = Sides /\ DOMAIN tmr = Sides /\ DOMAIN done = Sides
  BY DEF TimersInv, TrafficTyped
<1>2. /\ pc[p] = "tmr_run"
      /\ pc' = pc \/ \E v : pc' = [pc EXCEPT ![p] = v]
  BY Zenon DEF TimersRun, StatsTimer, ReporterTimer, OmitTimer, SendTimer, TestTimer,
               ServerTimer, Fires
<1>3. /\ tmr' = tmr \/ \E R : tmr' = [tmr EXCEPT ![p] = R]
      /\ done' = done \/ done' = [done EXCEPT ![p] = TRUE]
  BY Zenon DEF TimersRun, StatsTimer, ReporterTimer, OmitTimer, SendTimer, TestTimer,
               ServerTimer, Puts
<1>4. pc[q] # "tmr_run"
  BY <1>2 DEF PaceInv, Sides
<1>5. pc'[q] = pc[q] /\ tmr'[q] = tmr[q] /\ done'[q] = done[q]
  BY <1>1, <1>2, <1>3
<1> QED
  BY <1>4, <1>5 DEF Idle

(* tmr_run ends on side p.                                                  *)
LEMMA RunFresh ==
  ASSUME TrafficTyped, TimersInv, FreshInv, NEW p \in Sides, TimersRun(p)
  PROVE  SideFresh(p)'
<1> DEFINE L == tmr[p]
           n == iperf_time_in_usecs(Now)
           m == iperf_time_in_usecs(Now)'
           d == Ended(p)
           e == Ended(p)'
<1>1. /\ pc[p] = "tmr_run" /\ LoopEnds(L, cursor, Now) /\ tmr' = tmr /\ done' = done
      /\ pc' = [pc EXCEPT ![p] = IF p = "client" THEN "check" ELSE "select"]
  BY DEF TimersRun
<1>2. DOMAIN pc = Sides /\ Good(L) /\ Now \in Time
  BY NowType DEF TimersInv, SideTimers, Linked, TrafficTyped
<1>3. pc'[p] # "tmr_run" /\ tmr'[p] = L
  BY <1>1, <1>2
<1> SUFFICES ASSUME ~done'[p]
             PROVE  Rhythm(tmr'[p], pc'[p] = "tmr_run", cursor', iperf_time_in_usecs(Now)', Ended(p)')
  BY DEF SideFresh
<1>4. Rhythm(L, TRUE, cursor, n, d)
  BY <1>1 DEF FreshInv, SideFresh, NotYet
<1>5. Rhythm(L, FALSE, cursor', m, e)
  <2> HIDE DEF L, m, d, e
  <2> QED
    BY <1>1, <1>2, <1>4, RhythmEnds
<1> HIDE DEF L
<1> QED
  BY <1>3, <1>5

(* The test starts on side p.                                               *)
LEMMA StartFresh ==
  ASSUME TrafficTyped, TimersInv, FreshInv, stats_interval # 0,
         reporter_interval = stats_interval, NEW p \in Sides, StartTest(p), pc[p] = "ready",
         NEW v \in {"select", "started"}, pc' = [pc EXCEPT ![p] = v],
         done' = done, cursor' = cursor, clock' = clock
  PROVE  FreshInv'
<1>1. DOMAIN pc = Sides /\ DOMAIN st = Sides /\ DOMAIN tmr = Sides
  BY DEF TimersInv, TrafficTyped, StreamsTyped
<1>2. Paired(tmr'[p])
  BY BeginTimers DEF NotYet
<1>3. pc'[p] # "tmr_run"
  BY <1>1
<1> DEFINE L == tmr'[p]
           m == iperf_time_in_usecs(Now)'
           e == Ended(p)'
<1>4. Rhythm(L, FALSE, cursor', m, e)
  <2> HIDE DEF L, m, e
  <2> QED
    BY <1>2 DEF Paired, Rhythm, L
<1>5. SideFresh(p)'
  BY <1>3, <1>4 DEF SideFresh
<1>6. ASSUME NEW q \in Sides, q # p
      PROVE  SideFresh(q)'
  <2>1. PICK a, b, c, d : StartBody(p, a, b, c, d)
    BY StartParts, Zenon
  <2>2. \E R, f : tmr' = [tmr EXCEPT ![p] = R] /\ st' = [st EXCEPT ![p] = f]
    BY <2>1, Zenon DEF StartBody
  <2>3. tmr'[q] = tmr[q] /\ st'[q] = st[q] /\ pc'[q] = pc[q]
    BY <1>1, <1>6, <2>2
  <2>4. Idle(q)
    BY <2>3 DEF Idle
  <2> QED
    BY <2>4, IdleFresh DEF FreshInv
<1> QED
  BY <1>5, <1>6 DEF FreshInv

(* A timer of side p fires, or its loop ends.                               *)
LEMMA TimersFresh ==
  ASSUME TrafficTyped, TimersInv, FreshInv, stats_interval # 0, NEW p \in Sides,
         \/ TimersRun(p) \/ StatsTimer(p) \/ ReporterTimer(p) \/ OmitTimer(p) \/ SendTimer(p)
         \/ (p = "client" /\ TestTimer) \/ (p = "server" /\ ServerTimer)
  PROVE  SideFresh(p)'
<1>1. done \in [Sides -> BOOLEAN]
  BY DEF TrafficTyped
<1>2. CASE TimersRun(p)
  BY <1>2, RunFresh
<1>3. CASE done[p] /\ (StatsTimer(p) \/ ReporterTimer(p) \/ OmitTimer(p) \/ SendTimer(p))
  <2>1. done' = done
    BY <1>3 DEF StatsTimer, ReporterTimer, OmitTimer, SendTimer
  <2> QED
    BY <1>3, <2>1 DEF SideFresh
<1>4. CASE ~done[p] /\ (StatsTimer(p) \/ ReporterTimer(p) \/ OmitTimer(p) \/ SendTimer(p))
  BY <1>4, StatsFresh, ReporterFresh, OmitFresh, SendFresh
<1>5. CASE (p = "client" /\ TestTimer) \/ (p = "server" /\ ServerTimer)
  <2>1. done' = [done EXCEPT ![p] = TRUE]
    BY <1>5 DEF TestTimer, ServerTimer
  <2>2. done'[p]
    BY <1>1, <2>1
  <2> QED
    BY <2>2 DEF SideFresh
<1> QED
  BY <1>2, <1>3, <1>4, <1>5

LEMMA FreshNext ==
  ASSUME TrafficTyped, TimersInv, PaceInv, FreshInv, [Next]_trafficVars, stats_interval # 0,
         reporter_interval = stats_interval
  PROVE  FreshInv'
<1>1. ASSUME \A p \in Sides : Idle(p)
      PROVE  FreshInv'
  BY <1>1, IdleFresh DEF FreshInv
<1>2. ASSUME NEW p \in Sides,
             \/ TimersRun(p) \/ StatsTimer(p) \/ ReporterTimer(p) \/ OmitTimer(p) \/ SendTimer(p)
             \/ (p = "client" /\ TestTimer) \/ (p = "server" /\ ServerTimer)
      PROVE  FreshInv'
  <2>1. SideFresh(p)'
    BY <1>2, TimersFresh
  <2>2. ASSUME NEW q \in Sides, q # p
        PROVE  SideFresh(q)'
    <3>1. Idle(q)
      BY <1>2, <2>2, IdleOther
    <3> QED
      BY <3>1, IdleFresh DEF FreshInv
  <2> QED
    BY <2>1, <2>2 DEF FreshInv
<1>3. CASE UNCHANGED trafficVars
  BY <1>3 DEF trafficVars, FreshInv, SideFresh, Ended, Now
<1>4. CASE ServerStarts
  <2>1. /\ StartTest("server") /\ pc["server"] = "ready"
        /\ pc' = [pc EXCEPT !["server"] = "select"]
        /\ done' = done /\ cursor' = cursor /\ clock' = clock
    BY <1>4 DEF ServerStarts
  <2> QED
    BY <2>1, StartFresh DEF Sides
<1>5. CASE ClientStarts
  <2>1. /\ StartTest("client") /\ pc["client"] = "ready"
        /\ pc' = [pc EXCEPT !["client"] = "started"]
        /\ done' = done /\ cursor' = cursor /\ clock' = clock
    BY <1>5 DEF ClientStarts
  <2> QED
    BY <2>1, StartFresh DEF Sides
<1>6. CASE \/ UdpConnect \/ UdpAccept \/ UdpConnected \/ UdpConnectFails
           \/ ClientRuns \/ ClientTerminates \/ ClientClosed \/ Tick
  BY <1>1, <1>6, IdleHandshake
<1>7. CASE \/ ClientPass \/ ServerPass \/ ClientChecks \/ ClientDrains \/ ServerTestEnd
           \/ ClientResults \/ ServerEnds
  BY <1>1, <1>7, IdleTest
<1>8. CASE TestTimer \/ ServerTimer
  BY <1>2, <1>8 DEF Sides
<1> QED
  BY <1>2, <1>3, <1>4, <1>5, <1>6, <1>7, <1>8, Zenon DEF Next, Steps

(* The report of intervals that have all ended now.                         *)
AllEnd(f, t) ==
  \A j \in Streams : /\ f[j].intervals # <<>>
                     /\ f[j].intervals[Len(f[j].intervals)].end = t
Grew(f, i) == f[i].intervals[Len(f[i].intervals)].bytes > 0
ReportAt(f, interval, t) ==
  \E irp \in Range(iperf_print_intermediate(f, interval)) : irp.end = t

LEMMA ReportEnds ==
  ASSUME NEW f, NEW t, NEW interval, NEW i \in Streams, AllEnd(f, t), Grew(f, i)
  PROVE  ReportAt(f, interval, t)
<1> DEFINE has == {j \in Streams : f[j].intervals # <<>>}
           last == [j \in has |-> f[j].intervals[Len(f[j].intervals)]]
           length(irp) == iperf_time_in_usecs(iperf_time_diff(irp.start, irp.end).diff)
           b == SumFunction([j \in Streams |-> last[j].bytes])
           k == SumFunction([j \in Streams |-> last[j].packets])
           l == SumFunction([j \in Streams |-> last[j].lost])
           irp == [end |-> last[1].end, bytes |-> b, packets |-> k, lost |-> l]
           r == iperf_print_intermediate(f, interval)
<1>1. has = Streams /\ 1 \in Streams
  BY StreamAssumption DEF Streams, AllEnd
<1>2. last[i].bytes > 0 /\ last[1].end = t
  BY <1>1 DEF AllEnd, Grew
<1>3. r = IF ~(\E j \in has : length(last[j]) * 10 >= interval \/ last[j].bytes > 0)
             \/ has # Streams
          THEN <<>> ELSE <<irp>>
  BY DEF iperf_print_intermediate
<1> HIDE DEF has, last, length, b, k, l
<1>4. r = <<irp>>
  BY <1>1, <1>2, <1>3
<1>5. irp.end = t
  BY <1>2
<1> HIDE DEF r, irp
<1>6. irp \in Range(r)
  BY <1>4 DEF Range
<1> QED
  BY <1>5, <1>6 DEF r, ReportAt

(* When the reporter timer is about to fire, the intervals end now.         *)
LEMMA ReporterEnded ==
  ASSUME TrafficTyped, TimersInv, FreshInv, stats_interval # 0, NEW p \in Sides,
         pc[p] = "tmr_run", ~LoopEnds(tmr[p], cursor, Now), cursor = ptr[p].reporter, ~done[p]
  PROVE  Ended(p)
<1> DEFINE K == Held(ptr[p], st[p])
           L == tmr[p]
           n == iperf_time_in_usecs(Now)
           d == Ended(p)
<1>1. Linked(L, K) /\ Good(L) /\ cursor # NULL /\ Now \in Time
  BY NowType DEF TimersInv, SideTimers, Linked, LoopEnds, TrafficTyped
<1>2. Holds(K, ptr[p], st[p])
  BY HeldHolds
<1> HIDE DEF K
<1>3. K[ReporterSlot] = cursor /\ ReporterSlot \in Slots
  BY <1>2, SlotCases DEF Holds
<1>4. PICK c \in Act(L) : Slot(c) = ReporterSlot /\ c.id = cursor
  BY <1>1, <1>3, LinkedNames
<1>5. c.proc = "reporter"
  BY <1>4 DEF Slot, ReporterSlot
<1>6. c \in Cells /\ c.time \in Time /\ CellOf(L, cursor) = c
  BY <1>1, <1>4, ActiveCells, CellFields
<1>7. ~(iperf_time_compare(c.time, Now) > 0)
  BY <1>1, <1>6 DEF LoopEnds
<1>8. Us(c) <= n /\ n \in Nat
  <2> DEFINE k == iperf_time_compare(c.time, Now)
  <2>1. /\ Us(c) \in Nat /\ n \in Nat /\ k \in {-1, 0, 1}
        /\ k = 1 <=> Us(c) > n
    BY <1>1, <1>6, CompareTimes DEF Us
  <2>2. ~(k > 0)
    BY <1>7
  <2> HIDE DEF n, k
  <2> QED
    BY <2>1, <2>2
<1>9. Single(L)
  BY <1>1, LinkedSingle
<1>10. Rhythm(L, TRUE, c.id, n, d)
  BY <1>4 DEF FreshInv, SideFresh, NotYet
<1>11. d
  <2> SUFFICES ASSUME ~d
               PROVE  FALSE
    OBVIOUS
  <2> HIDE DEF L, n, d
  <2>1. Rhythm(L, TRUE, c.id, n, FALSE)
    BY <1>10 DEF Rhythm
  <2> QED
    BY <1>1, <1>4, <1>5, <1>8, <1>9, <2>1, RhythmReporter
<1> QED
  BY <1>11

LEMMA FreshFollows ==
  ASSUME TrafficTyped, TimersInv, FreshInv, stats_interval # 0
  PROVE  ReportsAreFresh
<1> SUFFICES ASSUME NEW p \in Sides, pc[p] = "tmr_run", ~LoopEnds(tmr[p], cursor, Now),
                    cursor = ptr[p].reporter, ~done[p]
             PROVE  LET newest(i) == st[p][i].intervals[Len(st[p][i].intervals)] IN
                    /\ \A i \in Streams : st[p][i].intervals # <<>> /\ newest(i).end = Now
                    /\ (\E i \in Streams : newest(i).bytes > 0) =>
                         \E irp \in Range(iperf_print_intermediate(st[p], stats_interval)) :
                           irp.end = Now
  BY DEF ReportsAreFresh
<1>1. \A i \in Streams : /\ st[p][i].intervals # <<>>
                         /\ st[p][i].intervals[Len(st[p][i].intervals)].end = Now
  BY ReporterEnded DEF Ended
<1>2. ASSUME NEW i \in Streams, st[p][i].intervals[Len(st[p][i].intervals)].bytes > 0
      PROVE  \E irp \in Range(iperf_print_intermediate(st[p], stats_interval)) : irp.end = Now
  <2>1. AllEnd(st[p], Now) /\ Grew(st[p], i)
    BY <1>1, <1>2, Zenon DEF AllEnd, Grew
  <2>2. ReportAt(st[p], stats_interval, Now)
    BY <2>1, ReportEnds, Zenon
  <2> QED
    BY <2>2, Zenon DEF ReportAt
<1> QED
  BY <1>1, <1>2

(* With -i, or without it, the statistics and the reporter timer have the   *)
(* same interval (both set from the option, iperf_parse_arguments, and both *)
(* one second from iperf_defaults; 0 means no reports). Then, however late  *)
(* tmr_run comes, whatever else fires in the same pass and wherever the     *)
(* omit timer restarts the two, a report is never of an old interval:       *)
(* tmr_run collects the statistics before each report, in the same pass.    *)
THEOREM AlwaysReportsFresh ==
  ASSUME stats_interval # 0, reporter_interval = stats_interval
  PROVE  Spec => []ReportsAreFresh
<1>1. TrafficInit => TrafficTyped /\ TimersInv /\ PaceInv /\ FreshInv
  BY TypedInit, TimersInit, PaceInit, FreshInit
<1>2. TrafficTyped /\ TimersInv /\ PaceInv /\ FreshInv /\ [Next]_trafficVars
        => (PaceInv /\ FreshInv)'
  BY PaceNext, FreshNext
<1>3. TrafficTyped /\ TimersInv /\ FreshInv => ReportsAreFresh
  BY FreshFollows
<1> QED
  BY <1>1, <1>2, <1>3, StreamsStayTyped, TimersStayLinked, PTL DEF Spec
===============================================================================
