------------------------------ MODULE IperfTraffic ------------------------------
(***************************************************************************)
(* A UDP test from the first datagram to the report: the client and the    *)
(* server set up their streams (iperf_udp_connect, iperf_udp_accept), then *)
(* one sends and the other receives while the timers of each side end the  *)
(* omitted time, collect statistics, pace the sender and end the test, and *)
(* at last they exchange their results. IperfTest models what the control  *)
(* connection does in between; here it carries what the test needs.        *)
(*                                                                         *)
(* A pass of a select loop is not interleaved with the other side: it only *)
(* meets the other side through the network. Time passes between passes.   *)
(*                                                                         *)
(* Op_word stands before Op and is a faulty variant of it.                 *)
(***************************************************************************)
EXTENDS IperfStream, FiniteSets

CONSTANTS
  Directions,        \* the values of -R: TRUE if the server is the sender
  duration,          \* -t in seconds, 0 if the test ends by bytes
  omit,              \* -O in seconds
  bytes,             \* -n
  stats_interval,    \* -i in microseconds, 0 for none
  reporter_interval, \* the same for the reports
  pacing_timer,      \* in microseconds
  grace_period,      \* of the server's timer, in seconds
  TICK,              \* microseconds of one step of the clock
  MAX_SKEW,          \* bound on the clock as the client's test begins
  MAX_CLOCK,         \* bound on the clock
  MAX_PACKETS,       \* bound on the datagrams of one stream
  Faults             \* what may go wrong: "lost_hello", "nobufs", "terminate"

ASSUME TrafficAssumption ==
  /\ Directions \subseteq BOOLEAN
  /\ {duration, omit, bytes, stats_interval, reporter_interval, grace_period} \subseteq Nat
  /\ pacing_timer \in Nat \ {0} /\ TICK \in Nat \ {0}
  /\ {MAX_SKEW, MAX_CLOCK, MAX_PACKETS} \subseteq Nat
  /\ Faults \subseteq {"lost_hello", "nobufs", "terminate"}

VARIABLES
  reverse,   \* test->reverse
  clock,     \* steps of the clock
  pc,        \* where each side is
  hello,     \* the handshake datagram in flight: "none", "hello" or "reply"
  connected, \* streams set up on each side
  start,     \* start_time_fixed of the streams of each side
  tmr,       \* the list of timers of each side
  ptr,       \* test->timer, stats_timer, reporter_timer and omit_timer
  cursor,    \* the loop variable t of tmr_run
  done,      \* test->done
  omitting,  \* test->omitting
  total,     \* test->bytes_sent and test->bytes_received
  st,        \* test->streams
  net,       \* datagrams that have been sent and not arrived: <<stream, number>>
  ctl,       \* the last word on the control connection: "", "TEST_END",
             \* "IPERF_DONE", "CLIENT_TERMINATE" or "closed"
  report,    \* what iperf_print_results has printed on each side, if anything
  counted    \* history: the numbers that the receiver has counted, by stream

trafficVars == <<reverse, clock, pc, hello, connected, start, tmr, ptr, cursor, done, omitting,
                 total, st, net, ctl, report, counted>>

Sides == {"client", "server"}

Snd == IF reverse THEN "server" ELSE "client"

Rcv == IF reverse THEN "client" ELSE "server"

Now == iperf_time_add_usecs([secs |-> 0, usecs |-> 0], clock * TICK)

NoPtr == [timer |-> NULL, stats |-> NULL, reporter |-> NULL, omit |-> NULL]

TrafficInit ==
  /\ reverse \in Directions /\ clock = 0
  /\ pc = [client |-> "connect", server |-> "accept"]
  /\ hello = "none" /\ connected = [p \in Sides |-> 0]
  /\ start = [p \in Sides |-> [secs |-> 0, usecs |-> 0]]
  /\ tmr = [p \in Sides |-> NoTimers] /\ ptr = [p \in Sides |-> NoPtr]
  /\ cursor = NULL
  /\ done = [p \in Sides |-> FALSE] /\ omitting = [p \in Sides |-> FALSE]
  /\ total = [p \in Sides |-> [sent |-> 0, received |-> 0]]
  /\ st = [p \in Sides |-> [i \in Streams |-> iperf_new_stream(i)]]
  /\ net = {} /\ ctl = "" /\ report = [p \in Sides |-> <<>>]
  /\ counted = [i \in Streams |-> {}]

---------------------------------------------------------------------------------
(* Setting up the streams.                                                  *)

handshakeVars == <<hello, connected>>

testVars == <<start, tmr, ptr, cursor, done, omitting, total, st, net, report, counted>>

(* iperf_udp_connect writes a datagram, so that the server sees the address *)
(* of the client, and waits for the answer.                                 *)
UdpConnect ==
  /\ pc["client"] = "connect"
  /\ hello' = "hello" /\ pc' = [pc EXCEPT !["client"] = "wait"]
  /\ UNCHANGED <<clock, connected, ctl, testVars>>

(* iperf_udp_accept: the listening socket becomes the stream's socket, a    *)
(* new one listens in its place, and the client gets its answer. After the  *)
(* last stream iperf_run_server stops listening.                            *)
UdpAccept_silent ==
  /\ pc["server"] = "accept" /\ hello = "hello"
  /\ hello' = "none"
  /\ connected' = [connected EXCEPT !["server"] = @ + 1]
  /\ pc' = [pc EXCEPT !["server"] = IF connected'["server"] = num_streams THEN "ready" ELSE "accept"]
  /\ UNCHANGED <<clock, ctl, testVars>>
UdpAccept ==
  /\ pc["server"] = "accept" /\ hello = "hello"
  /\ hello' = "reply"
  /\ connected' = [connected EXCEPT !["server"] = @ + 1]
  /\ pc' = [pc EXCEPT !["server"] = IF connected'["server"] = num_streams THEN "ready" ELSE "accept"]
  /\ UNCHANGED <<clock, ctl, testVars>>

UdpConnected ==
  /\ pc["client"] = "wait" /\ hello = "reply"
  /\ hello' = "none"
  /\ connected' = [connected EXCEPT !["client"] = @ + 1]
  /\ pc' = [pc EXCEPT !["client"] = IF connected'["client"] = num_streams THEN "ready" ELSE "connect"]
  /\ UNCHANGED <<clock, ctl, testVars>>

(* The datagram or the answer is lost. Nobody sends it again; after 30      *)
(* seconds recv fails with IESTREAMREAD and the client ends.                *)
UdpConnectFails ==
  /\ "lost_hello" \in Faults
  /\ pc["client"] = "wait"
  /\ hello' = "none"
  /\ pc' = [pc EXCEPT !["client"] = "end"] /\ ctl' = "closed"
  /\ UNCHANGED <<clock, connected, testVars>>

---------------------------------------------------------------------------------
(* The start of the test.                                                   *)

(* tmr_create, if the program calls it, and the pointer it is kept in.      *)
Create(L, wanted, proc, data, usecs, periodic) ==
  IF wanted THEN [L |-> tmr_create(L, Now, proc, data, usecs, periodic), id |-> NewCell(L)]
  ELSE [L |-> L, id |-> NULL]

(* iperf_create_send_timers: what creating the pacing timer of stream i     *)
(* leaves behind, one stream after the other, from d on.                    *)
iperf_create_send_timers(d) ==
  LET e[i \in 0 .. num_streams] ==
        IF i = 0 THEN d ELSE Create(e[i - 1].L, rate # 0, "send", i, pacing_timer, TRUE)
  IN e

(* iperf_init_test, create_client_timers or create_server_timers,           *)
(* create_..._omit_timer, and iperf_create_send_timers on the sender's side.*)
StartTest(p) ==
  LET last == (duration + omit + (IF p = "server" THEN grace_period ELSE 0)) * MILLION IN
  \E a \in {Create(tmr[p], duration # 0, "test", NULL, last, FALSE)} :
  \E b \in {Create(a.L, stats_interval # 0, "stats", NULL, stats_interval, TRUE)} :
  \E c \in {Create(b.L, reporter_interval # 0, "reporter", NULL, reporter_interval, TRUE)} :
  \E d \in {Create(c.L, omit # 0, "omit", NULL, omit * MILLION, FALSE)} :
    LET e == iperf_create_send_timers(d)
    IN /\ start' = [start EXCEPT ![p] = Now]
       /\ ptr' = [ptr EXCEPT ![p] =
                   [timer |-> a.id, stats |-> b.id, reporter |-> c.id, omit |-> d.id]]
       /\ omitting' = [omitting EXCEPT ![p] = omit # 0]
       /\ IF p = Snd
          THEN /\ tmr' = [tmr EXCEPT ![p] = e[num_streams].L]
               /\ st' = [st EXCEPT ![p] = [i \in Streams |->
                           [@[i] EXCEPT !.start_time = Now, !.green = TRUE, !.send_timer = e[i].id]]]
          ELSE /\ tmr' = [tmr EXCEPT ![p] = d.L]
               /\ st' = [st EXCEPT ![p] = [i \in Streams |-> [@[i] EXCEPT !.start_time = Now]]]

(* The server has all its streams: TEST_START and TEST_RUNNING.             *)
ServerStarts ==
  /\ pc["server"] = "ready"
  /\ StartTest("server")
  /\ pc' = [pc EXCEPT !["server"] = "select"]
  /\ UNCHANGED <<clock, handshakeVars, cursor, done, total, net, ctl, report, counted>>

(* The client reads TEST_START.                                             *)
ClientStarts ==
  /\ pc["client"] = "ready" /\ pc["server"] # "accept" /\ pc["server"] # "ready"
  /\ StartTest("client")
  /\ pc' = [pc EXCEPT !["client"] = "started"]
  /\ UNCHANGED <<clock, handshakeVars, cursor, done, total, net, ctl, report, counted>>

(* The client reads TEST_RUNNING, more than no time later.                  *)
ClientRuns ==
  /\ pc["client"] = "started" /\ iperf_time_compare(Now, start["client"]) > 0
  /\ pc' = [pc EXCEPT !["client"] = "select"]
  /\ UNCHANGED <<clock, handshakeVars, ctl, testVars>>

---------------------------------------------------------------------------------
(* Sending and receiving.                                                   *)

Elapsed(p) == iperf_time_in_usecs(iperf_time_diff(start[p], Now).diff)

(* iperf_send with a rate: every stream with a green light sends one        *)
(* datagram and is checked again. ENOBUFS ends the loop over the streams.   *)
Send ==
  LET go == {i \in Streams : st[Snd][i].green} IN
  /\ go # {} /\ \A i \in go : st[Snd][i].packet_count < MAX_PACKETS
  /\ \E nobufs \in {num_streams + 1} \cup (IF "nobufs" \in Faults THEN go ELSE {}) :
       LET sent == {i \in go : i < nobufs}
           After(s, i) ==
             CASE i \in sent ->
                    iperf_check_throttle(iperf_udp_send(s), Elapsed(Snd), done[Snd])
               [] i = nobufs -> iperf_udp_send_soft(s)
               [] OTHER -> s
       IN /\ st' = [st EXCEPT ![Snd] = [i \in Streams |-> After(@[i], i)]]
          /\ total' = [total EXCEPT ![Snd].sent = @ + blksize * Cardinality(sent)]
          /\ net' = net \cup {<<i, st'[Snd][i].packet_count>> : i \in sent}
  /\ UNCHANGED counted

(* iperf_recv: one datagram from every stream that has one.                 *)
Receive ==
  \E D \in (SUBSET net) \ {{}} :
    /\ \A d, e \in D : d[1] = e[1] => d = e
    /\ net' = net \ D
    /\ st' = [st EXCEPT ![Rcv] = [i \in Streams |->
                IF \E d \in D : d[1] = i
                THEN iperf_udp_recv(@[i], (CHOOSE d \in D : d[1] = i)[2]) ELSE @[i]]]
    /\ total' = [total EXCEPT ![Rcv].received = @ + blksize * Cardinality(D)]
    /\ counted' = [i \in Streams |-> counted[i] \cup {d[2] : d \in {d \in D : d[1] = i}}]

Traffic(p) == IF p = Snd THEN Send ELSE Receive

NoTraffic == UNCHANGED <<st, total, net, counted>>

Busy == pc["client"] \in {"tmr_run", "check"} \/ pc["server"] = "tmr_run"

Selects(p) == pc[p] = "select" /\ ~Busy /\ iperf_time_compare(Now, start[p]) > 0

Due(p) == tmr_timeout(tmr[p], Now) = 0

RunTimers(p) == pc' = [pc EXCEPT ![p] = "tmr_run"] /\ cursor' = First(tmr[p])

(* A pass of the client: select returns since a socket is ready or a timer  *)
(* is due; the timers run in every pass.                                    *)
ClientPass ==
  /\ Selects("client")
  /\ Traffic("client") \/ (Due("client") /\ NoTraffic)
  /\ RunTimers("client")
  /\ UNCHANGED <<clock, handshakeVars, start, tmr, ptr, done, omitting, ctl, report>>

(* A pass of the server. It runs the timers if select has returned by the   *)
(* timeout, or if the timeout was zero when select was called.              *)
ServerPass ==
  /\ Selects("server") /\ ctl # "closed"
  /\ \/ /\ ~done["server"] /\ Traffic("server")
        /\ \/ Due("server") /\ RunTimers("server")
           \/ UNCHANGED <<pc, cursor>>
     \/ Due("server") /\ NoTraffic /\ RunTimers("server")
  /\ UNCHANGED <<clock, handshakeVars, start, tmr, ptr, done, omitting, ctl, report>>

---------------------------------------------------------------------------------
(* tmr_run, one timer a step.                                               *)

(* After the loop the client asks whether the test is done.                 *)
TimersRun(p) ==
  /\ pc[p] = "tmr_run"
  /\ LoopEnds(tmr[p], cursor, Now)
  /\ pc' = [pc EXCEPT ![p] = IF p = "client" THEN "check" ELSE "select"]
  /\ cursor' = NULL
  /\ UNCHANGED <<clock, handshakeVars, start, tmr, ptr, done, omitting, total, st, net, ctl,
                 report, counted>>

(* The timer at the cursor runs its callback and is put back or cancelled.  *)
Fires(p, proc) ==
  /\ pc[p] = "tmr_run" /\ ~LoopEnds(tmr[p], cursor, Now)
  /\ cursor \in Ids(tmr[p])
  /\ CellOf(tmr[p], cursor).proc = proc
  /\ cursor' = NextOf(tmr[p], cursor)
  /\ UNCHANGED <<clock, pc, handshakeVars, start, net, report, counted>>

Puts(p, L) == tmr' = [tmr EXCEPT ![p] = Reschedule(L, cursor)]

(* test_timer_proc.                                                         *)
TestTimer ==
  /\ Fires("client", "test")
  /\ ptr' = [ptr EXCEPT !["client"].timer = NULL] /\ done' = [done EXCEPT !["client"] = TRUE]
  /\ Puts("client", tmr["client"])
  /\ UNCHANGED <<omitting, total, st, ctl>>

(* The timers of the streams, which iperf_free_stream cancels.              *)
SendTimers(p) == [i \in Streams |-> st[p][i].send_timer]

(* server_timer_proc: the client has not ended the test in time. The        *)
(* streams are freed, and their timers with them, and the control           *)
(* connection is closed.                                                    *)
ServerTimer ==
  /\ Fires("server", "test")
  /\ ptr' = [ptr EXCEPT !["server"].timer = NULL]
  /\ done' = [done EXCEPT !["server"] = TRUE]
  /\ Puts("server", IF done["server"] THEN tmr["server"]
                    ELSE CancelAll(tmr["server"], SendTimers("server")))
  /\ st' = IF done["server"] THEN st
           ELSE [st EXCEPT !["server"] = [i \in Streams |-> [@[i] EXCEPT !.send_timer = NULL]]]
  /\ ctl' = IF done["server"] THEN ctl ELSE "closed"
  /\ UNCHANGED <<omitting, total>>

(* client_stats_timer_proc, server_stats_timer_proc.                        *)
StatsTimer(p) ==
  /\ Fires(p, "stats")
  /\ st' = IF done[p] THEN st
           ELSE [st EXCEPT ![p] = [i \in Streams |-> iperf_stats_callback(@[i], p = Snd, omitting[p], Now)]]
  /\ Puts(p, tmr[p])
  /\ UNCHANGED <<ptr, done, omitting, total, ctl>>

(* client_reporter_timer_proc, server_reporter_timer_proc: an interval is   *)
(* printed, nothing changes.                                                *)
ReporterTimer(p) ==
  /\ Fires(p, "reporter")
  /\ Puts(p, tmr[p])
  /\ UNCHANGED <<ptr, done, omitting, total, st, ctl>>

(* client_omit_timer_proc, server_omit_timer_proc. Of test's own counters   *)
(* iperf_reset_stats resets what was sent, not what was received.           *)
OmitTimer_dangling(p) ==
  /\ Fires(p, "omit")
  /\ omitting' = [omitting EXCEPT ![p] = FALSE]
  /\ st' = [st EXCEPT ![p] = [i \in Streams |-> iperf_reset_stats(@[i], Now)]]
  /\ total' = [total EXCEPT ![p].sent = 0]
  /\ \E L \in {ResetIfSet(tmr[p], Now, ptr[p].stats)} :
       Puts(p, ResetIfSet(L, Now, ptr[p].reporter))
  /\ UNCHANGED <<ptr, done, ctl>>
OmitTimer(p) ==
  /\ Fires(p, "omit")
  /\ omitting' = [omitting EXCEPT ![p] = FALSE]
  /\ st' = [st EXCEPT ![p] = [i \in Streams |-> iperf_reset_stats(@[i], Now)]]
  /\ total' = [total EXCEPT ![p].sent = 0]
  /\ ptr' = [ptr EXCEPT ![p].omit = NULL]
  /\ \E L \in {ResetIfSet(tmr[p], Now, ptr[p].stats)} :
       Puts(p, ResetIfSet(L, Now, ptr[p].reporter))
  /\ UNCHANGED <<done, ctl>>

(* send_timer_proc.                                                         *)
SendTimer(p) ==
  /\ Fires(p, "send")
  /\ LET i == CellOf(tmr[p], cursor).data IN
     st' = [st EXCEPT ![p][i] = iperf_check_throttle(@, Elapsed(p), done[p])]
  /\ Puts(p, tmr[p])
  /\ UNCHANGED <<ptr, done, omitting, total, ctl>>

(* If the timer at the cursor is due but no longer active, a callback has   *)
(* cancelled it: tmr_run calls it all the same, its stream is gone, and     *)
(* what happens then is undefined. No action of the model goes on there.    *)

---------------------------------------------------------------------------------
(* The end of the test.                                                     *)

(* The client's question after the timers: the time is over, or the bytes   *)
(* are through. If so, the last interval ends and TEST_END goes out.        *)
ClientChecks ==
  /\ pc["client"] = "check"
  /\ LET over == /\ ~omitting["client"]
                 /\ \/ done["client"]
                    \/ bytes # 0 /\ total["client"].sent >= bytes
                    \/ bytes # 0 /\ total["client"].received >= bytes
     IN IF over
        THEN /\ done' = [done EXCEPT !["client"] = TRUE]
             /\ st' = [st EXCEPT !["client"] = [i \in Streams |->
                         iperf_stats_callback(@[i], "client" = Snd, FALSE, Now)]]
             /\ ctl' = (IF ctl = "closed" THEN ctl ELSE "TEST_END")
             /\ pc' = [pc EXCEPT !["client"] = "results"]
        ELSE pc' = [pc EXCEPT !["client"] = "select"] /\ UNCHANGED <<done, st, ctl>>
  /\ UNCHANGED <<clock, handshakeVars, start, tmr, ptr, cursor, omitting, total, net,
                 report, counted>>

(* A receiver goes on reading, and throws away what still comes.            *)
ClientDrains ==
  /\ pc["client"] = "results" /\ Rcv = "client"
  /\ \E d \in net : net' = net \ {d}
  /\ total' = [total EXCEPT !["client"].received = @ + blksize]
  /\ UNCHANGED <<clock, pc, handshakeVars, start, tmr, ptr, cursor, done, omitting, st, ctl,
                 report, counted>>

(* sigend_handler.                                                          *)
ClientTerminates ==
  /\ "terminate" \in Faults
  /\ pc["client"] \in {"ready", "started", "select"} /\ ~Busy /\ ctl = ""
  /\ pc' = [pc EXCEPT !["client"] = "end"] /\ ctl' = "CLIENT_TERMINATE"
  /\ UNCHANGED <<clock, handshakeVars, testVars>>

(* The server has closed the control connection.                            *)
ClientClosed ==
  /\ pc["client"] \in {"ready", "started", "select", "results"} /\ ~Busy /\ ctl = "closed"
  /\ pc' = [pc EXCEPT !["client"] = "end"]
  /\ UNCHANGED <<clock, handshakeVars, ctl, testVars>>

(* TEST_END comes in: the last interval ends, the server prints its report  *)
(* and waits for the results of the client.                                 *)
ServerTestEnd ==
  /\ pc["server"] = "select" /\ ~Busy /\ ctl = "TEST_END"
  /\ done' = [done EXCEPT !["server"] = TRUE]
  /\ st' = [st EXCEPT !["server"] = [i \in Streams |->
              iperf_stats_callback(@[i], "server" = Snd, omitting["server"], Now)]]
  /\ report' = [report EXCEPT !["server"] = <<iperf_print_results(st'["server"], "server" = Snd)>>]
  /\ pc' = [pc EXCEPT !["server"] = "results"]
  /\ UNCHANGED <<clock, handshakeVars, start, tmr, ptr, cursor, omitting, total, net, ctl,
                 counted>>

(* iperf_exchange_results and the client's report. The server has printed   *)
(* its own before it learns what the client has.                            *)
Results(p) == [i \in Streams |-> send_results(st[p][i], p = Snd)]

ClientResults ==
  /\ pc["client"] = "results" /\ pc["server"] = "results"
  /\ st' = [p \in Sides |-> [i \in Streams |->
              get_results(st[p][i], p = Snd, Results(IF p = "client" THEN "server" ELSE "client"))]]
  /\ report' = [report EXCEPT !["client"] = <<iperf_print_results(st'["client"], "client" = Snd)>>]
  /\ pc' = [client |-> "end", server |-> "select"] /\ ctl' = "IPERF_DONE"
  /\ UNCHANGED <<clock, handshakeVars, start, tmr, ptr, cursor, done, omitting, total, net,
                 counted>>

(* cleanup_server cancels the timers of the test, iperf_reset_test those of *)
(* the streams.                                                             *)
Cancelled_omit(p) ==
  CancelAll(tmr[p], <<ptr[p].stats, ptr[p].reporter, ptr[p].timer>> \o SendTimers(p))
Cancelled(p) ==
  CancelAll(tmr[p], <<ptr[p].stats, ptr[p].reporter, ptr[p].omit, ptr[p].timer>> \o SendTimers(p))

(* IPERF_DONE, CLIENT_TERMINATE, on which the server prints what it has, or *)
(* the end of the control connection; or the server's timer has closed that *)
(* connection itself and select fails.                                      *)
ServerEnds ==
  /\ pc["server"] \in {"accept", "ready", "select"} /\ ~Busy
  /\ pc["client"] = "end" \/ ctl = "closed"
  /\ tmr' = [tmr EXCEPT !["server"] = Cancelled("server")]
  /\ ptr' = [ptr EXCEPT !["server"] = NoPtr]
  /\ st' = [st EXCEPT !["server"] = [i \in Streams |-> [@[i] EXCEPT !.send_timer = NULL]]]
  /\ report' = IF ctl = "CLIENT_TERMINATE"
               THEN [report EXCEPT !["server"] = <<iperf_print_results(st["server"], "server" = Snd)>>]
               ELSE report
  /\ pc' = [pc EXCEPT !["server"] = "end"]
  /\ UNCHANGED <<clock, handshakeVars, start, cursor, done, omitting, total, net, ctl, counted>>

(* Time passes while a side is in select.                                   *)
Tick ==
  /\ ~Busy
  /\ clock < (IF pc["client"] \in {"wait", "connect", "ready"} THEN MAX_SKEW ELSE MAX_CLOCK)
  /\ \E p \in Sides : pc[p] \in {"ready", "started", "select", "results"}
  /\ clock' = clock + 1
  /\ UNCHANGED <<pc, handshakeVars, ctl, testVars>>

---------------------------------------------------------------------------------

(* What the two programs and the clock do.                                  *)
Steps ==
  /\ \/ UdpConnect \/ UdpAccept \/ UdpConnected
     \/ ServerStarts \/ ClientStarts \/ ClientRuns
     \/ ClientPass \/ ServerPass
     \/ TestTimer \/ ServerTimer
     \/ \E p \in Sides : \/ TimersRun(p) \/ StatsTimer(p) \/ ReporterTimer(p)
                           \/ OmitTimer(p) \/ SendTimer(p)
     \/ ClientChecks \/ ClientDrains \/ ClientClosed
     \/ ServerTestEnd \/ ClientResults \/ ServerEnds
     \/ Tick
  /\ UNCHANGED reverse

Next == Steps \/ ((UdpConnectFails \/ ClientTerminates) /\ UNCHANGED reverse)

Spec == TrafficInit /\ [][Next]_trafficVars

(* A process that can run is run, a datagram or message that is not lost    *)
(* arrives, and time goes on.                                               *)
FairSpec == Spec /\ WF_trafficVars(Steps)

---------------------------------------------------------------------------------
(* Properties.                                                              *)

(* The lists of timers stay sorted, and every pointer that the program      *)
(* keeps to a timer (test->timer, stats_timer, reporter_timer, omit_timer,  *)
(* a stream's send_timer) is NULL or names an active timer of that purpose: *)
(* tmr_reset and tmr_cancel are never given a timer that has run out.       *)
PointersLive ==
  \A p \in Sides :
    LET names(id, proc) == id = NULL \/ (id \in Ids(tmr[p]) /\ CellOf(tmr[p], id).proc = proc) IN
    /\ WellFormed(tmr[p])
    /\ names(ptr[p].timer, "test") /\ names(ptr[p].stats, "stats")
    /\ names(ptr[p].reporter, "reporter") /\ names(ptr[p].omit, "omit")
    /\ \A i \in Streams : names(st[p][i].send_timer, "send")

(* After cleanup_server and iperf_reset_test no timer of the test is left:  *)
(* the next test would run it with the streams of this one.                 *)
NoTimerLeft == pc["server"] = "end" => tmr["server"].active = <<>>

(* A timer that tmr_run is about to call has not been cancelled.            *)
CancelledNeverRuns ==
  \A p \in Sides :
    pc[p] = "tmr_run" /\ ~LoopEnds(tmr[p], cursor, Now) => cursor \in Ids(tmr[p])

(* The bytes of the intervals of stream s that were not omitted.            *)
IntervalBytes(s) ==
  LET f[k \in 0 .. Len(s.intervals)] ==
        IF k = 0 THEN 0
        ELSE f[k - 1] + (IF s.intervals[k].omitted THEN 0 ELSE s.intervals[k].bytes)
  IN f[Len(s.intervals)]

(* Once the omitted time is over, the intervals of a stream and the one in  *)
(* progress add up to what the test reports for the stream, in whatever     *)
(* order the omit timer, the statistics timer and the last callback came;   *)
(* and a client that sends reports of the received bytes what the server    *)
(* reports.                                                                 *)
IntervalsAddUp ==
  /\ \A i \in Streams :
       /\ ~omitting[Snd] =>
            LET s == st[Snd][i] IN IntervalBytes(s) + s.sent_iv = s.sent - s.sent_omit
       /\ ~omitting[Rcv] =>
            LET s == st[Rcv][i] IN IntervalBytes(s) + s.received_iv = s.received
  /\ ~reverse /\ report["client"] # <<>> /\ report["server"] # <<>> =>
       report["client"][1].received = report["server"][1].received

(* When a report is due, the newest interval of every stream is one that    *)
(* the statistics timer has ended in this very pass of tmr_run, and it is   *)
(* reported if any stream moved a byte in it: no interval is reported when  *)
(* it is stale, however late the timers run (tmr_run then calls both timers *)
(* several times in a pass, and the intervals after the first are empty)    *)
(* and whenever the omit timer restarts them.                               *)
ReportsAreFresh ==
  \A p \in Sides :
    pc[p] = "tmr_run" /\ ~LoopEnds(tmr[p], cursor, Now) /\ cursor = ptr[p].reporter /\ ~done[p] =>
      LET newest(i) == st[p][i].intervals[Len(st[p][i].intervals)] IN
      /\ \A i \in Streams : st[p][i].intervals # <<>> /\ newest(i).end = Now
      /\ (\E i \in Streams : newest(i).bytes > 0) =>
           \E irp \in Range(iperf_print_intermediate(st[p], stats_interval)) : irp.end = Now

(* The sender is never more than one datagram ahead of its rate, however    *)
(* its passes, the clock and the pacing timer follow each other.            *)
RateKept ==
  \A i \in Streams :
    pc[Snd] \notin {"connect", "wait", "accept", "ready"} =>
      st[Snd][i].sent * 8 * MILLION <= rate * Elapsed(Snd) + 8 * blksize * MILLION

Largest(S) == CHOOSE n \in S \cup {0} : \A m \in S : m <= n

(* Whatever the network loses or reorders, the receiver's loss count is     *)
(* true: of the numbers up to the largest one it has missed cnt_error.      *)
LossIsTrue ==
  \A i \in Streams :
    /\ st[Rcv][i].packet_count = Largest(counted[i])
    /\ st[Rcv][i].cnt_error = st[Rcv][i].packet_count - Cardinality(counted[i])

(* Every test comes to an end on both sides, a lost handshake, a client     *)
(* that terminates and a client whose TEST_END comes too late included,     *)
(* unless the server runs into a timer that it has cancelled itself.        *)
TestEnds == <>((pc["client"] = "end" /\ pc["server"] = "end") \/ ~CancelledNeverRuns)
===============================================================================
