# A TLA+ model of WAN

WAN is a collection of network programs written for a wide-area-networks course,
together with the copy of iperf3 that its experiments use. This directory holds
TLA+ specifications of the course's protocol code and of the core of iperf3, TLC
configurations that check them on small instances, and TLAPS proofs of the main
results for all instances: about the course's protocols, about iperf3's control
protocol, parameters, timers, statistics and pacing, and about the lists of its JSON
library. `PROJECT.json` links every definition to the source lines it stands for.

## 1. The system

| Part | Source | State | Operations | Model |
|---|---|---|---|---|
| `ncp`, file sender over UDP | `proj1/ncp.cpp` | send window, labels (`umap`), next seq, `last_pkt`, `blocked` | launch, timeout (fill the window, transmit), ack, nack | `Ncp` |
| `rcv`, file receiver over UDP | `proj1/rcv.cpp` | queue of senders, output stream, `cum_seq`, reorder window, `done`, `rcv_start` | datagram (block, old, in order, future), timeout (switch sender) | `Rcv` |
| `fetch_next`, packet formats | `proj1/utils/file_helper.cpp`, `packet.h` | read position of the source file | cut the next packet | `FileHelper` |
| `sendto_dbg` and the network | `proj1/utils/sendto_dbg.cpp`, IP | datagrams in flight | lose, delay, reorder, duplicate | `UdpNet` |
| the tool as a whole | `proj1` | all of it | all of it | `FileCopy` |
| `t_ncp`, file sender over TCP | `proj1/t_ncp.cpp` | read position, unsent part of the message | connect, read a piece, send, exit | `TNcp` |
| `t_rcv`, file receiver over TCP | `proj1/t_rcv.cpp` | connection table, partly read message, the one output file | select and accept, receive, write, close | `TRcv` |
| `rt_srv`, real-time sender | `proj2/rt_srv.cpp` | packet cache, time table, `cum_seq`, the accepted client | request, nack, ack, message of the application | `RtSrv` |
| `rt_rcv`, real-time receiver | `proj2/rt_rcv.cpp` | `delta`, `cum_seq`, packet cache, time table | calibrate, in-order packet, other packet, timeout (nacks); delivery after each | `RtRcv` |
| `udp_stream`, `udp_stream_rcv` | `proj2` | `seq`; `last_rcvd` | generate and consume the stream | in `RtSrv`, `RtRcv` |
| iperf3, control protocol | `iperf_client_api.c`, `iperf_server_api.c`, `iperf_tcp.c`, `net.c`, `main.c` | `test->state`, control socket, cookie, streams, listener | connect, accept, deny, exchange parameters, create streams, start, end, exchange results, clean up; signals, timeouts, errors | `IperfNet`, `IperfClient`, `IperfServer`, `IperfTest` |
| iperf3, timers and time | `timer.c`, `iperf_time.c` | list of timers and free list | create, reset, cancel, run | `IperfTime` |
| iperf3, UDP test and statistics | `iperf_udp.c`, `iperf_api.c` | packet and loss counters, interval results, throttle | handshake, send, receive, timer procedures, reports | `IperfStream`, `IperfTraffic` |
| iperf3, command line and parameters | `iperf_api.c` | `struct iperf_test` | parse, send and get the parameters, authorize, reset | `IperfParams` |
| iperf3, cJSON | `cjson.c` | items in linked lists on the heap | create, add, insert, detach, replace, duplicate, compare, delete, print, parse | `CJsonText`, `CJsonList`, `CJson`, `CJsonUse` |
| iperf3, TCP and SCTP streams | `iperf_tcp.c`, `iperf_sctp.c` | socket options, byte counts | connect and accept; send, receive | TCP's set-up in `IperfServer`; the rest not modelled |
| iperf3, authentication | `iperf_auth.c` | keys, user list | sign, check | the decision in `IperfParams`; the cryptography not modelled |
| iperf3, units, locale, errors, utilities, output | `units.c`, `iperf_error.c`, `iperf_util.c`, ... | none | format | not modelled |
| statistics, `stat_display` | `proj1`, `proj2` | byte counters | print | not modelled |
| `socket_tutorial` | | none | course examples | not modelled |
| experiment scripts, notebooks | `proj4/setup` | | drive `tc` and `iperf3` | not modelled |

**How the file copy works.** Any number of `ncp` processes send `net_pkt`
datagrams to one `rcv`; `rcv` answers with `ack_pkt` datagrams. There is no
handshake: the first datagram of a sender puts it into `rcv`'s queue, and if
nobody is being served, it opens the destination file. Every `ack_pkt` has three
uses: a cumulative ack (`cum_seq >= 0`), a nack (`is_nack`), and a blocking
message (`cum_seq < 0`). When nothing has arrived for 10 s, `rcv` drops a sender
whose end packet has arrived and calls the next one. An `ncp` ends when its end
packet has been acknowledged; `rcv` never ends.

**How the real-time stream works.** `rt_srv` caches the messages of `udp_stream`
and sends nothing by itself. When an `rt_rcv` hears nothing for a while, it sends
nacks for the next `W_SIZE` packets it lacks, and the server answers each nack of
a cached packet. The nack of seq 0 is the request of Phase I: the first answer of
any kind sets `delta`, the measured one-way delay, and afterwards every packet is
delivered when `senderTS + delta + LATENCY` has passed, or with the first later
packet whose time has come. What is missing by then is skipped. Acks let the
server shrink its cache. A second client is to be rejected.

**How the TCP benchmark works.** `t_ncp` sends its file as messages with a length
in front. `t_rcv` serves up to ten connections in one select loop with blocking
reads and writes everything to one file.

**How iperf3 works.** A server runs one test at a time in a `select` loop. A
client opens a control connection and sends a cookie; from then on the server
leads with single state bytes: `PARAM_EXCHANGE` (the client sends its parameters
as JSON), `CREATE_STREAMS` (it opens its data connections, each with the cookie),
`TEST_START`, `TEST_RUNNING`; the client says `TEST_END`; both send their results
as JSON, and the client says `IPERF_DONE`. Whoever connects meanwhile is told
`ACCESS_DENIED`. After a test, however it ended, the server closes everything,
resets its one `struct iperf_test` and listens again. During a test each side is
driven by timers: they end the omitted first seconds, collect the statistics of an
interval, report it, pace the sender, and end the test. UDP streams number their
datagrams, from which the receiver computes loss. Parameters and results are
built, printed and parsed by the bundled cJSON library.

**What is hard here.** Loss, duplication and reordering in both directions at
the same time; several senders whose datagrams interleave in one receive loop; a
10 s timeout that stands for "the sender knows that it is finished"; state that
different branches reset (`done`, `rcv_start`, `cum_seq`, `pd`); senders that
die; values read before they are written (`blocked`, `is_nack`, `senderTS`), a
time table keyed by time stamps that need not differ, byte streams cut anywhere, a
pointer into a buffer that is used again, and an iterator that may be `end()`. In
iperf3: two state machines that must never disagree although either side can
disappear at any point, clients that come while another one is being served,
blocking reads without a timeout, timer procedures that change the list of timers
that is being run, counters that several timers reset, fields left over from the
previous client, and a JSON library in which any allocation can fail. The
list with source lines is under `hazards` in `PROJECT.json`.

## 2. The modules

```
FileHelper  <- UdpNet <- Ncp --\
                      <- Rcv ---+- FileCopy <- MCFileCopy            (TLC)
                ReliableCopy <-/            <- FileCopyProofs        (TLAPS)
                (the abstract specification)
RtNet <- RtSrv --+- RtStream <- MCRtStream                           (TLC)
      <- RtRcv --/           <- RtProofs                             (TLAPS)
TcpNet <- TNcp --+- TcpCopy  <- MCTcpCopy                            (TLC)
       <- TRcv --/           <- TcpCopyProofs                        (TLAPS)
IperfNet <- IperfClient <- IperfServer <- IperfTest <- MCIperfTest   (TLC)
                              IperfService <-/      <- IperfServiceProofs,
                              (the abstract            IperfTestProofs (TLAPS)
                               specification)
IperfTime <- IperfStream <- IperfTraffic <- MCIperfTraffic           (TLC)
                                         <- IperfTrafficProofs       (TLAPS)
IperfParams <- MCIperfParams                                         (TLC)
            <- IperfParamsProofs                                     (TLAPS)
CJsonText <- CJson <- CJsonUse <- MCCJson                            (TLC)
CJsonList <-/
          <- CJsonListProofs                                         (TLAPS)
```

* `FileHelper`: packet `k` of a file is the interval of bytes that `fetch_next`
  reads into it (`src`, `off`, `len`), so misplaced, missing, repeated and
  foreign data can be told apart without looking at characters.
  `is_end` is computed as the code does, from the read position.
* `UdpNet`: two sets of datagrams. Any member may arrive next; an arrival may
  leave a duplicate behind; any member may be lost, which is also what
  `sendto_dbg` does on purpose. Since a channel is a set, sending a datagram that
  is already in flight changes nothing; receiving with duplication covers that
  case.
* `Ncp`: one instance per element of `Senders`. One action per pass of the select
  loop. The window is always a run of consecutive fetched packets, so it is a set
  of seqs. `umap` is the set of the seqs labelled `'u'`. `fill_win(s, cnt)` says
  that `fill_win` leaves `pkt_cnt` at `cnt`; it stops after the end packet
  because `ftell` on the closed file returns -1.
* `Rcv`: one action for each path through the receive branch (`RcvBlock`,
  `RcvOld`, `RcvSequential`, `RcvFuture`, `RcvFutureIgnored`), each including the
  queue handling before it and the closing of the file after it, and
  `RcvTimeout`. `window` only ever holds the address of `mess_buf`; it is
  modelled by its length, and `WindowSeq(i, m)`, the seq that `window[i]->seq`
  reads while datagram `m` is being handled, is `m.seq`.
* `FileCopy`: the composition, the fairness, the properties and the inductive
  invariants.
* `MCFileCopy`: the files and names of TLC's instances.
* `RtNet`: the two datagram formats, the clock, and two channels. A channel is
  the set of everything ever sent on it; receiving does not remove a datagram.
  This covers loss, delay, reordering and duplication without an action for any
  of them. One clock stands for the clocks of both hosts: `rt_rcv` only compares
  differences of the two clocks with `delta`, which is such a difference, so a
  constant offset cancels.
* `RtSrv`: one action per kind of client datagram, each with an optional message
  of the application behind it, because one pass of `select` can handle both and
  they share `data_pkt`; `SrvApp` is the pass with a message alone. `SrvHang` is
  the erase loop on an empty map.
* `RtRcv`: one action per path through the loop. `Deliver`, the end of every pass
  that does not `continue`, takes the time table and the window as the branch
  before it leaves them. `rt_window` is the set of the cached seqs, as the payload
  of packet `k` is message `k`. `AppReceives` is `udp_stream_rcv`.
* `RtStream`: the composition, fairness, properties and invariants.
* `TcpNet`: a byte stream per connection with a buffer of `SOCKBUF` bytes. A byte
  says whether it belongs to a length or which byte of which file it is, so any
  slip of the framing shows.
* `TNcp`, `TRcv`, `TcpCopy`: one action per `fread`, per call of `send` and
  `recv` (which may return less than asked for), per `select`.
* `IperfNet`: the control and data connections. A message on a control connection
  is a state byte, a cookie or a JSON document. Closing an end with unread data is
  a reset, after which the other end may lose what it has not read.
* `IperfClient`, `IperfServer`: one action per branch of the `select` loops and of
  the message handlers. A handler that blocks in a read in the middle of a pass
  has a program counter of its own (`"cookie"`, `"params"`, `"stream"`,
  `"results"`), during which the process does nothing else. The cleanup
  at every way out of a test is part of the action that leaves it, and so is
  `iperf_reset_test`. `MayFail` lists the faults of the environment that an
  instance allows.
* `IperfTest`: the composition. `IperfService` says what a server promises
  without connections and messages: one holder at a time, success only after an
  exchange of results, refusal only while somebody is served. `IsService` is the
  refinement: the holder is the client of the control connection, the outcome of a
  client is the class of its error code.
* `IperfTime`: times as seconds and microseconds with carry and borrow, and the
  list of timers of `timer.c` with its free list. A timer is its cell, so a
  pointer to a timer that has run out can name another timer later.
* `IperfStream`: what sending, receiving, throttling, resetting and reporting do to
  the record of a stream. `IperfTraffic`: a UDP test on both sides from the
  handshake to the reports. `tmr_run` is one step per timer, since its procedures
  change the list under the loop; a pass of a `select` loop is not interleaved
  with the other side.
* `IperfParams`: the struct `iperf_test` as a record of numbers, one table row per
  option that stores a number (`LoadCases`, `SocketCases`, `OtherCases`), cases of
  their own for the options that call setters, the checks behind the option loop,
  the JSON object as a partial function, and `iperf_reset_test` between clients.
  A behaviour starts servers and clients with any options, one after the other.
* `CJsonText`: string literals, byte for byte, with escapes and surrogate pairs.
  `CJsonList`: the assignments to `next`, `prev` and `child` by which an item joins
  or leaves a list, apart because they are not recursive and can be proved about.
  `CJson`: the heap operations; any allocation fails when the heap is full.
  Texts other than string literals are sequences of tokens. Numbers are integers on
  a small scale: `print_number` keeps `PRECISION` digits (the code: 15) if
  `compare_double` takes these for equal to the number, with `1 / INV_EPSILON` for
  `DBL_EPSILON`, and prints it exactly if not (the code: 17 digits, which determine
  a double); `parse_number` reads the digits that were printed. `CJsonUse`: a caller
  that makes any calls in any order and keeps the rules of the library (an item is
  in one list; what is referred to is not deleted before the reference).

A definition such as `Acked_oneMore` just before `Acked` is a faulty variant. It
is used by no specification; substituting it for the original makes a named
property fail, which shows that the property depends on that line of the code.

**Undefined behaviour** is a choice over what the build can do:
`blocked` starts with any value in `BlockedInit`; `is_nack` of a blocking or
calling message is either Boolean (`garbage`); dereferencing `end()` of the
window sends any packet fetched before, or nothing (`NcpNackMissing`): the slot
holds an old pointer, or no valid one and `sendto` fails. The vector cannot be
unallocated there, because nobody is answered before it has sent. In `rt_srv`,
`senderTS` and `seq` of a fresh `data_pkt` are zero: the block comes from `malloc`,
is too large for anything that was freed before, and is never freed itself, so its
memory comes from the kernel. `begin()->first` of an empty `std::map` reads its
size, zero, so the erase loop does not end. `iperf_tcp_accept` compares a cookie
in an uninitialized buffer if the peer has closed before sending one: it may be
the cookie that the last call has left there (`CookieRead`). Converting infinity
to `int` (`-i 0`) gives any value in `Infinities`. In `t_rcv`, a use of the closed `FILE`
can do anything; the model stops there with `tr_pc = "undefined"`.

**Time.** `rcv`'s timeout is a step that may happen whenever `select` could
return 0. `Timely` says whether the 10 s are longer than every silence that
another party could break: with `Timely = TRUE` the step needs `Quiet`, that is,
no datagram in flight to `rcv` or to a live `ncp`, and no `ncp` that is still
transmitting. That is the situation the program is written for (an unblocked
`ncp` transmits every 0.4 ms or 4 ms). With `Timely = FALSE` the timeout may come
at any moment, which stands for an outage of 10 s. In proj2 the clock is a
variable, bounded by `MaxClock`, and `select` of `rt_rcv` may time out at any
moment. Time before the start of the programs matters (a time stamp of zero lies
`Boot` ticks back), so `Boot` is the uptime of the host. In `IperfTraffic` the
clock is shared by the two sides, advances in steps of `TICK` microseconds while
somebody is in `select`, and stops at `MAX_CLOCK`; in `IperfTest` timeouts are
steps that may come at any moment.

## 3. The runs

| Run | Instance | Shows |
|---|---|---|
| `copy_one` | 1 sender, 4 packets, window 2, timely, fair, the sender may be killed | the safety properties of the copy, the refinement `CopiesReliably` and `EveryCopyEnds` |
| `queue_two` | 2 senders, 2 packets each, one may be killed | the queue and blocking properties |
| `bug_foreign` | 2 senders | `OpenFileIsPrefix` fails: foreign data in the file |
| `rt_one` | 1 client, 3 messages, window 3, clock at 2, fair | `NeededIsCached`, `EveryMessagePasses` |
| `rt_two` | 2 clients, 3 messages, window 1, clock 2..3 | `ServerNeverHangs` |
| `bug_order` | 1 client, 3 messages, clock 3..5, `LATENCY` 1 | `DeliveredInOrder` fails |
| `tcp_copy` | 2 `t_ncp`, 4 bytes and 1 byte in pieces of 2, fair, may be killed | `EachInOrder`, `ClosedMeansCopied`, `EveryTransferEnds` |
| `iperf_test` | 2 clients (one sends, one is bidirectional), all faults, fair | the protocol properties, the refinement `IsService`, `EveryClientEnds`, `ServesAgain` |
| `iperf_udp` | 1 stream, both directions, 2 datagrams, 2 s and 1 s omitted, intervals of half a second, ticks of 1 s, fair | timers, statistics, pacing, loss, `TestEnds` |
| `bug_cancelled` | the same with 2 s and coinciding timers | `CancelledNeverRuns` fails |
| `iperf_params` | about 35 options and values, 3 per command line, 4 in all | the properties of the parameters |
| `cjson` | 6 cells, 4 calls, 3 documents; the numbers 100, 101 (printed as 100 and equal to it), 105 (exact, saturates) and NaN | the properties of the JSON library |

The properties of the file copy:

* `StreamOpenWhileReceiving`: the stream is open from the first datagram of a
  transfer to its end packet and at no other time; no transfer starts with
  leftovers. As a consequence the test at `rcv.cpp:138` ("guard for re-open")
  never fires.
* `OpenFileIsPrefix`: the open file is, byte for byte, the beginning of the
  served sender's file, `cum_seq` packets long.
* `DiscardedIsWritten`: what a sender has dropped from its window is on disk.
* `ExitMeansCopied`: an `ncp` that has returned has copied the whole file.
* `CopiesReliably`: the copy implements `ReliableCopy`. Seen from outside there is a
  process (`ncp_pc`) and a file (`disk`): the file grows by the bytes that follow in
  the source, is left alone once it is whole, and the process returns only then.
  The abstract specification knows no packets, acks, queue or timeouts.
* `BlockedIsQueued`, `QueuedOnce`, `OnlyServedIsAcked`: the blocking protocol. The
  first is stated for at most two senders that start unblocked and a timely `rcv`
  (`PairOfSenders`): with three it is false, see below.
* `EveryCopyEnds`: every running `ncp` ends.

Of the real-time stream:

* `NeededIsCached`: every message that a client has neither received nor skipped
  is still in the server's cache.
* `ServerNeverHangs`: the loops at `rt_srv.cpp:137-140` have no test for the end
  of the map and need none: a new ack names a packet that is in both maps.
* `EveryMessagePasses`: no message that is cached blocks the stream for ever.
* `DeliveredInOrder`: what the exercise asks of the delivery. The code does not do
  it in all cases.

Of the TCP benchmark:

* `EachInOrder`: every length that is read is a possible one, what is written of
  each sender are the first bytes of its file, in order and each once, and no byte
  of a length is ever written.
* `ClosedMeansCopied`: after the connection of a `t_ncp` that ended normally is
  closed, all of its file has been written.
* `EveryTransferEnds`: every connection is closed in the end, unless `t_rcv` has
  used the output file after closing it.

Of iperf3's control protocol:

* `IperfTypeOK`: types, and no client opens more streams than its options ask for.
* `StreamsAreTheClients`: the streams of a test are its client's data connections
  in the order the client opened them, so the two sides number them alike. The one
  exception is a connection that was closed before its cookie was sent.
* `InStep`: nobody is ever sent a message that its state does not expect, whatever
  fails when; the `default` branches with `IEMESSAGE` are never reached.
* `RunningTogether`: a client that runs a test on a connection that the server has
  not closed is the one the server runs it with, with all its streams.
* `IsService`: the refinement of `IperfService`, also proved (section 4).
* `EveryClientEnds`, `ServesAgain`: no client waits for ever, and the server always
  gets back to waiting for a client unless it exits.

Of the UDP test:

* `PointersLive`: the list of timers stays sorted, and every pointer that the
  program keeps names an active timer of its purpose, or is `NULL`.
* `NoTimerLeft`: no timer of a test survives it on the server.
* `IntervalsAddUp`: the intervals that are reported, and the one in progress, add
  up to what is reported for the whole test, in whatever order the timers came;
  the reports of the two sides agree on the bytes received.
* `ReportsAreFresh`: whenever a report is due, the newest interval of every stream
  was ended in the same pass of `tmr_run`, and it is reported if it has bytes.
  When the timers run more than an interval late, `tmr_run` calls the statistics
  and the reporter timer several times in one pass; the later intervals have no
  length and no bytes, and `iperf_print_intermediate` leaves them out.
* `RateKept`: the sender is never more than one datagram ahead of its rate.
* `LossIsTrue`: the receiver's loss count is what it has really missed.
* `TestEnds`: the test ends on both sides, also when the handshake is lost or the
  client terminates. `CancelledNeverRuns`, which `bug_cancelled` refutes, is its
  only exception.

Of the parameters:

* `ParamsTypeOK`: types, and what client and server accept is within the limits: the
  upper ones of `iperf.h` on duration, streams, MSS, burst and socket buffer, the
  ranges of omit and TOS, and for the block size the lower and the upper limit of
  its protocol. For UDP the size may be open (0) until the control connection is
  there. The one exception is a negative UDP size, which the code lets through.
* `OrderDoesNotMatter`: swapping two neighbouring options never changes the
  outcome, unless both set the same field.
* `ModesMatch`: after the exchange, one side sends what the other receives, and
  each knows whether its sender counts retransmissions.
* `SameTest`: the server's parameters are the client's, but for those that are sent
  only when set and that no reset puts back, and for `--udp-counters-64bit`, which
  a server's own command line may set (`Sticky`).
* `AdmittedByOwnToken`: a server with authentication never runs a test on the
  credentials of an earlier client.

Of the JSON library:

* `ListsWellFormed`: the lists are intact after any calls, up to an append through
  a stale `prev`. The exception it names is the `prev` of a head whose list has lost
  its last item (`cut`): the code leaves it behind. What an append through such a
  pointer does is undefined (it writes into an item that is elsewhere or freed), so
  the model stops there, with `heap[NULL].type = "wild"`; the run gets there.
* `OwnedOnce`: nothing is leaked, freed twice or left dangling, whichever
  allocation fails (one leak of the code excepted, see below).
* `ReadsBack`: what is printed is parsed to the same value, or refused if too deep.
  A number may come back with digits lost, within the relative error that
  `compare_double` allows, and NaN as `null`; printing what was read gives the same
  text again, so nothing more is lost however often a value is sent on.
* `CompareIsEquality`, `CopiesAreEqual`: comparison against an independent
  definition of equality, in which numbers are equal up to the same relative error;
  copies stand for the same value and own all they hold.
* `StringsReadBack`: literals of all strings over an alphabet of nine bytes, and
  escapes at every border of the encodings, against a decoder written separately.

The three `bug_` runs are expected to be violated. Each is a disagreement between
the exercise text or a comment and the code; the quotations are under `findings`
in `PROJECT.json`. Their consequence for the passing runs: `OpenFileIsPrefix`
and the properties built on it are only true with one sender, so the runs and
theorems about the content of the file say "one sender"; and `TestEnds` holds
up to the use of a cancelled timer.

**Met while modelling, without a run.** These follow from the models by short
behaviours, and the code agrees:

* `rcv.cpp:202` stores a pointer into `mess_buf`, which the next datagram
  overwrites. The reorder buffer is therefore never dequeued, and every packet
  that came out of order is transmitted again (`WindowSeq`).
* `rcv.cpp:280`: a sender that is killed in mid-transfer stays at the head of the
  queue, and those behind it wait for ever (`Exercise1_ReliableTransport.txt:53`).
* `rcv.cpp:284`: after an outage of 10 s (`Timely = FALSE`) a finished file is
  opened again and truncated by a late retransmission.
* `ncp.cpp:57` leaves `blocked` uninitialized. With a non-zero byte there the
  process never sends and never ends; put `TRUE` into `BlockedInit` to see it.
* With three senders, the first datagram of the third can complete the transfer
  of a sender that has been called but has not heard of it. `rcv.cpp:284` then
  drops a sender that is still blocked: `BlockedIsQueued` is stated for two
  senders only.
* `rt_srv.cpp:152`: a message that is cached in a pass without a client datagram
  has the time stamp zero and is delivered at once, not `LATENCY` later.
* `rt_srv.cpp:112`: a second client whose rejection is lost is served.
* `rt_rcv.cpp:104`: if the reply to the request is lost, a data packet sets
  `delta`, with the time stamp of its caching, or zero.
* `rt_rcv.cpp:135`: packets with equal time stamps share an entry of the time
  table, and the earlier one waits until a later packet expires.
* `rt_rcv.cpp:136`: a second calibration reply is cached as packet 0 and delivered
  as an empty datagram, on which `udp_stream_rcv` exits.
* `t_rcv.cpp:139` closes the one output file with the first connection that ends,
  and at ten connections `t_rcv.cpp:97` stops reading while an eleventh waits. The
  exercise asks for a single sender only.
* `iperf_tcp.c:120`: the cookie of a data connection is compared in an
  uninitialized buffer (see undefined behaviour above).
* `iperf_server_api.c:259`: `server_timer_proc` closes the control socket but
  leaves it in the set for `select`, which then fails; the test ends by that error.
* A client that is refused before the server has read its cookie may get a reset
  instead of `ACCESS_DENIED`, since the connection is closed with the cookie unread.
* A data connection that a client made just before it died can be taken for the
  control connection of a new client; the server then waits for parameters until
  the end of the connection is noticed.
* `iperf_api.c:1902`: a client that is not authorized is sent `SERVER_ERROR`
  and then one integer, while `iperf_client_api.c:311` reads two.
* `iperf_api.c:2460`: `JSON_read` uses its length uninitialized at the end of the
  connection.
* `iperf_udp.c:555`: the handshake of a UDP stream is never repeated.
* `iperf_udp.c:221`: a datagram that a full buffer keeps from being sent uses up a
  number and is counted as lost by the receiver.
* The losses that a client reports may include omitted datagrams, as the two sides
  end the omitted time at different moments; and `iperf_reset_stats` does not
  reset `test->bytes_received`, although the comment at `iperf_api.c:2991` says that
  the counts are reset.
* `iperf.h:204`: `packet_count` is an `int`, with `--udp-counters-64bit` too.
* `iperf_api.c:1120`: the case of `--nstreams` runs on into that of `-b`, so the
  number of SCTP streams becomes the bit rate.
* `iperf_api.c:1553`: a negative `-l` is accepted for UDP, although `iperf.h:410` and
  the message at `iperf_error.c:167` have a minimum of 16 bytes.
* `iperf_api.c:1402`: `--udp-counters-64bit` does not set `client_flag`, so a server
  accepts it, although `iperf3.1` and `iperf_locale.c` list it as an option of the
  client. It holds for the server's first client, until the reset at line 2970.
* `iperf_api.c:2869`: `bytes`, `blocks`, `fqrate`, `pacing_timer`, `flowlabel`,
  `congestion`, `get_server_output` and `repeating_payload` of one client stay for the
  next one (`Sticky`). A server may so have two end conditions.
* `cjson.c:2193`, `:1963`: taking out or replacing the last of several items leaves
  the head's `prev` pointing to it, and the next append goes wrong. Take `p \in cut`
  out of `ListsWellFormed` to see it fail. iperf3 never does that.
* `cjson.c:576`: a number is printed with 15 digits if these are equal to it within
  `DBL_EPSILON`, so 4503599627370501 is read back as 4503599627370500; and
  `cJSON_Compare` (line 2991) takes the two for equal.
* `cjson.c:2082`: `cJSON_AddItemReferenceToObject` forgets the reference if copying
  the name fails; a member replaced when copying the name fails has no name.

**Bounds.** Four packets and a window of two make the window slide twice, fill it
when the end packet is fetched and when it is not, put packets two ahead of
`cum_seq` so that they are buffered and nacked, and end with a short packet (7
bytes in packets of 2). Seqs
need no bound: they are bounded by the file. The network holds sets, so
duplication needs no bound either. With two senders, two packets each are enough
for a blocked sender with a partly filled window. Passing runs explore their
instances completely. No symmetry is used, the instances are small enough.

In proj2, three messages and a window of three let the client hold a packet
beyond a gap when the next one arrives in order, ack up to the gap, and skip it at
a deadline; `Boot` > 0 tells the time stamp zero from the present. `rt_one` has no
ticks: with `Boot = 2` packets of time stamp zero still expire after a calibration
by the server's reply. In `rt_two` one tick separates packets that have expired
from those that have not (`LATENCY = 0`, and "more than" in the code). In
`tcp_copy` the buffer is shorter than two messages, so that sends block and cut
messages everywhere; one file ends with a full piece (empty last message), the
other with a short one.

In `iperf_test` two clients are enough for one to be refused, denied a stream, or to
take over after the other; the bidirectional one has two streams, so that another
connection can come between them. In `iperf_udp` two datagrams can be lost,
reordered, and separated by the end of the omitted time; three ticks of a second
contain every timer of the test, coinciding ones included, and the lateness of
either side. A tick is two intervals long, so that the statistics and reporter
timers are late by more than an interval and run repeatedly in a pass. In `iperf_params` three options per line reach every check that
relates two of them, with one of them the role; four in all allow two clients in a
row. In `cjson` six cells hold two small trees or one that is full, so that every
allocation of every operation fails in some state.

**Deadlock.** It is checked in the runs of proj1's UDP copy and of proj2: `rcv`
never ends, its timeout is always possible once everything is quiet, and `rt_rcv`
repeats its nacks. The exceptions: in `tcp_copy` `t_rcv` waits in `select` for ever
when all transfers are over, or has stopped at the use of the closed file; in the
iperf3 runs the clients end, and then the server waits, has exited, or has used a
cancelled timer; and `iperf_params` and `cjson` stop at their bounds.

**Fairness** (`FairSpec`). A process that is not blocked reaches its timeout
branch again and again, because each transmission is answered by finitely many
datagrams: weak fairness of `NcpTimeout`. A network that loses packets with a
probability below 1 delivers what is sent again and again: strong fairness of the
three kinds of arrival at `rcv` that answer (in order, old, blocked) and of the
three kinds of arrival at `ncp` that matter (progress, blocked, called). `rcv`'s
`select` returns if nothing arrives: weak fairness of `Switch`. Nothing is
assumed about launching or killing processes.

`RtFairSpec`: `select` of `rt_rcv` times out again and again (weak fairness),
since each batch of nacks is answered by finitely many packets; the request or
nack of the packet that the client needs next, which is repeated, reaches the
server one day, and so do the calibration and that packet reach the client (strong
fairness, as `cum_seq` may move on in between). Nothing is assumed about the
clock or the application. `TcpFairSpec`: the scheduler runs `t_rcv` and every
`t_ncp`, and TCP delivers (weak fairness). `FairSpec` of `IperfTest`: the server
and every client take a step when they can, which includes that messages arrive
and that a running test ends by its time or amount of data; nothing is assumed
about signals and timeouts, which are faults. `FairSpec` of `IperfTraffic`: weak
fairness of what the two programs and the clock do together.

## 4. The proofs

All proofs are for any set of senders, file sizes, packet size >= 1 and window
>= 1 (`PacketAssumption`), unless stated otherwise.

* `TypeCorrect`: `TypeOK`. Inductive as it stands, with `IsNetPkt` (datagrams
  are unaltered) and finiteness of the window.
* `StreamLifecycle`: inductive as it stands; the point is that the branch that
  skips the close, a future packet that seems to be buffered already, is only
  taken when the stream is closed or the transfer is going on.
* `FetchedOnce`: `FetchedInv`, that `fill_win` never goes past the end packet,
  which rests on `last_pkt` being set in the same pass as the end packet is
  fetched.
* `LonePrefix`, for `Senders = {a}` and with no assumption about time:
  `OpenFileIsPrefix`. The inductive invariant is `LoneInv`: `FetchedInv`,
  `StreamOpenWhileReceiving`, and `ServesOnly`, which says that the file is
  `Prefix(a, cum_seq)` and that `done` means that the last packet is the end
  packet. The reorder buffer never contributes, as the dequeuing loop never runs.
* `LoneDiscardedIsWritten`, `LoneExitMeansCopied`, `LoneCompleteStaysComplete` (no
  step damages a complete file), for `Senders = {a}` and `Timely = TRUE`. The invariant adds `TimelyInv`: acks in
  flight to a live sender are at most `cum_seq`, dropped packets are at most
  `cum_seq`, and after a switch the sender has ended and nothing of it is in
  flight. This last part fails without `Timely`.
* `LoneCopiesReliably` (`CopiesReliably`), under the same assumptions. The refinement
  mapping takes the state of the process and the destination file as they are. The
  actions of `ncp` other than launching, ending and being killed, the losses and the
  switch are stutters; so is the first datagram of a transfer until it is written, as
  the file is empty anyway. The one action that maps to `Grow` is the datagram that
  `rcv` writes in sequence: by `LonePrefix` the file is `cum_seq` packets long, so
  the packet written is the next one, which begins where the file ends (`NextPiece`,
  `InOrderGrows`). Every other datagram leaves the file at `cum_seq` packets
  (`LoneFile`), and that `ncp` returns only when it is whole is in `TimelyInv`.
* `ServedAcks` (for `Timely = TRUE`) and `NobodyQueuedTwice`, for any set of
  senders. The invariant is `QueueInv`.
* `WaitingIsQueued`: `BlockedIsQueued`, whose premise `PairOfSenders` is at most two
  senders, `Timely = TRUE` and `blocked` initially false. The invariant adds `WaitInv`: a live sender that is
  blocked, or will be by what is under way, is in the queue; at the head nobody is
  sent a blocking message; and if the head still waits for its call, then `done` is
  false, nothing is under way to `rcv` and the other sender has ended (`HeadInv`), so
  nobody can complete a transfer in its name. For three senders this last part
  fails.

`RtProofs`, for any clients, stream, `W_SIZE` >= 1, latency and clock:

* `RtTypeCorrect`: `RtTypeOK`, inductive with the lemmas on what each client
  action does to the window and `cum_seq` (`DeliverFacts`, `TimeoutFacts`,
  `CacheFacts`, `SequentialFacts`).
* `SrvNeverHangs`: `ServerNeverHangs` for any number of clients. It needs
  `KnownInv`: every packet that is acknowledged, on its way to a client or cached
  by one has been requested and is cached at the server, or is not beyond
  `srv_cum_seq`. It is kept because a packet is sent only in the branch that puts
  it into the time table, clients ack only what they have received, and an ack of
  `k` erases only what is below `k`.
* `LoneNeededIsCached`, for `Clients = {c}`: `NeededIsCached`, from `BehindInv`:
  acks are below the client's `cum_seq`, so `srv_cum_seq` is, and everything from
  `srv_cum_seq` on is cached. With two clients it is false, as the acks of one
  erase what the other needs.

`IperfServiceProofs`, for any clients, any number of streams per client, any
options and any subset of the faults (`NetAssumption`, `OptionsAssumption`,
`ServerAssumption`):

* `ImplementsService`: `IsService`. Each action of the server maps to `Admit`
  (`SvAccept`), `TurnAway` (`SvDeny`, `SvDenyStream`), `Exchange` (`SvResults`),
  `Release` (every return of `iperf_run_server`, and the signal) or a stutter; each
  action of a client to `Ends` or a stutter. `Ends` needs the invariant
  `ServiceInv`, because a client learns of the server's decision from a message that
  may long be under way: whoever has DISPLAY_RESULTS (ACCESS_DENIED) among the
  messages for it is in `served` (`refused`), and stays there (`ToldTruly`); an
  error code is there only at a client's end (`RunsWithoutErrno`). `TurnAway` and
  `Exchange` need that somebody is being served whenever the server is at the step
  that does them (`WorksForSomebody`): a handler may find `ctrl_sck` empty only in
  states in which it does not use it.

`IperfTestProofs`, under the same assumptions:

* `TypeCorrect` (`IperfTypeOK`), `StreamsAgree` (`StreamsAreTheClients`),
  `AlwaysInStep` (`InStep`) and `AlwaysTogether` (`RunningTogether`). None of the
  four is inductive: that the next message is expected depends on everything that
  is under way, on what the peer did before it sent it, and on what an earlier
  client has left behind. The invariant is `ProtocolInv`. `Conversation` says, for
  each step that the server can be at with a client, where the client can be and
  what is under way in both directions (`Alternates`); what a client can still find
  once the server has closed the connection, perhaps with a last word
  (`Remains`); and what the server can still find of a client that has ended
  (`Leaves`). `ServerPlace`, `ClientSockets`, `InPlace` and `NotMade` say
  which sockets a process holds at which place in its handler, and that a connection
  not made yet is used by nobody. `CookieKnown` and `DataCookie` say whose cookie a
  connection carries, and `Remembered` whose cookie the uninitialized buffer of
  `iperf_tcp_accept` can still hold. `ToldFirst` says that a client opens data
  connections only after it has been told to, and `Arriving` that the listener hands
  them out in the order in which they were opened.

`IperfParamsProofs`, for any options with any integers as arguments and any number of
options, servers and clients (`ParamsAssumption`: an option has the number of
arguments that it takes, and `TCP_MAXSEG` is at most the largest UDP payload):

* `ParamsTyped` (`ParamsTypeOK`), `AlwaysModesMatch` (`ModesMatch`),
  `AlwaysSameTest` (`SameTest`), `AlwaysOwnToken` (`AdmittedByOwnToken`). The
  invariant is `ParamsInv`. `Parsing` says of a command line that is being read that
  `mode` is the one that follows from role, `reverse` and `bidirectional`, in
  whichever order they were given (`ModeKept`), that the limits of the option loop
  hold, and that fields for clients are still untouched as long as `client_flag` is
  not set; `Asked`, what the checks behind the loop add; `Fresh`, that before the
  exchange the server has the default in every field that only clients set,
  however many it has served. This is why the exchange, which leaves out fields
  that are zero, gives both sides the same test.
* `AlwaysOrderFree` (`OrderDoesNotMatter`), for command lines of any length. `View` is
  what the options set (every field, the locals, role and protocol); `mode` and
  `sender_has_retransmits` follow from it once a command line is accepted (`ModeKept`,
  `ServerKnows`; `AlikeOutcome`). `OptionEffect` says of every case of the loop that
  it is refused for its own arguments (`bad`) or because of what a rival has left
  (`Clash`: `-s` and `-c`, `-R` and `--bidir`), and otherwise stores values and flags
  that depend on the option alone. Options outside `Overlap` store to different fields
  (`GroupsApart`), and rivals refuse each other in both orders (`ClashMade`), so two
  turns commute up to what no later case and no check can tell apart (`TurnsCommute`,
  `TurnAlike`). The rest of the line is an induction on the number of options read
  (`LineAlike`), done with the least counterexample (`Counting`). The invariant that
  the property needs of the state is `ArgvInv`: no option is given twice.

`TcpCopyProofs`, for any `t_ncp` processes, files, length of the length field, size of
a piece, size of the socket buffer and of `Recv_socks` (`TcpAssumption`: all but the
file sizes are at least 1), with any process killed at any time:

* `TcpFraming` (`EachInOrder`) and `TcpComplete` (`ClosedMeansCopied`). The stream of
  a sender is a function of its file: message `k` begins behind `Start(c, k)` bytes and
  carries `Room(c, k)` bytes of data, the last one fewer than `MSG`, possibly none.
  The invariant `TcpInv` says that, for some numbers `m` of messages made and `k` of
  messages written, the bytes of the stream up to `Start(c, m)` are, in this order,
  what has been written, `rbuf` if the connection is the one being read, `wire`,
  and the unsent rest of the message (`Composed`, `Sent`, `Written`, `Reading`,
  `Finished`). Cutting the stream anywhere moves a border between two of them
  (`SliceCut`, `SliceJoin`). That a byte at a border is a length and not data
  follows from positions alone: the messages do not overlap (`StartOrder`,
  `OnePlace`). `ConnectsOnce` is needed because the stream is the sender's and
  `rbuf` the receiver's. No induction over sequences is used; the smallest index
  that `select` finds ready exists because the naturals are well-founded
  (`LeastElement`).

`IperfTrafficProofs`, for any number of streams, any sizes, rates, timers and clock
(`TrafficAssumption`):

* `StreamsStayTyped` (`TrafficTyped`), the types on which the rest stands. Every
  action is first shown to be one of six kinds of step on the streams (`SameStep`,
  `StatsStep`, `OmitStep`, `SendStep`, `ReceiveStep`, `ResultStep`); what depends
  only on the streams then needs one case per kind. It rests on the arithmetic of
  `IperfTime`: adding, comparing and subtracting seconds and microseconds agrees
  with arithmetic on microseconds (`AddType`, `CompareTimes`, `DiffTimes`).
* `AlwaysLossIsTrue` (`LossIsTrue`), as long as no stream has more than `INT_MAX`
  datagrams: `packet_count` is an `int`, and beyond that the code is undefined. The
  invariant is `LossInv`: `packet_count` of the receiver is the highest number that
  was counted, `cnt_error` is that number less the number of datagrams counted, and
  nothing is in flight that was counted or that the sender has not numbered. It is
  kept because a late datagram takes back the loss that the gap has added, and no
  datagram is delivered twice.
* `TimersStayLinked` (`TimersInv`), from which `AlwaysPointersLive` (`PointersLive`)
  and `AlwaysNoTimerLeft` (`NoTimerLeft`) follow. That every pointer names an active
  timer is not inductive: a cancelled timer must not be the one that another pointer
  names, and the cancellations at the end reach every timer only if every timer has a
  pointer. So `Linked(L, K)` says that the active timers of the list `L` and the
  pointers `K` that are not `NULL` correspond one to one, by slot (the timer's
  callback, and its stream for the pacing timers), that exactly the test and the omit
  timer are not periodic, and that the list is `Good`: sorted, no cell twice, none both
  active and free. `tmr_create`, `tmr_reset`, `tmr_cancel` and what `tmr_run` does after
  a callback are lemmas about `Good` lists (`ListAdd`, `ListRemove`, `MoveTimer`,
  `CancelTimer`); creating the pacing timers and cancelling a list of pointers are
  inductions over the number of them (`StartSendTimers`, `CancelLinked`). The one
  thing taken from the course of the test is that a side that has not started has no
  timer. `CancelledNeverRuns`, which run `bug_cancelled` refutes, is about the cursor
  of `tmr_run`, not about these pointers.
* `AlwaysIntervalsAddUp` (`IntervalsAddUp`). The sum over the intervals is a recursive
  function; `IntervalAppend` says what one more interval adds, `IntervalSame` that
  nothing else changes it. The sum alone is not inductive: during the omitted time
  the bytes before it are in omitted intervals, and only the reset makes the two sides
  equal. So `IntervalInv` says of a side that has not begun that it has no intervals,
  while it omits that every interval is omitted and the sum is 0, and afterwards that the
  sums agree. It needs `TimersInv`: the omit timer fires only while the side omits,
  so no reset comes after an interval that counts. For the reports, `ReportInv` says
  that the server's report is of its streams as they stay while it waits for the
  results, and that a client that has reported has ended.
* `AlwaysRateKept` (`RateKept`), if there is a rate (0 means no limit). A stream is at
  most one datagram ahead of its rate, and not ahead at all when its light is green
  (`RateInv`): it sends one datagram with a green light, and `iperf_check_throttle`
  sets the light right after it. But `iperf_check_throttle` returns at once when the
  test is done, so the proof needs that a client that is done does not send. It ends
  the test in the pass in which it is done, unless it is still omitting; and when
  the test timer runs, the omit timer has run before it. That is `PaceInv`: while
  the omit timer is pending it is due before the test timer (`Timely`), so it stands
  before it in the list, and the cursor of `tmr_run` has not passed it (`Ahead`).
* `AlwaysReportsFresh` (`ReportsAreFresh`), if the statistics and the reporter timer
  have the same interval and it is not 0. The command line gives no other: `-i` sets
  both (`iperf_api.c:1067`), the default is one second for both, and with 0 there are
  no such timers. Nothing in the code ties the two timers together; that the report
  follows the statistics is a matter of where they stand in the list. `Rhythm` says it
  in two phases. Either both are due at the same time with the statistics timer before
  the reporter timer, and a `tmr_run` under way has not passed the statistics timer
  or does not reach it; or the statistics timer has been called in this pass, is due an
  interval later, and the cursor has not passed the reporter timer, which is due, so
  that the loop cannot end between the two (`RhythmEnds`). `StartTimers` gives the first
  phase, since `tmr_create` puts a timer behind those that are not due later; `RhythmStats`
  and `RhythmReporter` change the phase; `RhythmOmit` shows that the omit timer, which
  restarts both, gives the first phase again. With two different intervals it is
  false: a reporter timer that is due alone prints an old interval.

`CJsonListProofs`, for a heap and lists of any size. `Forest(h, F)` says that the heap
`h` has below every item `p` the list `F[p]`: no item twice or in two lists, every
`prev` undoes a `next`, the last `next` is `NULL`, and the head's `prev` is the last
item or `NULL`. It is the first part of `ListsWellFormed` with the lists named instead
of followed recursively.

* `AppendKeeps`, `InsertKeeps`, `DetachKeeps`, `ReplaceKeeps`: from a forest and an item
  that is in no list, the assignments of the four operations lead to a forest in which
  the one list has the item behind its last one, has it at the place, is without the
  item, or has the other in its place, and all other lists are as before. A detached
  item is free again, with `next` `NULL`, which appending it elsewhere relies on: only an
  item that starts a list gets its `next` set (`cjson.c:1971`). Detaching and replacing
  have the precondition that the code needs and does not check: not the last of
  several, unless the head's `prev` is `NULL`. The argument is the same for all four: a
  lemma says for every cell what the assignments do to its fields (`LinkFirst`,
  `LinkNext`, `InsertFirst`, ... one for the head and one for a later place), `ListOf`
  that the places make a list, and `Others` that a change inside one list leaves the
  rest alone. Where the walk along `next` ends (`LastFrom`, recursive) is a hypothesis
  of `AppendKeeps`.

Only model-checked: `EveryCopyEnds`, `EveryMessagePasses`, `EveryTransferEnds`,
`EveryClientEnds`, `ServesAgain`, `TestEnds` (liveness under fairness is outside the
prover's reach), and of the JSON library all that follows a list or a tree to its end:
its operators are recursive and outside the prover's reach too. That covers the six
properties of run `cjson`; the theorems above are about the steps they are made of.

## 5. Not modelled

* The statistics. `ncp` adds the `data_size` of one ack for every packet it
  dequeues, and the ack of an old packet carries an uninitialized `data_size`, so
  the reported size is unreliable; a model of it needs `data_size` in `ack_pkt`.
* Malformed or foreign datagrams, failing system calls, a source file that
  changes, two senders with one address, a destination directory without room.
* `pid` of `net_pkt`, which nobody reads, and `sender_info.h`, which nobody uses.
* Of iperf3: SCTP (`iperf_sctp.c` repeats the TCP functions with other socket
  options), the cryptography of `iperf_auth.c`, sending and receiving over TCP
  (byte counts and what the kernel reports), jitter and CPU utilisation (floating
  point), options for output, addresses and files, formatting of reports, units,
  locale and error texts, the wrappers in `iperf_util.c`, and its test programs.
  Of cJSON: raw items, references made with `cJSON_CreateArrayReference` and the
  like, exponents, fractions and infinities in numbers, and the configurable
  allocators.
* The parts marked so in section 1.

## 6. Plan

1. Theorems about two or more clients of `rt_srv`: which part of
   `NeededIsCached` remains.
2. Statistics: `data_size` in `ack_pkt` and the size `ncp` reports; the counters
   of `rt_srv` and `rt_rcv`.
