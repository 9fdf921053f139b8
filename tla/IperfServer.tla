------------------------------- MODULE IperfServer -------------------------------
(***************************************************************************)
(* iperf_server_api.c and the server's loop in main.c: iperf_run_server is *)
(* one select loop; a handler that blocks in the middle of an Nread has a  *)
(* program counter of its own. While it blocks, the server does nothing    *)
(* else, and none of these reads has a timeout.                            *)
(*                                                                         *)
(* Op_word stands before Op and is a faulty variant of it.                 *)
(***************************************************************************)
EXTENDS IperfClient

CONSTANTS
  reopen,   \* the clients whose options make iperf_tcp_listen open a new listener
  one_off,  \* -1
  MayFail   \* faults of the environment that the instance allows

Faults == {"listen", "auth", "rate", "idle", "rcv_timeout", "grace", "signal"}

ASSUME ServerAssumption ==
  /\ reopen \subseteq Clients /\ one_off \in BOOLEAN /\ MayFail \subseteq Faults

VARIABLES
  sv_pc,      \* "down", "select", "cookie", "params", "stream", "results", "exited"
  sv_state,   \* test->state
  sv_ctrl,    \* the connection in test->ctrl_sck
  sv_cookie,  \* whose cookie is in test->cookie, NoConn if nobody's
  sv_stack,   \* whose cookie iperf_tcp_accept has left on the stack
  sv_peer,    \* the connection that iperf_tcp_accept is looking at
  sv_streams, \* test->streams, as the connections behind them
  sv_timer,   \* test->timer is set
  sv_done,    \* test->done
  sv_open,    \* the descriptor in ctrl_sck has not been closed by the timer
  refused,    \* history: the clients that were told ACCESS_DENIED
  served      \* history: the clients whose results were exchanged

svVars == <<sv_pc, sv_state, sv_ctrl, sv_cookie, sv_stack, sv_peer, sv_streams,
            sv_timer, sv_done, sv_open, refused, served>>

SvInit ==
  /\ sv_pc = "down" /\ sv_state = "0"
  /\ sv_ctrl = NoConn /\ sv_cookie = NoConn /\ sv_stack = NoConn /\ sv_peer = NoConn
  /\ sv_streams = <<>>
  /\ sv_timer = FALSE /\ sv_done = FALSE /\ sv_open = TRUE
  /\ refused = {} /\ served = {}

SvTypeOK ==
  /\ sv_pc \in {"down", "select", "cookie", "params", "stream", "results", "exited"}
  /\ sv_state \in States
  /\ sv_ctrl \in Conns \cup {NoConn} /\ sv_peer \in Conns \cup {NoConn}
  /\ sv_cookie \in Clients \cup {NoConn} /\ sv_stack \in Clients \cup {NoConn}
  /\ sv_streams \in Seq(Conns)
  /\ {sv_timer, sv_done, sv_open} \subseteq BOOLEAN
  /\ refused \subseteq Clients /\ served \subseteq Clients

Streams == {sv_streams[i] : i \in DOMAIN sv_streams}

(* test->mode and test->num_streams after get_parameters: the server is     *)
(* the other side of what the client is.                                    *)
client == sv_ctrl[1]

sv_mode ==
  CASE sv_ctrl = NoConn -> "RECEIVER"
    [] mode[client] = "SENDER" -> "RECEIVER"
    [] mode[client] = "RECEIVER" -> "SENDER"
    [] mode[client] = "BIDIRECTIONAL" -> "BIDIRECTIONAL"

(* cleanup_server and the end of iperf_run_server with code rc, then        *)
(* iperf_reset_test and the test for one_off in run().                      *)
SvReset ==
  /\ sv_state' = "0" /\ sv_ctrl' = NoConn /\ sv_cookie' = NoConn /\ sv_peer' = NoConn
  /\ sv_streams' = <<>> /\ sv_timer' = FALSE /\ sv_done' = FALSE /\ sv_open' = TRUE

Cleanup_leak ==
  /\ listening' = FALSE /\ backlog' = <<>>
  /\ SvClose(Streams \cup {backlog[i] : i \in DOMAIN backlog})
Cleanup ==
  /\ listening' = FALSE /\ backlog' = <<>>
  /\ SvClose(Streams \cup ({sv_ctrl, sv_peer} \ {NoConn}) \cup {backlog[i] : i \in DOMAIN backlog})

Return(rc) ==
  /\ Cleanup /\ SvReset
  /\ sv_pc' = IF one_off /\ rc # 2 THEN "exited" ELSE "down"
  /\ UNCHANGED <<cl_end, refused, served>>

(* IEAUTHTEST does not count for one_off.                                   *)
ReturnUnauthorized ==
  /\ Cleanup /\ SvReset /\ sv_pc' = "down"
  /\ UNCHANGED <<cl_end, refused, served>>

(* A return in a step that reads and writes nothing.                        *)
Quit(rc) == UNCHANGED <<up, down, sv_stack>> /\ Return(rc)

(* iperf_server_listen. A failure is the end of the process.                *)
SvListen ==
  /\ sv_pc = "down"
  /\ \/ /\ listening' = TRUE /\ sv_pc' = "select" /\ sv_state' = "IPERF_START"
     \/ /\ "listen" \in MayFail
        /\ sv_pc' = "exited" /\ UNCHANGED <<listening, sv_state>>
  /\ UNCHANGED <<sv_ctrl, sv_cookie, sv_stack, sv_peer, sv_streams, sv_timer, sv_done,
                 sv_open, refused, served, backlog, up, down, cl_end, sv_end>>

Selecting == sv_pc = "select" /\ sv_open

(* What Nwrite to the control connection can do.                            *)
SvWrite(m) ==
  /\ TRUE \in NwriteOK(cl_end[sv_ctrl])
  /\ down' = [down EXCEPT ![sv_ctrl] = @ \o m]

SvWriteFails == FALSE \in NwriteOK(cl_end[sv_ctrl]) /\ UNCHANGED down

(* The listener is readable and no test has begun: iperf_accept takes the   *)
(* connection and waits for the cookie.                                     *)
SvAccept_busy ==
  /\ Selecting /\ backlog # <<>> /\ sv_state # "CREATE_STREAMS"
  /\ sv_ctrl' = Head(backlog) /\ backlog' = Tail(backlog)
  /\ sv_pc' = "cookie"
  /\ UNCHANGED <<sv_state, sv_cookie, sv_stack, sv_peer, sv_streams, sv_timer, sv_done,
                 sv_open, refused, served, listening, up, down, cl_end, sv_end>>
SvAccept ==
  /\ Selecting /\ backlog # <<>> /\ sv_state # "CREATE_STREAMS" /\ sv_ctrl = NoConn
  /\ sv_ctrl' = Head(backlog) /\ backlog' = Tail(backlog)
  /\ sv_pc' = "cookie"
  /\ UNCHANGED <<sv_state, sv_cookie, sv_stack, sv_peer, sv_streams, sv_timer, sv_done,
                 sv_open, refused, served, listening, up, down, cl_end, sv_end>>

(* The cookie, or a part of one from a client that is gone, and             *)
(* PARAM_EXCHANGE; then get_parameters blocks.                              *)
SvCookie ==
  /\ sv_pc = "cookie"
  /\ NreadReturns(up[sv_ctrl], cl_end[sv_ctrl], "cookie")
  /\ up' = [up EXCEPT ![sv_ctrl] = IF @ = <<>> THEN @ ELSE Tail(@)]
  /\ UNCHANGED sv_stack
  /\ \/ /\ SvWrite(<<"PARAM_EXCHANGE">>)
        /\ sv_cookie' = IF NreadGot(up[sv_ctrl], "cookie") THEN client ELSE NoConn
        /\ sv_state' = "PARAM_EXCHANGE" /\ sv_pc' = "params"
        /\ UNCHANGED <<sv_ctrl, sv_peer, sv_streams, sv_timer, sv_done, sv_open,
                       refused, served, listening, backlog, cl_end, sv_end>>
     \/ SvWriteFails /\ Return(1)

(* The listener is closed and opened again: whoever waits is reset.         *)
ReopenListener ==
  /\ backlog' = <<>>
  /\ SvClose({backlog[i] : i \in DOMAIN backlog})

(* get_parameters, test_is_authorized, and iperf_tcp_listen with its        *)
(* failure; then CREATE_STREAMS.                                            *)
SvParams ==
  /\ sv_pc = "params"
  /\ NreadReturns(up[sv_ctrl], cl_end[sv_ctrl], "params")
  /\ up' = [up EXCEPT ![sv_ctrl] = IF @ = <<>> THEN @ ELSE Tail(@)]
  /\ UNCHANGED sv_stack
  /\ \/ /\ NreadGot(up[sv_ctrl], "params")
        /\ SvWrite(<<"CREATE_STREAMS">>)
        /\ sv_state' = "CREATE_STREAMS" /\ sv_pc' = "select"
        /\ IF client \in reopen THEN ReopenListener ELSE UNCHANGED <<backlog, sv_end>>
        /\ UNCHANGED <<sv_ctrl, sv_cookie, sv_peer, sv_streams, sv_timer, sv_done,
                       sv_open, refused, served, listening, cl_end>>
     \/ /\ NreadGot(up[sv_ctrl], "params")
        /\ "auth" \in MayFail /\ SvWrite(<<"SERVER_ERROR">>) /\ ReturnUnauthorized
     \/ /\ NreadGot(up[sv_ctrl], "params")
        /\ "listen" \in MayFail /\ SvWrite(<<"SERVER_ERROR">>) /\ Return(1)
     \/ /\ NreadGot(up[sv_ctrl], "params")
        /\ SvWriteFails /\ Return(1)
     \/ /\ ~NreadGot(up[sv_ctrl], "params")
        /\ UNCHANGED down /\ Return(1)

(* The listener is readable during a test: ACCESS_DENIED, and the socket is *)
(* closed without reading from it.                                          *)
SvDeny ==
  /\ Selecting /\ backlog # <<>> /\ sv_state # "CREATE_STREAMS" /\ sv_ctrl # NoConn
  /\ backlog' = Tail(backlog) /\ UNCHANGED up
  /\ down' = [down EXCEPT ![Head(backlog)] = Append(@, "ACCESS_DENIED")]
  /\ SvClose({Head(backlog)})
  /\ refused' = refused \cup {Head(backlog)[1]}
  /\ UNCHANGED <<sv_pc, sv_state, sv_ctrl, sv_cookie, sv_stack, sv_peer, sv_streams,
                 sv_timer, sv_done, sv_open, served, listening, cl_end>>

(* CREATE_STREAMS and the listener is readable: iperf_tcp_accept takes the  *)
(* connection, whoever it is from, and waits for its cookie.                *)
SvAcceptStream ==
  /\ Selecting /\ backlog # <<>> /\ sv_state = "CREATE_STREAMS"
  /\ sv_peer' = Head(backlog) /\ backlog' = Tail(backlog)
  /\ sv_pc' = "stream"
  /\ UNCHANGED <<sv_state, sv_ctrl, sv_cookie, sv_stack, sv_streams, sv_timer, sv_done,
                 sv_open, refused, served, listening, up, down, cl_end, sv_end>>

(* The cookies that the buffer of iperf_tcp_accept may hold after Nread.    *)
(* It is not initialized: if nothing was read, what an earlier call left    *)
(* there may still be in it.                                                *)
CookieRead ==
  IF NreadGot(up[sv_peer], "cookie") THEN {sv_peer[1]} ELSE {NoConn, sv_stack}

SvTake(k) == up' = [up EXCEPT ![sv_peer] = IF @ = <<>> THEN @ ELSE Tail(@)] /\ sv_stack' = k

(* The cookie is not that of the test.                                      *)
SvDenyStream ==
  /\ sv_pc = "stream"
  /\ NreadReturns(up[sv_peer], cl_end[sv_peer], "cookie")
  /\ \E k \in CookieRead : k # sv_cookie /\ SvTake(k)
  /\ down' = [down EXCEPT ![sv_peer] = Append(@, "ACCESS_DENIED")]
  /\ SvClose({sv_peer})
  /\ refused' = refused \cup {sv_peer[1]}
  /\ sv_peer' = NoConn /\ sv_pc' = "select"
  /\ UNCHANGED <<sv_state, sv_ctrl, sv_cookie, sv_streams, sv_timer, sv_done, sv_open,
                 served, listening, backlog, cl_end>>

(* The cookie is that of the test, and streams are still to come.           *)
SvAddStream_any ==
  /\ sv_pc = "stream" /\ Len(sv_streams) + 1 < Wanted(client)
  /\ NreadReturns(up[sv_peer], cl_end[sv_peer], "cookie")
  /\ \E k \in CookieRead : SvTake(k)
  /\ sv_streams' = Append(sv_streams, sv_peer)
  /\ sv_peer' = NoConn /\ sv_pc' = "select"
  /\ UNCHANGED <<sv_state, sv_ctrl, sv_cookie, sv_timer, sv_done, sv_open,
                 refused, served, listening, backlog, down, cl_end, sv_end>>
SvAddStream ==
  /\ sv_pc = "stream" /\ Len(sv_streams) + 1 < Wanted(client)
  /\ NreadReturns(up[sv_peer], cl_end[sv_peer], "cookie")
  /\ \E k \in CookieRead : k = sv_cookie /\ SvTake(k)
  /\ sv_streams' = Append(sv_streams, sv_peer)
  /\ sv_peer' = NoConn /\ sv_pc' = "select"
  /\ UNCHANGED <<sv_state, sv_ctrl, sv_cookie, sv_timer, sv_done, sv_open,
                 refused, served, listening, backlog, down, cl_end, sv_end>>

(* The last stream: the listener is opened again if the options ask for it, *)
(* then TEST_START, the timers, TEST_RUNNING. The requested rate may be     *)
(* above the limit.                                                         *)
SvStart ==
  /\ sv_pc = "stream" /\ Len(sv_streams) + 1 = Wanted(client)
  /\ NreadReturns(up[sv_peer], cl_end[sv_peer], "cookie")
  /\ \E k \in CookieRead : k = sv_cookie /\ SvTake(k)
  /\ \/ /\ SvWrite(<<"TEST_START", "TEST_RUNNING">>)
        /\ sv_streams' = Append(sv_streams, sv_peer)
        /\ sv_state' = "TEST_RUNNING" /\ sv_timer' = TRUE /\ sv_done' = FALSE
        /\ sv_peer' = NoConn /\ sv_pc' = "select"
        /\ IF client \in reopen THEN ReopenListener ELSE UNCHANGED <<backlog, sv_end>>
        /\ UNCHANGED <<sv_ctrl, sv_cookie, sv_open, refused, served, listening, cl_end>>
     \/ SvWriteFails /\ Return(1)
     \/ "rate" \in MayFail /\ UNCHANGED down /\ Return(1)

(* The control connection is readable: iperf_handle_message_server.         *)
SvReads(m) ==
  /\ Selecting /\ sv_ctrl # NoConn
  /\ NreadGot(up[sv_ctrl], m)
  /\ up' = [up EXCEPT ![sv_ctrl] = Tail(@)]

(* TEST_END: the streams are closed, EXCHANGE_RESULTS, and get_results      *)
(* blocks.                                                                  *)
SvTestEnd ==
  /\ SvReads("TEST_END") /\ UNCHANGED sv_stack
  /\ \/ /\ SvWrite(<<"EXCHANGE_RESULTS">>)
        /\ SvClose(Streams)
        /\ sv_done' = TRUE /\ sv_state' = "EXCHANGE_RESULTS" /\ sv_pc' = "results"
        /\ UNCHANGED <<sv_ctrl, sv_cookie, sv_peer, sv_streams, sv_timer, sv_open,
                       refused, served, listening, backlog, cl_end>>
     \/ SvWriteFails /\ Return(1)

(* The client's results, then the server's and DISPLAY_RESULTS.             *)
SvResults ==
  /\ sv_pc = "results"
  /\ NreadReturns(up[sv_ctrl], cl_end[sv_ctrl], "results")
  /\ up' = [up EXCEPT ![sv_ctrl] = IF @ = <<>> THEN @ ELSE Tail(@)]
  /\ UNCHANGED sv_stack
  /\ \/ /\ NreadGot(up[sv_ctrl], "results")
        /\ SvWrite(<<"results", "DISPLAY_RESULTS">>)
        /\ served' = served \cup {client}
        /\ sv_state' = "DISPLAY_RESULTS" /\ sv_pc' = "select"
        /\ UNCHANGED <<sv_ctrl, sv_cookie, sv_peer, sv_streams, sv_timer, sv_done, sv_open,
                       refused, listening, backlog, cl_end, sv_end>>
     \/ /\ NreadGot(up[sv_ctrl], "results")
        /\ SvWriteFails /\ Return(1)
     \/ /\ ~NreadGot(up[sv_ctrl], "results")
        /\ UNCHANGED down /\ Return(1)

(* Every other message ends the run of the server: IPERF_DONE and           *)
(* CLIENT_TERMINATE as they should, one that the switch does not know with  *)
(* IEMESSAGE. (TEST_START would be ignored, but no client sends it.)        *)
SvDone ==
  /\ \E m \in Messages \ {"TEST_START", "TEST_END"} :
       /\ SvReads(m)
       /\ Return(IF m \in {"IPERF_DONE", "CLIENT_TERMINATE"} THEN 0 ELSE 1)
  /\ UNCHANGED <<down, sv_stack>>

(* So does the end of the control connection.                               *)
SvCtrlClosed_eof ==
  Selecting /\ sv_ctrl # NoConn /\ cl_end[sv_ctrl] = "rst" /\ Quit(1)
SvCtrlClosed ==
  /\ Selecting /\ sv_ctrl # NoConn
  /\ \/ cl_end[sv_ctrl] = "fin" /\ up[sv_ctrl] = <<>> /\ Quit(0)
     \/ cl_end[sv_ctrl] = "rst" /\ Quit(1)

(* server_timer_proc: the streams are freed and the control connection is   *)
(* closed, but its descriptor stays in the set that select looks at.        *)
SvTimer ==
  /\ Selecting /\ sv_timer /\ "grace" \in MayFail
  /\ sv_timer' = FALSE /\ UNCHANGED up
  /\ IF sv_done
     THEN UNCHANGED <<sv_done, sv_streams, sv_open, sv_end>>
     ELSE /\ sv_done' = TRUE /\ sv_streams' = <<>> /\ sv_open' = FALSE
          /\ SvClose(Streams \cup {sv_ctrl})
  /\ UNCHANGED <<sv_pc, sv_state, sv_ctrl, sv_cookie, sv_stack, sv_peer, refused, served,
                 listening, backlog, down, cl_end>>

(* select fails on the closed descriptor.                                   *)
SvSelectFails == sv_pc = "select" /\ ~sv_open /\ Quit(1)

NothingReadable ==
  /\ backlog = <<>>
  /\ sv_ctrl # NoConn => up[sv_ctrl] = <<>> /\ cl_end[sv_ctrl] = "open"

(* select has timed out in the idle state, and the server starts over.      *)
SvIdleTimeout ==
  /\ Selecting /\ NothingReadable /\ sv_state = "IPERF_START" /\ "idle" \in MayFail
  /\ Quit(2)

(* Nothing has come for rcv_timeout during a test in which the server       *)
(* receives.                                                                *)
SvRcvTimeout ==
  /\ Selecting /\ NothingReadable /\ sv_state # "IPERF_START" /\ sv_mode # "SENDER"
  /\ "rcv_timeout" \in MayFail
  /\ Quit(1)

(* iperf_send or iperf_recv meets a data connection that the client has     *)
(* closed. To a receiver the end of the connection is no error, a reset is. *)
SvStreamError ==
  /\ Selecting /\ sv_state = "TEST_RUNNING"
  /\ \E n \in Streams :
       cl_end[n] \in (IF sv_mode = "RECEIVER" THEN {"rst"} ELSE {"fin", "rst"})
  /\ Quit(1)

(* iperf_check_total_rate has found too much traffic.                       *)
SvRateExceeded ==
  /\ Selecting /\ sv_state = "TEST_RUNNING" /\ "rate" \in MayFail
  /\ Quit(1)

(* iperf_got_sigend.                                                        *)
SvSignal ==
  /\ sv_pc # "exited" /\ "signal" \in MayFail
  /\ UNCHANGED <<up, sv_stack>>
  /\ \/ sv_ctrl # NoConn /\ sv_open /\ SvWrite(<<"SERVER_TERMINATE">>)
     \/ UNCHANGED down
  /\ Cleanup /\ SvReset /\ sv_pc' = "exited"
  /\ UNCHANGED <<cl_end, refused, served>>
===============================================================================
