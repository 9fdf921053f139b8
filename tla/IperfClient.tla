------------------------------- MODULE IperfClient -------------------------------
(***************************************************************************)
(* iperf_client_api.c: one iperf3 -c process, its control connection and   *)
(* its data connections. iperf_run_client is one select loop; a handler    *)
(* that blocks in the middle (connect, get_results) has a program counter  *)
(* of its own.                                                             *)
(*                                                                         *)
(* Op_word stands before Op and is a faulty variant of it.                 *)
(***************************************************************************)
EXTENDS IperfNet, FiniteSets

CONSTANTS
  mode,        \* test->mode: "SENDER", "RECEIVER" or "BIDIRECTIONAL"
  num_streams, \* -P
  omit,        \* -O was given
  Mortal       \* the clients that a signal may end

ASSUME OptionsAssumption ==
  /\ mode \in [Clients -> {"SENDER", "RECEIVER", "BIDIRECTIONAL"}]
  /\ num_streams \in [Clients -> 1 .. MAX_STREAMS]
  /\ omit \in [Clients -> BOOLEAN]
  /\ Mortal \subseteq Clients
  /\ \A c \in Clients :
       mode[c] = "BIDIRECTIONAL" => 2 * num_streams[c] <= MAX_STREAMS

VARIABLES
  cl_pc,       \* "start", "cookie", "select", "dial", "results", "end"
  cl_state,    \* test->state
  cl_dialed,   \* data connections made so far
  cl_omitting, \* test->omitting
  cl_errno     \* i_errno of a process that has ended, "OK" without an error

clVars == <<cl_pc, cl_state, cl_dialed, cl_omitting, cl_errno>>

ClInit ==
  /\ cl_pc = [c \in Clients |-> "start"]
  /\ cl_state = [c \in Clients |-> "0"]
  /\ cl_dialed = [c \in Clients |-> 0]
  /\ cl_omitting = [c \in Clients |-> FALSE]
  /\ cl_errno = [c \in Clients |-> ""]

States == Messages \cup {"0", "IPERF_START"}

ClTypeOK ==
  /\ cl_pc \in [Clients -> {"start", "cookie", "select", "dial", "results", "end"}]
  /\ cl_state \in [Clients -> States]
  /\ cl_dialed \in [Clients -> 0 .. MAX_STREAMS]
  /\ cl_omitting \in [Clients -> BOOLEAN]

(* The sockets of client c.                                                 *)
Own(c) == {c} \X (0 .. MAX_STREAMS)

Data(c) == {c} \X (1 .. MAX_STREAMS)

(* iperf_create_streams makes num_streams connections for each direction.   *)
Wanted(c) == IF mode[c] = "BIDIRECTIONAL" THEN 2 * num_streams[c] ELSE num_streams[c]

(* Nwrite of message m to the control connection.                           *)
ClWrite(c, m) ==
  /\ TRUE \in NwriteOK(sv_end[Ctrl(c)])
  /\ up' = [up EXCEPT ![Ctrl(c)] = Append(@, m)]

ClWriteFails(c) == FALSE \in NwriteOK(sv_end[Ctrl(c)]) /\ UNCHANGED up

(* The process ends with i_errno = err and the kernel closes its sockets.   *)
ClExit(c, err) ==
  /\ cl_pc' = [cl_pc EXCEPT ![c] = "end"]
  /\ cl_errno' = [cl_errno EXCEPT ![c] = err]
  /\ ClClose(Own(c))
  /\ UNCHANGED <<cl_dialed, cl_omitting, listening, backlog, sv_end>>

(* cleanup_and_fail: iperf_errexit does not return.                         *)
ClFail(c, err) ==
  UNCHANGED <<cl_state, up, down>> /\ ClExit(c, err)

(* The process goes on at pc.                                               *)
ClGoesOn(c, pc) ==
  /\ cl_pc' = [cl_pc EXCEPT ![c] = pc]
  /\ UNCHANGED <<cl_dialed, cl_errno, listening, backlog, cl_end, sv_end>>

(* iperf_connect up to the connection.                                      *)
ClDial(c) ==
  /\ cl_pc[c] = "start"
  /\ netdial(Ctrl(c))
  /\ cl_pc' = [cl_pc EXCEPT ![c] = "cookie"]
  /\ UNCHANGED <<cl_state, cl_dialed, cl_omitting, cl_errno, listening, up, down, sv_end>>

ClDialFails(c) ==
  /\ cl_pc[c] = "start" /\ ~listening
  /\ ClFail(c, "IECONNECT")

(* iperf_connect sends the cookie.                                          *)
ClCookie(c) ==
  /\ cl_pc[c] = "cookie"
  /\ \/ /\ ClWrite(c, "cookie") /\ ClGoesOn(c, "select")
        /\ UNCHANGED <<cl_state, cl_omitting, down>>
     \/ ClWriteFails(c) /\ ClFail(c, "IESENDCOOKIE")

(* A pass of the loop in which the control socket is readable, and the      *)
(* state byte m that iperf_handle_message_client reads from it.             *)
ClReads(c, m) ==
  /\ cl_pc[c] = "select"
  /\ down[Ctrl(c)] # <<>> /\ Head(down[Ctrl(c)]) = m
  /\ down' = [down EXCEPT ![Ctrl(c)] = Tail(@)]
  /\ cl_state' = [cl_state EXCEPT ![c] = m]

(* The connection is at its end, or was reset.                              *)
ClReadsEnd(c) ==
  /\ cl_pc[c] = "select"
  /\ \/ /\ sv_end[Ctrl(c)] = "fin" /\ down[Ctrl(c)] = <<>>
        /\ ClFail(c, "IECTRLCLOSE")
     \/ /\ sv_end[Ctrl(c)] = "rst"
        /\ ClFail(c, "IERECVMESSAGE")

(* PARAM_EXCHANGE: send_parameters.                                         *)
ClSendsParams(c) ==
  /\ ClReads(c, "PARAM_EXCHANGE")
  /\ \/ /\ ClWrite(c, "params") /\ ClGoesOn(c, "select")
        /\ UNCHANGED cl_omitting
     \/ ClWriteFails(c) /\ ClExit(c, "IESENDPARAMS")

(* CREATE_STREAMS: iperf_create_streams begins.                             *)
ClCreatesStreams(c) ==
  /\ ClReads(c, "CREATE_STREAMS")
  /\ ClGoesOn(c, "dial")
  /\ UNCHANGED <<cl_omitting, up>>

(* One iperf_tcp_connect of the loop in iperf_create_streams: connect, and  *)
(* send the cookie.                                                         *)
ClDialsStream_more(c) ==
  /\ cl_pc[c] = "dial"
  /\ LET n == <<c, cl_dialed[c] + 1>> IN
     /\ netdial(n)
     /\ up' = [up EXCEPT ![n] = <<"cookie">>]
  /\ cl_dialed' = [cl_dialed EXCEPT ![c] = @ + 1]
  /\ cl_pc' = [cl_pc EXCEPT ![c] = IF cl_dialed'[c] > Wanted(c) THEN "select" ELSE "dial"]
  /\ UNCHANGED <<cl_state, cl_omitting, cl_errno, listening, down, sv_end>>
ClDialsStream(c) ==
  /\ cl_pc[c] = "dial"
  /\ LET n == <<c, cl_dialed[c] + 1>> IN
     /\ netdial(n)
     /\ up' = [up EXCEPT ![n] = <<"cookie">>]
  /\ cl_dialed' = [cl_dialed EXCEPT ![c] = @ + 1]
  /\ cl_pc' = [cl_pc EXCEPT ![c] = IF cl_dialed'[c] = Wanted(c) THEN "select" ELSE "dial"]
  /\ UNCHANGED <<cl_state, cl_omitting, cl_errno, listening, down, sv_end>>

ClDialsStreamFails(c) ==
  /\ cl_pc[c] = "dial" /\ ~listening
  /\ ClFail(c, "IESTREAMCONNECT")

(* TEST_START: create_client_timers and create_client_omit_timer.           *)
ClStarts(c) ==
  /\ ClReads(c, "TEST_START")
  /\ ClGoesOn(c, "select")
  /\ cl_omitting' = [cl_omitting EXCEPT ![c] = omit[c]]
  /\ UNCHANGED up

(* TEST_RUNNING: from now on the passes of the loop send and receive data.  *)
ClRuns(c) ==
  /\ ClReads(c, "TEST_RUNNING")
  /\ ClGoesOn(c, "select")
  /\ UNCHANGED <<cl_omitting, up>>

Running(c) == cl_pc[c] = "select" /\ cl_state[c] = "TEST_RUNNING"

(* client_omit_timer_proc.                                                  *)
ClOmitTimer(c) ==
  /\ Running(c) /\ cl_omitting[c]
  /\ cl_omitting' = [cl_omitting EXCEPT ![c] = FALSE]
  /\ UNCHANGED <<cl_pc, cl_state, cl_dialed, cl_errno, netVars>>

(* The end of a pass in which test_timer_proc has set done, or the bytes or *)
(* the blocks of the test are through.                                      *)
ClEnds_again(c) ==
  /\ Running(c) /\ ~cl_omitting[c]
  /\ ClWrite(c, "TEST_END") /\ ClGoesOn(c, "select")
  /\ UNCHANGED <<cl_state, cl_omitting, down>>
ClEnds(c) ==
  /\ Running(c) /\ ~cl_omitting[c]
  /\ \/ /\ ClWrite(c, "TEST_END") /\ ClGoesOn(c, "select")
        /\ cl_state' = [cl_state EXCEPT ![c] = "TEST_END"]
        /\ UNCHANGED <<cl_omitting, down>>
     \/ ClWriteFails(c) /\ ClFail(c, "IESENDMESSAGE")

(* Nothing has arrived for rcv_timeout while the client is a receiver.      *)
ClRcvTimeout(c) ==
  /\ Running(c) /\ mode[c] # "SENDER"
  /\ down[Ctrl(c)] = <<>> /\ sv_end[Ctrl(c)] = "open"
  /\ ClFail(c, "IENOMSG")

(* iperf_send or iperf_recv meets a data connection that the server has     *)
(* closed. A receiver meets an error only if it was reset: the end of the   *)
(* connection is no error to Nread.                                         *)
ClStreamError(c) ==
  /\ \/ Running(c)
     \/ cl_pc[c] = "select" /\ cl_state[c] = "TEST_END" /\ mode[c] = "RECEIVER"
  /\ \E n \in Data(c) :
       /\ cl_end[n] = "open"
       /\ sv_end[n] \in (IF mode[c] = "RECEIVER" THEN {"rst"} ELSE {"fin", "rst"})
  /\ ClFail(c, IF mode[c] = "RECEIVER" THEN "IESTREAMREAD" ELSE "IESTREAMWRITE")

(* EXCHANGE_RESULTS: send_results, then get_results blocks.                 *)
ClSendsResults(c) ==
  /\ ClReads(c, "EXCHANGE_RESULTS")
  /\ \/ /\ ClWrite(c, "results") /\ ClGoesOn(c, "results")
        /\ UNCHANGED cl_omitting
     \/ ClWriteFails(c) /\ ClExit(c, "IESENDRESULTS")

ClGetsResults(c) ==
  /\ cl_pc[c] = "results"
  /\ NreadReturns(down[Ctrl(c)], sv_end[Ctrl(c)], "results")
  /\ \/ /\ NreadGot(down[Ctrl(c)], "results")
        /\ down' = [down EXCEPT ![Ctrl(c)] = Tail(@)]
        /\ ClGoesOn(c, "select")
        /\ UNCHANGED <<cl_state, cl_omitting, up>>
     \/ /\ ~NreadGot(down[Ctrl(c)], "results") \/ sv_end[Ctrl(c)] = "rst"
        /\ ClFail(c, "IERECVRESULTS")

(* DISPLAY_RESULTS: iperf_client_end says IPERF_DONE, the result of which   *)
(* nobody looks at, and the loop ends.                                      *)
ClDisplays(c) ==
  /\ cl_pc[c] = "select"
  /\ NreadGot(down[Ctrl(c)], "DISPLAY_RESULTS")
  /\ down' = [down EXCEPT ![Ctrl(c)] = Tail(@)]
  /\ cl_state' = [cl_state EXCEPT ![c] = "IPERF_DONE"]
  /\ ClWrite(c, "IPERF_DONE") \/ ClWriteFails(c)
  /\ ClExit(c, "OK")

(* SERVER_TERMINATE, ACCESS_DENIED, SERVER_ERROR with the codes behind it,  *)
(* and what the switch does not know.                                       *)
ErrnoOf(m) ==
  CASE m = "SERVER_TERMINATE" -> "IESERVERTERM"
    [] m = "ACCESS_DENIED" -> "IEACCESSDENIED"
    [] m = "SERVER_ERROR" -> "server's errno"
    [] OTHER -> "IEMESSAGE"

ClRefused(c) ==
  /\ cl_pc[c] = "select" /\ down[Ctrl(c)] # <<>>
  /\ LET m == Head(down[Ctrl(c)]) IN
     /\ m \notin {"PARAM_EXCHANGE", "CREATE_STREAMS", "TEST_START", "TEST_RUNNING",
                  "EXCHANGE_RESULTS", "DISPLAY_RESULTS", "IPERF_DONE"}
     /\ ClReads(c, m) /\ UNCHANGED up
     /\ ClExit(c, ErrnoOf(m))

(* sigend_handler and iperf_got_sigend: a last message, if there is a       *)
(* control connection; or the process is killed and says nothing.           *)
ClSignal(c) ==
  /\ c \in Mortal /\ cl_pc[c] \notin {"start", "end"}
  /\ UNCHANGED down
  /\ \/ /\ ClWrite(c, "CLIENT_TERMINATE")
        /\ cl_state' = [cl_state EXCEPT ![c] = "CLIENT_TERMINATE"]
     \/ UNCHANGED <<up, cl_state>>
  /\ ClExit(c, "IECLIENTTERM")
===============================================================================
