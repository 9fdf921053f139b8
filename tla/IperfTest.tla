-------------------------------- MODULE IperfTest --------------------------------
(***************************************************************************)
(* iperf3 clients and one iperf3 server.                                   *)
(***************************************************************************)
EXTENDS IperfServer

vars == <<netVars, clVars, svVars>>

Init == NetInit /\ ClInit /\ SvInit

ClStep(c) ==
  \/ ClDial(c) \/ ClDialFails(c) \/ ClCookie(c) \/ ClReadsEnd(c) \/ ClSendsParams(c)
  \/ ClCreatesStreams(c) \/ ClDialsStream(c) \/ ClDialsStreamFails(c) \/ ClStarts(c)
  \/ ClRuns(c) \/ ClOmitTimer(c) \/ ClEnds(c) \/ ClRcvTimeout(c) \/ ClStreamError(c)
  \/ ClSendsResults(c) \/ ClGetsResults(c) \/ ClDisplays(c) \/ ClRefused(c)

SvStep ==
  \/ SvListen \/ SvAccept \/ SvCookie \/ SvParams \/ SvDeny \/ SvAcceptStream
  \/ SvDenyStream \/ SvAddStream \/ SvStart \/ SvTestEnd \/ SvResults \/ SvDone \/ SvCtrlClosed
  \/ SvSelectFails \/ SvStreamError

(* What comes from outside: signals, and times that are exceeded.           *)
SvFault ==
  \/ SvTimer \/ SvIdleTimeout \/ SvRcvTimeout \/ SvRateExceeded \/ SvSignal

Next ==
  \/ \E c \in Clients : (ClStep(c) \/ ClSignal(c)) /\ UNCHANGED svVars
  \/ (SvStep \/ SvFault) /\ UNCHANGED clVars

Spec == Init /\ [][Next]_vars

(* The programs run, messages arrive, and a test that is running ends by    *)
(* its time or its amount of data. No signal and no timeout has to come.    *)
FairSpec ==
  /\ Spec
  /\ WF_vars(SvStep /\ UNCHANGED clVars)
  /\ \A c \in Clients : WF_vars(ClStep(c) /\ UNCHANGED svVars)

(***************************************************************************)
(* Properties.                                                             *)
(***************************************************************************)
(* The variables have their types; in particular no client makes more       *)
(* connections than its options ask for.                                    *)
IperfTypeOK == NetTypeOK /\ ClTypeOK /\ SvTypeOK

(* The streams of a test are the data connections of its client, in the     *)
(* order in which the client made them: the two sides number the streams    *)
(* alike and agree on who sends. The one exception is a connection whose    *)
(* client ended without having sent a cookie: iperf_tcp_accept may then     *)
(* compare a cookie that an earlier call has left on its stack.             *)
StreamsAreTheClients ==
  \A i \in DOMAIN sv_streams :
    LET n == sv_streams[i]
        before == {sv_streams[j] : j \in 1 .. i - 1}
    IN IF n[1] = client
       THEN /\ n[2] # 0
            /\ \A k \in 0 .. MAX_STREAMS : <<client, k>> \in before <=> k \in 1 .. n[2] - 1
       ELSE cl_end[n] \in {"fin", "rst"}

(* No side is ever sent a message that it does not expect in its state,     *)
(* whatever fails when: the switches of the two handlers never get to their *)
(* default with IEMESSAGE, and no JSON document is taken for a state.       *)
ClExpects(c) ==
  {"SERVER_TERMINATE"} \cup
  CASE cl_state[c] = "0" -> {"PARAM_EXCHANGE", "ACCESS_DENIED"}
    [] cl_state[c] = "PARAM_EXCHANGE" -> {"CREATE_STREAMS", "SERVER_ERROR"}
    [] cl_state[c] = "CREATE_STREAMS" -> {"TEST_START"}
    [] cl_state[c] = "TEST_START" -> {"TEST_RUNNING"}
    [] cl_state[c] = "TEST_END" -> {"EXCHANGE_RESULTS"}
    [] cl_state[c] = "EXCHANGE_RESULTS" -> {"results", "DISPLAY_RESULTS"}
    [] OTHER -> {}

SvExpects ==
  {"CLIENT_TERMINATE"} \cup
  CASE sv_pc = "cookie" -> {"cookie"}
    [] sv_pc = "params" -> {"params"}
    [] sv_pc = "results" -> {"results"}
    [] sv_state = "TEST_RUNNING" -> {"TEST_END"}
    [] sv_state = "DISPLAY_RESULTS" -> {"IPERF_DONE"}
    [] OTHER -> {}

InStep ==
  /\ \A c \in Clients :
       cl_pc[c] \in {"select", "results"} /\ down[Ctrl(c)] # <<>> =>
         Head(down[Ctrl(c)]) \in ClExpects(c)
  /\ sv_ctrl # NoConn /\ sv_open /\ up[sv_ctrl] # <<>> =>
       Head(up[sv_ctrl]) \in SvExpects

(* A client that is running a test on a connection that the server has not  *)
(* closed is the one the server runs it with, and all its streams have been *)
(* accepted.                                                                *)
RunningTogether ==
  \A c \in Clients :
    cl_state[c] \in {"TEST_START", "TEST_RUNNING"} /\ sv_end[Ctrl(c)] = "open"
      /\ cl_pc[c] # "end" =>
        sv_ctrl = Ctrl(c) /\ sv_state = "TEST_RUNNING" /\ Len(sv_streams) = Wanted(c)

(* The server implements IperfService.                                      *)
Outcome(c) ==
  CASE cl_errno[c] = "" -> ""
    [] cl_errno[c] = "OK" -> "ok"
    [] cl_errno[c] = "IEACCESSDENIED" -> "denied"
    [] OTHER -> "failed"

Abstract == INSTANCE IperfService WITH
  None <- NoConn,
  holder <- IF sv_ctrl = NoConn THEN NoConn ELSE client,
  exchanged <- served,
  turned <- refused,
  outcome <- [c \in Clients |-> Outcome(c)]

IsService == Abstract!Service

(* Every client that starts ends, however many fail and whatever happens to *)
(* the server.                                                              *)
EveryClientEnds == \A c \in Clients : <>(cl_pc[c] = "end")

(* The server always gets back to waiting for a new client, unless a signal *)
(* or a failure to listen ends it.                                          *)
ServesAgain ==
  []<>(sv_pc = "exited" \/ (sv_pc = "select" /\ sv_ctrl = NoConn))
===============================================================================
