-------------------------------- MODULE IperfNet --------------------------------
(***************************************************************************)
(* The TCP connections between iperf3 clients and one iperf3 server, as    *)
(* net.c uses them. Connection <<c, 0>> is the control connection of       *)
(* client c, <<c, i>> its i-th data connection. On a control connection    *)
(* one message is a state byte, a cookie, or a JSON document ("params",    *)
(* "results"), in the order in which it was written. Of a data connection  *)
(* only the cookie is kept: what the test transfers is not looked at here. *)
(*                                                                         *)
(* An end that is closed while bytes for it are unread sends a reset, and  *)
(* the other end may then lose what it has not read yet.                   *)
(***************************************************************************)
EXTENDS Naturals, Sequences

CONSTANTS
  Clients,     \* the iperf3 -c processes
  MAX_STREAMS, \* bound on the data connections of one client
  NoConn       \* the descriptor -1

ASSUME NetAssumption ==
  /\ MAX_STREAMS \in Nat
  /\ NoConn \notin Clients \cup (Clients \X Nat)

VARIABLES
  listening, \* the server's listening socket is open
  backlog,   \* connections that wait to be accepted
  up,        \* messages that a client has written and the server has not read
  down,      \* messages in the other direction
  cl_end,    \* the client's end: "none", "open", "fin" or "rst"
  sv_end     \* the server's end: "open", "fin" or "rst"

netVars == <<listening, backlog, up, down, cl_end, sv_end>>

Conns == Clients \X (0 .. MAX_STREAMS)

Ctrl(c) == <<c, 0>>

NetInit ==
  /\ listening = FALSE /\ backlog = <<>>
  /\ up = [n \in Conns |-> <<>>] /\ down = [n \in Conns |-> <<>>]
  /\ cl_end = [n \in Conns |-> "none"] /\ sv_end = [n \in Conns |-> "open"]

Messages == {"cookie", "params", "results", "PARAM_EXCHANGE", "CREATE_STREAMS",
             "TEST_START", "TEST_RUNNING", "TEST_END", "EXCHANGE_RESULTS",
             "DISPLAY_RESULTS", "IPERF_DONE", "CLIENT_TERMINATE",
             "SERVER_TERMINATE", "ACCESS_DENIED", "SERVER_ERROR"}

NetTypeOK ==
  /\ listening \in BOOLEAN /\ backlog \in Seq(Conns)
  /\ up \in [Conns -> Seq(Messages)] /\ down \in [Conns -> Seq(Messages)]
  /\ cl_end \in [Conns -> {"none", "open", "fin", "rst"}]
  /\ sv_end \in [Conns -> {"open", "fin", "rst"}]

(* What closing an end sends, if `unread` is what has come in and was not   *)
(* read.                                                                    *)
CloseKind(unread) == IF unread = <<>> THEN "fin" ELSE "rst"

(* netdial and the connect of iperf_tcp_connect: the kernel completes the   *)
(* handshake as long as somebody listens.                                   *)
netdial(n) ==
  /\ listening
  /\ backlog' = Append(backlog, n)
  /\ cl_end' = [cl_end EXCEPT ![n] = "open"]

(* The outcomes of Nwrite: a write to a connection whose other end is       *)
(* closed may succeed all the same.                                         *)
NwriteOK(other) == IF other = "open" THEN {TRUE} ELSE BOOLEAN

(* Nread on a blocking socket returns once the whole of message m is there  *)
(* or the other end is closed; in the second case it returns what there is, *)
(* which is not an error.                                                   *)
NreadReturns(chan, other, m) ==
  \/ chan # <<>> /\ Head(chan) = m
  \/ other \in {"fin", "rst"}

NreadGot(chan, m) == chan # <<>> /\ Head(chan) = m

(* Closing a set S of connections on the server's side, after what the step *)
(* itself has read.                                                         *)
SvClose(S) ==
  sv_end' = [n \in Conns |->
               IF n \in S /\ sv_end[n] = "open" THEN CloseKind(up'[n]) ELSE sv_end[n]]

(* Closing a set S of connections on the client's side.                     *)
ClClose(S) ==
  cl_end' = [n \in Conns |->
               IF n \in S /\ cl_end[n] = "open" THEN CloseKind(down'[n]) ELSE cl_end[n]]
===============================================================================
