--------------------------------- MODULE TcpNet ---------------------------------
(***************************************************************************)
(* The TCP connections between the t_ncp processes and t_rcv of proj1, as  *)
(* far as the two programs use them: per connection a reliable, ordered    *)
(* stream of bytes with a buffer of limited size, and the backlog of       *)
(* connections that have not been accepted yet.                            *)
(*                                                                         *)
(* A message is a header of HDR bytes, each of which carries the length of *)
(* the whole message, and up to MSG bytes of the file. A byte is a pair:   *)
(* <<"len", n>> in a header, <<c, k>> for byte k of the file of t_ncp c.   *)
(***************************************************************************)
EXTENDS Integers, Sequences, SequencesExt, FiniteSets

CONSTANTS
  TcpSenders,  \* the t_ncp processes
  Size,        \* length of the file of each of them
  HDR,         \* sizeof(mess_len): 4 in the code
  MSG,         \* sizeof(mess_buf) - sizeof(mess_len) in t_ncp
  SOCKBUF,     \* bytes of a connection that the kernels can hold
  MAXCONN      \* entries of Recv_socks: 10 in the code

ASSUME TcpAssumption ==
  /\ Size \in [TcpSenders -> Nat]
  /\ {HDR, MSG, SOCKBUF, MAXCONN} \subseteq Nat \ {0}

VARIABLES
  wire,    \* bytes sent on a connection and not received yet
  shut,    \* whether the sending end is closed
  backlog  \* connections to be accepted, in order

tcpNetVars == <<wire, shut, backlog>>

TcpNetInit ==
  /\ wire = [c \in TcpSenders |-> <<>>]
  /\ shut = [c \in TcpSenders |-> FALSE]
  /\ backlog = <<>>

Source(c) == [k \in 1 .. Size[c] |-> <<c, k>>]

Message(data) ==
  [i \in 1 .. HDR |-> <<"len", HDR + Len(data)>>] \o data

TcpNetTypeOK ==
  /\ DOMAIN wire = TcpSenders /\ \A c \in TcpSenders : Len(wire[c]) <= SOCKBUF
  /\ shut \in [TcpSenders -> BOOLEAN]
  /\ backlog \in Seq(TcpSenders)
===============================================================================
