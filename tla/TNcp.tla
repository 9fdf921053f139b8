---------------------------------- MODULE TNcp ----------------------------------
(***************************************************************************)
(* proj1/t_ncp.cpp, the sender of the TCP benchmark: it reads the file     *)
(* piece by piece and sends every piece as a message with its length.      *)
(*                                                                         *)
(* A definition Op_word that stands before Op is a faulty variant of it: a *)
(* bug this code could plausibly have, which some property must notice.    *)
(***************************************************************************)
EXTENDS TcpNet

VARIABLES
  tn_pc,     \* "start", "run", "exit", or "killed"
  offset,    \* bytes that fread has returned so far
  eof,       \* feof(pd)
  mess_rest  \* the part of mess_buf that has not been sent

tnVars == <<tn_pc, offset, eof, mess_rest>>

TnInit ==
  /\ tn_pc = [c \in TcpSenders |-> "start"]
  /\ offset = [c \in TcpSenders |-> 0]
  /\ eof = [c \in TcpSenders |-> FALSE]
  /\ mess_rest = [c \in TcpSenders |-> <<>>]

TnTypeOK ==
  /\ tn_pc \in [TcpSenders -> {"start", "run", "exit", "killed"}]
  /\ DOMAIN offset = TcpSenders /\ \A c \in TcpSenders : offset[c] \in 0 .. Size[c]
  /\ eof \in [TcpSenders -> BOOLEAN]
  /\ DOMAIN mess_rest = TcpSenders
  /\ \A c \in TcpSenders : Len(mess_rest[c]) <= HDR + MSG

TnConnect(c) ==
  /\ tn_pc[c] = "start"
  /\ tn_pc' = [tn_pc EXCEPT ![c] = "run"]
  /\ backlog' = Append(backlog, c)
  /\ UNCHANGED <<offset, eof, mess_rest, wire, shut>>

(* fread: a short count, and only that, sets the end-of-file indicator. So  *)
(* a file that ends with a full piece is followed by an empty message.      *)
Piece(c) == SubSeq(Source(c), offset[c] + 1, Min({offset[c] + MSG, Size[c]}))

AtEof(c) == Len(Piece(c)) < MSG

TnRead(c) ==
  /\ tn_pc[c] = "run" /\ mess_rest[c] = <<>> /\ ~eof[c]
  /\ mess_rest' = [mess_rest EXCEPT ![c] = Message(Piece(c))]
  /\ offset' = [offset EXCEPT ![c] = @ + Len(Piece(c))]
  /\ eof' = [eof EXCEPT ![c] = AtEof(c)]
  /\ UNCHANGED <<tn_pc, tcpNetVars>>

(* One call of send, which may take only a part of the message.             *)
Unsent_dropped(c, n) == <<>>

Unsent(c, n) == SubSeq(mess_rest[c], n + 1, Len(mess_rest[c]))

TnSend(c) ==
  /\ tn_pc[c] = "run"
  /\ \E n \in 1 .. Len(mess_rest[c]) :
       /\ Len(wire[c]) + n <= SOCKBUF
       /\ wire' = [wire EXCEPT ![c] = @ \o SubSeq(mess_rest[c], 1, n)]
       /\ mess_rest' = [mess_rest EXCEPT ![c] = Unsent(c, n)]
  /\ UNCHANGED <<tn_pc, offset, eof, shut, backlog>>

(* The process ends, which closes its end of the connection.                *)
TnFinish(c) ==
  /\ tn_pc[c] = "run" /\ mess_rest[c] = <<>> /\ eof[c]
  /\ tn_pc' = [tn_pc EXCEPT ![c] = "exit"]
  /\ shut' = [shut EXCEPT ![c] = TRUE]
  /\ UNCHANGED <<offset, eof, mess_rest, wire, backlog>>

TnKilled(c) ==
  /\ tn_pc[c] = "run"
  /\ tn_pc' = [tn_pc EXCEPT ![c] = "killed"]
  /\ shut' = [shut EXCEPT ![c] = TRUE]
  /\ UNCHANGED <<offset, eof, mess_rest, wire, backlog>>
===============================================================================
