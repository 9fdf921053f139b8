---------------------------------- MODULE TRcv ----------------------------------
(***************************************************************************)
(* proj1/t_rcv.cpp, the receiver of the TCP benchmark: one select loop     *)
(* over up to MAXCONN connections. For every connection that is ready, it  *)
(* reads a length and a message, with calls of recv that may block, and    *)
(* writes the message to the one output file.                              *)
(*                                                                         *)
(* When a connection ends, the output file is closed, but t_rcv goes on. A *)
(* later fwrite or fclose uses a FILE that has been freed; what happens    *)
(* then is undefined, and the model stops with tr_pc = "undefined".        *)
(*                                                                         *)
(* As in TNcp, Op_word stands before Op and is a faulty variant of it.     *)
(***************************************************************************)
EXTENDS TcpNet

VARIABLES
  tr_pc,    \* "select", "len", "data", or "undefined"
  socks,    \* Recv_socks: the connections accepted so far
  Valid,    \* indices of those that are still open
  mask,     \* ready connections that the current pass has still to read
  rbuf,     \* bytes read of the length, or of the message
  mess_len, \* length of the message that is being read
  pd,       \* the output file: "open" or "closed"
  out       \* what has been written to it

trVars == <<tr_pc, socks, Valid, mask, rbuf, mess_len, pd, out>>

TrInit ==
  /\ tr_pc = "select"
  /\ socks = <<>> /\ Valid = {} /\ mask = {}
  /\ rbuf = <<>> /\ mess_len = 0
  /\ pd = "open" /\ out = <<>>

TrTypeOK ==
  /\ tr_pc \in {"select", "len", "data", "undefined"}
  /\ socks \in Seq(TcpSenders) /\ Len(socks) <= MAXCONN
  /\ mask \subseteq Valid /\ Valid \subseteq DOMAIN socks
  /\ mask = {} <=> tr_pc \in {"select", "undefined"}
  /\ Len(rbuf) <= HDR + MSG
  /\ mess_len \in {0} \cup (HDR .. HDR + MSG)
  /\ pd \in {"open", "closed"}

(* The connection that the current pass is at.                              *)
j == CHOOSE i \in mask : \A k \in mask : i <= k

Conn == socks[j]

Readable_data(i) == wire[socks[i]] # <<>>

Readable(i) == wire[socks[i]] # <<>> \/ shut[socks[i]]

(* Go on with the next connections of the pass, or back to select.          *)
ReadNext(rest) ==
  /\ mask' = rest
  /\ tr_pc' = IF rest = {} THEN "select" ELSE "len"
  /\ rbuf' = <<>>

(* select returns and a pending connection is accepted. If Recv_socks is    *)
(* full while one is pending, the code prints a message and starts over     *)
(* without reading anything: then no step of the model is possible.         *)
TrSelect ==
  /\ tr_pc = "select"
  /\ LET ready == {i \in Valid : Readable(i)} IN
     /\ backlog # <<>> \/ ready # {}
     /\ ReadNext(ready)
  /\ \/ /\ backlog # <<>> /\ Len(socks) < MAXCONN
        /\ socks' = Append(socks, Head(backlog))
        /\ Valid' = Valid \cup {Len(socks) + 1}
        /\ backlog' = Tail(backlog)
     \/ /\ backlog = <<>>
        /\ UNCHANGED <<socks, Valid, backlog>>
  /\ UNCHANGED <<mess_len, pd, out, wire, shut>>

(* One call of recv that returns the next n bytes of the connection.        *)
Wanted == (IF tr_pc = "len" THEN HDR ELSE mess_len - HDR) - Len(rbuf)

Received(n) == rbuf \o SubSeq(wire[Conn], 1, n)

Recv(n) ==
  /\ tr_pc \in {"len", "data"}
  /\ n <= Wanted /\ n <= Len(wire[Conn])
  /\ wire' = [wire EXCEPT ![Conn] = SubSeq(@, n + 1, Len(@))]
  /\ UNCHANGED <<socks, Valid, shut, backlog>>

(* The loops around recv go on until everything is there.                   *)
Complete_anyway(n) == TRUE

Complete(n) == n = Wanted

TrPart(n) ==
  /\ Recv(n) /\ ~Complete(n)
  /\ rbuf' = Received(n)
  /\ UNCHANGED <<tr_pc, mask, mess_len, pd, out>>

TrLength(n) ==
  /\ tr_pc = "len" /\ Recv(n) /\ Complete(n)
  /\ mess_len' = Head(Received(n))[2]
  /\ tr_pc' = "data" /\ rbuf' = <<>>
  /\ UNCHANGED <<mask, pd, out>>

(* The message is complete, at once if it is empty: write it.               *)
TrWrite(n) ==
  /\ tr_pc = "data" /\ Recv(n) /\ Complete(n)
  /\ \/ /\ pd = "open"
        /\ out' = out \o Received(n)
        /\ ReadNext(mask \ {j})
     \/ /\ pd = "closed"
        /\ tr_pc' = "undefined" /\ mask' = {}
        /\ UNCHANGED <<rbuf, out>>
  /\ UNCHANGED <<mess_len, pd>>

(* recv finds the connection closed: Clear_sock, and close the file. What   *)
(* has been read of a message is dropped.                                   *)
TrClosed ==
  /\ tr_pc \in {"len", "data"}
  /\ Wanted > 0 /\ wire[Conn] = <<>> /\ shut[Conn]
  /\ Valid' = Valid \ {j}
  /\ \/ /\ pd = "open"
        /\ pd' = "closed"
        /\ ReadNext(mask \ {j})
     \/ /\ pd = "closed"
        /\ tr_pc' = "undefined" /\ mask' = {}
        /\ UNCHANGED <<rbuf, pd>>
  /\ UNCHANGED <<socks, mess_len, out, tcpNetVars>>
===============================================================================
