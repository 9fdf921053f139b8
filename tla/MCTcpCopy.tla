------------------------------- MODULE MCTcpCopy -------------------------------
(***************************************************************************)
(* Instances of TcpCopy for TLC.                                           *)
(***************************************************************************)
EXTENDS TcpCopy

CONSTANTS c, d

(* A file that ends with a full piece, so that its last message is empty,   *)
(* and one that ends with a short piece.                                    *)
SizeOfTwo == [s \in TcpSenders |-> IF s = c THEN 4 ELSE 1]
===============================================================================
