----------------------------- MODULE ReliableCopy -----------------------------
(***************************************************************************)
(* What ncp and rcv promise for the copy of one file, without packets,     *)
(* windows, acks and a network: the destination file only ever grows, by   *)
(* the bytes that follow in the source; once it is whole nothing is done   *)
(* to it any more; and ncp returns from main only when it is whole. An ncp *)
(* that is killed leaves what rcv has, and what is on its way may follow.  *)
(***************************************************************************)
EXTENDS Integers, Sequences

CONSTANTS
  Source,  \* whose file is copied
  Size     \* its size in bytes

VARIABLES
  proc,  \* the ncp process: "idle", "run", "exit" or "killed"
  file   \* the pieces of the source in the destination file

copyVars == <<proc, file>>

(* How much has been copied. A copy of an empty file is whole when it has   *)
(* its one, empty, piece.                                                   *)
End == IF file = <<>> THEN 0 ELSE file[Len(file)].off + file[Len(file)].len
Whole == file # <<>> /\ End = Size

CopyInit == proc = "idle" /\ file = <<>>

Launch == proc = "idle" /\ proc' = "run" /\ UNCHANGED file

Grow ==
  /\ proc # "idle" /\ ~Whole
  /\ \E n \in IF Size = 0 THEN {0} ELSE 1 .. Size - End :
       file' = Append(file, [src |-> Source, off |-> End, len |-> n])
  /\ UNCHANGED proc

Return == proc = "run" /\ Whole /\ proc' = "exit" /\ UNCHANGED file

Die == proc = "run" /\ proc' = "killed" /\ UNCHANGED file

CopyNext == Launch \/ Grow \/ Return \/ Die

Copy == CopyInit /\ [][CopyNext]_copyVars
===============================================================================
