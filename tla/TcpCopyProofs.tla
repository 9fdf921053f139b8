------------------------------ MODULE TcpCopyProofs ------------------------------
(***************************************************************************)
(* Theorems about the TCP benchmark of proj1, for any senders, files and   *)
(* sizes of header, piece and socket buffer: the framing holds, and what   *)
(* t_rcv writes of each sender is the beginning of its file (EachInOrder), *)
(* all of it when the connection of a t_ncp that ended by itself is closed *)
(* (ClosedMeansCopied).                                                    *)
(***************************************************************************)
EXTENDS TcpCopy, SequenceTheorems, WellFoundedInduction, TLAPS

Bytes == ({"len"} \cup TcpSenders) \X Nat

(* What the stream of a connection is, whoever holds which part of it: k    *)
(* messages carry the first Got(c, k) bytes of the file, message k (from 0) *)
(* begins behind Start(c, k) bytes and carries Room(c, k) bytes of data.    *)
Got(c, k) == IF k * MSG <= Size[c] THEN k * MSG ELSE Size[c]
Start(c, k) == k * HDR + Got(c, k)
Room(c, k) == Got(c, k + 1) - Got(c, k)
Byte(c, k, r) ==
  IF r < HDR THEN <<"len", HDR + Room(c, k)>> ELSE <<c, Got(c, k) + r - HDR + 1>>

(* s is the part of the stream of c behind its first p bytes.               *)
Slice(s, c, p) ==
  /\ s \in Seq(Bytes)
  /\ \A i \in 1 .. Len(s) : \A k \in Nat : \A r \in 0 .. HDR + Room(c, k) - 1 :
       p + i = Start(c, k) + r + 1 => s[i] = Byte(c, k, r)

(* The connection that t_rcv is reading, and connections not closed by it.  *)
Current(c) == mask # {} /\ Conn = c
Open(c) == \A i \in DOMAIN socks : socks[i] = c => i \in Valid

(* t_ncp has made m messages of its file; t_rcv has read up to Position.    *)
Position(c, m) == Start(c, m) - Len(wire[c]) - Len(mess_rest[c])

Composed(c, m) ==
  /\ offset[c] = Got(c, m)
  /\ eof[c] => Got(c, m) = Size[c]
  /\ ~eof[c] => offset[c] = m * MSG

Sent(c, m) ==
  /\ Position(c, m) \in Nat
  /\ Slice(wire[c], c, Position(c, m))
  /\ Slice(mess_rest[c], c, Position(c, m) + Len(wire[c]))

(* Of k messages t_rcv has written the data.                                *)
Written(c, k) ==
  /\ \A i \in DOMAIN out : out[i][1] = c => out[i][2] \in 1 .. Got(c, k)
  /\ \A x \in 1 .. Got(c, k) : \E h \in DOMAIN out : out[h] = <<c, x>>
  /\ InOrder(c)

(* It is at the next message, or has read part of it.                       *)
ReadingLength(c, m, k) ==
  /\ Position(c, m) = Start(c, k) + Len(rbuf) /\ Len(rbuf) < HDR
  /\ Slice(rbuf, c, Start(c, k))

ReadingData(c, m, k) ==
  /\ mess_len = HDR + Room(c, k)
  /\ Position(c, m) = Start(c, k) + HDR + Len(rbuf)
  /\ Len(rbuf) <= Room(c, k)
  /\ Slice(rbuf, c, Start(c, k) + HDR)

Reading(c, m, k) ==
  /\ Current(c) /\ tr_pc = "len" => ReadingLength(c, m, k)
  /\ Current(c) /\ tr_pc = "data" => ReadingData(c, m, k)
  /\ ~Current(c) /\ Open(c) /\ tr_pc # "undefined" => Position(c, m) = Start(c, k)

Finished(c, k) == ~Open(c) => shut[c] /\ (tn_pc[c] = "exit" => Got(c, k) = Size[c])

Track(c) ==
  \E m, k \in Nat :
    Composed(c, m) /\ Sent(c, m) /\ Written(c, k) /\ Reading(c, m, k) /\ Finished(c, k)

(* The kinds of the variables.                                              *)
Typed ==
  /\ TcpTypeOK
  /\ wire \in [TcpSenders -> Seq(Bytes)] /\ mess_rest \in [TcpSenders -> Seq(Bytes)]
  /\ rbuf \in Seq(Bytes) /\ out \in Seq(Bytes)
  /\ \A i \in DOMAIN out : out[i][1] \in TcpSenders

(* A sender connects once.                                                  *)
ConnectsOnce ==
  /\ \A i, h \in DOMAIN socks : socks[i] = socks[h] => i = h
  /\ \A i, h \in DOMAIN backlog : backlog[i] = backlog[h] => i = h
  /\ \A i \in DOMAIN socks, h \in DOMAIN backlog : socks[i] # backlog[h]
  /\ \A i \in DOMAIN socks : tn_pc[socks[i]] # "start"
  /\ \A h \in DOMAIN backlog : tn_pc[backlog[h]] # "start"

(* How a sender ends.                                                       *)
Ended(c) ==
  /\ shut[c] <=> tn_pc[c] \in {"exit", "killed"}
  /\ tn_pc[c] = "exit" => mess_rest[c] = <<>> /\ eof[c]

TcpInv ==
  Typed /\ ConnectsOnce /\ \A c \in TcpSenders : Ended(c) /\ Track(c)

---------------------------------------------------------------------------------
(* Sets of numbers have a least element: j is one of mask.                  *)
LEMMA LeastElement ==
  ASSUME NEW T \in SUBSET Nat, T # {}
  PROVE  \E i \in T : \A k \in T : i <= k
<1> DEFINE R == OpToRel(<, Nat)
<1>1. IsWellFoundedOn(R, Nat)
  BY NatLessThanWellFounded
<1>2. \A x, y \in Nat : x < y => <<x, y>> \in R
  BY DEF OpToRel
<1> HIDE DEF R
<1>3. PICK i \in T : \A k \in T : ~(<<k, i>> \in R)
  BY <1>1, WFMin
<1>4. ASSUME NEW k \in T PROVE i <= k
  <2>1. i \in Nat /\ k \in Nat /\ ~(k < i)
    BY <1>2, <1>3
  <2> QED
    BY <2>1
<1> QED
  BY <1>4

(* The connection that a pass is at is a ready one.                         *)
First(T) == CHOOSE i \in T : \A k \in T : i <= k
LEMMA FirstIn ==
  ASSUME NEW T \in SUBSET Nat, T # {}
  PROVE  First(T) \in T
BY LeastElement DEF First

(* The stream of a sender: products first, then what the proofs use.        *)
LEMMA Products ==
  ASSUME NEW n \in Nat, NEW k \in Nat
  PROVE  /\ k * n \in Nat /\ (k + 1) * n = k * n + n /\ 0 * n = 0
         /\ \A h \in Nat : k <= h => k * n <= h * n
<1>1. k * n \in Nat /\ (k + 1) * n = k * n + n /\ 0 * n = 0
  BY SMT
<1>2. ASSUME NEW h \in Nat, k <= h PROVE k * n <= h * n
  <2>1. (h - k) \in Nat
    BY <1>2
  <2>2. (h - k) * n \in Nat
    BY <2>1, SMT
  <2>3. h * n = k * n + (h - k) * n
    BY <2>1, SMT
  <2> QED
    BY <1>1, <2>2, <2>3, SMT
<1> QED
  BY <1>1, <1>2

(* How many bytes of the file k messages carry, and where they end.         *)
LEMMA StreamFacts ==
  ASSUME NEW c \in TcpSenders, NEW k \in Nat
  PROVE  /\ Got(c, k) \in 0 .. Size[c] /\ Room(c, k) \in 0 .. MSG /\ Start(c, k) \in Nat
         /\ Got(c, k + 1) = Got(c, k) + Room(c, k)
         /\ Start(c, k + 1) = Start(c, k) + HDR + Room(c, k)
         /\ Got(c, 0) = 0 /\ Start(c, 0) = 0
         /\ Room(c, k) < MSG => Got(c, k + 1) = Size[c]
         /\ Got(c, k) = k * MSG /\ Room(c, k) = MSG => Got(c, k + 1) = (k + 1) * MSG
<1>1. Size[c] \in Nat /\ HDR \in Nat \ {0} /\ MSG \in Nat \ {0}
  BY TcpAssumption
<1>2. /\ k * MSG \in Nat /\ (k + 1) * MSG = k * MSG + MSG /\ 0 * MSG = 0
      /\ k * HDR \in Nat /\ (k + 1) * HDR = k * HDR + HDR /\ 0 * HDR = 0
  BY <1>1, Products
<1> DEFINE a == k * MSG
           b == k * HDR
<1>3. /\ Got(c, k) = IF a <= Size[c] THEN a ELSE Size[c]
      /\ Got(c, k + 1) = IF a + MSG <= Size[c] THEN a + MSG ELSE Size[c]
      /\ Start(c, k) = b + Got(c, k) /\ Start(c, k + 1) = b + HDR + Got(c, k + 1)
      /\ Room(c, k) = Got(c, k + 1) - Got(c, k)
  BY <1>2 DEF Got, Start, Room
<1>4. Got(c, 0) = 0 /\ Start(c, 0) = 0
  BY <1>1, <1>2 DEF Got, Start
<1>5. (k + 1) * MSG = a + MSG /\ a \in Nat /\ b \in Nat
  BY <1>2
<1> HIDE DEF a, b
<1>6. /\ Got(c, k) \in 0 .. Size[c] /\ Room(c, k) \in 0 .. MSG /\ Start(c, k) \in Nat
      /\ Got(c, k + 1) = Got(c, k) + Room(c, k)
      /\ Start(c, k + 1) = Start(c, k) + HDR + Room(c, k)
      /\ Room(c, k) < MSG => Got(c, k + 1) = Size[c]
  BY <1>1, <1>3, <1>5
<1>7. Got(c, k) = a /\ Room(c, k) = MSG => Got(c, k + 1) = a + MSG
  BY <1>1, <1>3, <1>5, <1>6
<1> QED
  BY <1>4, <1>5, <1>6, <1>7 DEF a

(* Messages follow each other.                                              *)
LEMMA StartOrder ==
  ASSUME NEW c \in TcpSenders, NEW k \in Nat, NEW h \in Nat, k < h
  PROVE  Start(c, k + 1) <= Start(c, h)
<1>1. Size[c] \in Nat /\ HDR \in Nat \ {0} /\ MSG \in Nat \ {0} /\ k + 1 \in Nat /\ k + 1 <= h
  BY TcpAssumption
<1>2. /\ (k + 1) * MSG \in Nat /\ h * MSG \in Nat /\ (k + 1) * MSG <= h * MSG
      /\ (k + 1) * HDR \in Nat /\ h * HDR \in Nat /\ (k + 1) * HDR <= h * HDR
  BY <1>1, Products
<1> QED
  BY <1>1, <1>2, SMT DEF Start, Got

(* A place in the stream belongs to one message.                            *)
LEMMA OnePlace ==
  ASSUME NEW c \in TcpSenders, NEW k \in Nat, NEW h \in Nat,
         NEW r \in 0 .. HDR + Room(c, k) - 1, NEW q \in 0 .. HDR + Room(c, h) - 1,
         Start(c, k) + r = Start(c, h) + q
  PROVE  k = h /\ r = q
<1>1. /\ Start(c, k) \in Nat /\ Start(c, h) \in Nat /\ HDR \in Nat /\ Room(c, k) \in Nat
      /\ Room(c, h) \in Nat
      /\ Start(c, k + 1) = Start(c, k) + HDR + Room(c, k)
      /\ Start(c, h + 1) = Start(c, h) + HDR + Room(c, h)
  BY StreamFacts, TcpAssumption
<1>2. ~(k < h)
  <2>1. k < h => Start(c, k + 1) <= Start(c, h)
    BY StartOrder
  <2> QED
    BY <1>1, <2>1
<1>3. ~(h < k)
  <2>1. h < k => Start(c, h + 1) <= Start(c, k)
    BY StartOrder
  <2> QED
    BY <1>1, <2>1
<1>4. k = h
  BY <1>2, <1>3
<1> QED
  BY <1>1, <1>4

---------------------------------------------------------------------------------
(* Cutting a slice in two, as send and recv do.                             *)
LEMMA SliceCut ==
  ASSUME NEW c \in TcpSenders, NEW p \in Nat, NEW s, Slice(s, c, p), NEW n \in 0 .. Len(s)
  PROVE  /\ Slice(SubSeq(s, 1, n), c, p) /\ Len(SubSeq(s, 1, n)) = n
         /\ Slice(SubSeq(s, n + 1, Len(s)), c, p + n)
         /\ Len(SubSeq(s, n + 1, Len(s))) = Len(s) - n
<1> DEFINE u == SubSeq(s, 1, n)
           v == SubSeq(s, n + 1, Len(s))
<1>1. s \in Seq(Bytes) /\ Len(s) \in Nat
  BY DEF Slice
<1>2. /\ u \in Seq(Bytes) /\ Len(u) = n /\ \A i \in 1 .. n : u[i] = s[i]
      /\ v \in Seq(Bytes) /\ Len(v) = Len(s) - n /\ \A i \in 1 .. Len(s) - n : v[i] = s[n + i]
  BY <1>1
<1> HIDE DEF u, v
<1>3. Slice(u, c, p)
  <2> SUFFICES ASSUME NEW i \in 1 .. Len(u), NEW k \in Nat, NEW r \in 0 .. HDR + Room(c, k) - 1,
                      p + i = Start(c, k) + r + 1
               PROVE  u[i] = Byte(c, k, r)
    BY <1>2 DEF Slice
  <2>1. i \in 1 .. Len(s) /\ u[i] = s[i]
    BY <1>1, <1>2
  <2> QED
    BY <2>1 DEF Slice
<1>4. Slice(v, c, p + n)
  <2> SUFFICES ASSUME NEW i \in 1 .. Len(v), NEW k \in Nat, NEW r \in 0 .. HDR + Room(c, k) - 1,
                      p + n + i = Start(c, k) + r + 1
               PROVE  v[i] = Byte(c, k, r)
    BY <1>2 DEF Slice
  <2>1. n + i \in 1 .. Len(s) /\ v[i] = s[n + i] /\ p + (n + i) = p + n + i
    BY <1>1, <1>2, SMTT(40)
  <2>2. p + (n + i) = Start(c, k) + r + 1
    BY <2>1
  <2> QED
    BY <2>1, <2>2 DEF Slice
<1> QED
  BY <1>2, <1>3, <1>4 DEF u, v

(* Putting two slices together, as the buffers do.                          *)
LEMMA SliceJoin ==
  ASSUME NEW c \in TcpSenders, NEW p \in Nat, NEW s, Slice(s, c, p),
         NEW t, Slice(t, c, p + Len(s))
  PROVE  Slice(s \o t, c, p) /\ Len(s \o t) = Len(s) + Len(t)
<1> DEFINE u == s \o t
<1>1. s \in Seq(Bytes) /\ Len(s) \in Nat /\ t \in Seq(Bytes) /\ Len(t) \in Nat
  BY DEF Slice
<1>2. /\ u \in Seq(Bytes) /\ Len(u) = Len(s) + Len(t)
      /\ \A i \in 1 .. Len(u) : u[i] = IF i <= Len(s) THEN s[i] ELSE t[i - Len(s)]
  BY <1>1
<1> HIDE DEF u
<1>3. ASSUME NEW i \in 1 .. Len(u), NEW k \in Nat, NEW r \in 0 .. HDR + Room(c, k) - 1,
             p + i = Start(c, k) + r + 1
      PROVE  u[i] = Byte(c, k, r)
  <2>1. CASE i <= Len(s)
    <3>1. i \in 1 .. Len(s) /\ u[i] = s[i]
      BY <1>1, <1>2, <2>1
    <3> QED
      BY <1>3, <3>1 DEF Slice
  <2>2. CASE ~(i <= Len(s))
    <3>1. i - Len(s) \in 1 .. Len(t) /\ u[i] = t[i - Len(s)] /\ p + Len(s) + (i - Len(s)) = p + i
      BY <1>1, <1>2, <2>2
    <3>2. p + Len(s) + (i - Len(s)) = Start(c, k) + r + 1
      BY <1>3, <3>1
    <3> QED
      BY <3>1, <3>2 DEF Slice
  <2> QED
    BY <2>1, <2>2
<1> QED
  BY <1>2, <1>3 DEF Slice, u

(* No bytes are a slice anywhere.                                           *)
LEMMA SliceEmpty == \A c, p : Slice(<<>>, c, p)
  BY DEF Slice

(* The first byte of a message holds its length.                            *)
LEMMA SliceHeader ==
  ASSUME NEW c \in TcpSenders, NEW k \in Nat, NEW s, Slice(s, c, Start(c, k)), Len(s) >= 1
  PROVE  Head(s) = <<"len", HDR + Room(c, k)>>
<1>1. /\ Start(c, k) \in Nat /\ HDR \in Nat \ {0} /\ Room(c, k) \in Nat
      /\ s \in Seq(Bytes) /\ Len(s) \in Nat
  <2>1. Start(c, k) \in Nat /\ Room(c, k) \in 0 .. MSG /\ HDR \in Nat \ {0}
    BY StreamFacts, TcpAssumption
  <2> QED
    BY <2>1 DEF Slice
<1>2. 1 \in 1 .. Len(s) /\ 0 \in 0 .. HDR + Room(c, k) - 1 /\ Start(c, k) + 1 = Start(c, k) + 0 + 1
  BY <1>1
<1>3. s[1] = Byte(c, k, 0)
  BY <1>2 DEF Slice
<1>4. Head(s) = s[1]
  BY <1>1
<1> QED
  BY <1>1, <1>3, <1>4 DEF Byte

(* What follows the length is the next part of the file.                    *)
LEMMA SliceData ==
  ASSUME NEW c \in TcpSenders, NEW k \in Nat, NEW s, Slice(s, c, Start(c, k) + HDR),
         Len(s) <= Room(c, k), NEW i \in 1 .. Len(s)
  PROVE  s[i] = <<c, Got(c, k) + i>>
<1>1. /\ Start(c, k) \in Nat /\ HDR \in Nat \ {0} /\ Room(c, k) \in Nat /\ Got(c, k) \in Nat
      /\ s \in Seq(Bytes) /\ Len(s) \in Nat
  <2>1. Got(c, k) \in 0 .. Size[c] /\ Size[c] \in Nat
    BY StreamFacts, TcpAssumption
  <2>2. Start(c, k) \in Nat /\ Room(c, k) \in 0 .. MSG /\ HDR \in Nat \ {0}
    BY StreamFacts, TcpAssumption
  <2> QED
    BY <2>1, <2>2 DEF Slice
<1>2. /\ HDR + i - 1 \in 0 .. HDR + Room(c, k) - 1
      /\ Start(c, k) + HDR + i = Start(c, k) + (HDR + i - 1) + 1
      /\ ~(HDR + i - 1 < HDR) /\ Got(c, k) + (HDR + i - 1) - HDR + 1 = Got(c, k) + i
  BY <1>1
<1>3. s[i] = Byte(c, k, HDR + i - 1)
  BY <1>2 DEF Slice
<1> QED
  BY <1>2, <1>3 DEF Byte

(* Where the piece that fread returns ends.                                 *)
LEMMA PieceEnd ==
  ASSUME NEW c \in TcpSenders, NEW m \in Nat, offset[c] = Got(c, m), Got(c, m) = m * MSG
  PROVE  Min({offset[c] + MSG, Size[c]}) = Got(c, m + 1)
<1>1. /\ MSG \in Nat \ {0} /\ Size[c] \in Nat /\ Got(c, m) \in 0 .. Size[c]
      /\ Got(c, m + 1) \in 0 .. Size[c]
  BY StreamFacts, TcpAssumption
<1> DEFINE x == Got(c, m) + MSG
<1>2. x \in Nat /\ (m + 1) * MSG = x
  BY <1>1, Products
<1>3. Got(c, m + 1) = IF x <= Size[c] THEN x ELSE Size[c]
  BY <1>2 DEF Got
<1> HIDE DEF x
<1>4. Got(c, m + 1) \in {x, Size[c]} /\ \A y \in {x, Size[c]} : Got(c, m + 1) <= y
  BY <1>1, <1>2, <1>3
<1>5. \A z \in {x, Size[c]} : (\A y \in {x, Size[c]} : z <= y) => z = Got(c, m + 1)
  BY <1>1, <1>2, <1>4
<1>6. Min({x, Size[c]}) = Got(c, m + 1)
  BY <1>4, <1>5 DEF Min
<1> QED
  BY <1>6 DEF x

(* The message that t_ncp makes of the piece that fread returns.            *)
LEMMA SliceMessage ==
  ASSUME NEW c \in TcpSenders, NEW m \in Nat, offset[c] = Got(c, m),
         Min({offset[c] + MSG, Size[c]}) = Got(c, m + 1)
  PROVE  /\ Slice(Message(Piece(c)), c, Start(c, m))
         /\ Len(Message(Piece(c))) = HDR + Room(c, m)
         /\ Len(Piece(c)) = Room(c, m)
<1>1. /\ Start(c, m) \in Nat /\ HDR \in Nat \ {0} /\ MSG \in Nat \ {0} /\ Size[c] \in Nat
      /\ Room(c, m) \in 0 .. MSG /\ Got(c, m) \in 0 .. Size[c]
      /\ Got(c, m + 1) = Got(c, m) + Room(c, m) /\ Got(c, m + 1) \in 0 .. Size[c]
  BY StreamFacts, TcpAssumption, SMTT(40)
<1> DEFINE d == Piece(c)
           u == Message(d)
           g == [i \in 1 .. HDR |-> <<"len", HDR + Len(d)>>]
<1>3. d = SubSeq(Source(c), Got(c, m) + 1, Got(c, m) + Room(c, m))
  BY <1>1 DEF Piece
<1>4. \A i \in 1 .. Size[c] : Source(c)[i] = <<c, i>> /\ Source(c)[i] \in Bytes
  BY <1>1 DEF Source, Bytes
<1>5. /\ d \in Seq(Bytes) /\ Len(d) = Room(c, m)
      /\ \A i \in 1 .. Room(c, m) : d[i] = <<c, Got(c, m) + i>>
  <2> DEFINE lo == Got(c, m) + 1
             hi == Got(c, m) + Room(c, m)
             src == Source(c)
  <2>1. lo \in Int /\ hi \in Int /\ \A i \in lo .. hi : i \in 1 .. Size[c]
    BY <1>1
  <2>2. \A i \in lo .. hi : src[i] \in Bytes
    BY <1>4, <2>1
  <2>3. d = SubSeq(src, lo, hi)
    BY <1>3
  <2> HIDE DEF lo, hi, src
  <2>4. /\ SubSeq(src, lo, hi) \in Seq(Bytes)
        /\ Len(SubSeq(src, lo, hi)) = IF lo <= hi THEN hi - lo + 1 ELSE 0
        /\ \A i \in 1 .. hi - lo + 1 : SubSeq(src, lo, hi)[i] = src[lo + i - 1]
    BY <2>1, <2>2, SubSeqProperties
  <2>0. /\ d \in Seq(Bytes) /\ Len(d) = IF lo <= hi THEN hi - lo + 1 ELSE 0
        /\ \A i \in 1 .. hi - lo + 1 : d[i] = src[lo + i - 1]
    BY <2>3, <2>4
  <2>5. Len(d) = Room(c, m) /\ hi - lo + 1 = Room(c, m)
    BY <1>1, <2>0 DEF lo, hi
  <2>6. ASSUME NEW i \in 1 .. Room(c, m) PROVE d[i] = <<c, Got(c, m) + i>>
    <3>1. lo + i - 1 = Got(c, m) + i /\ Got(c, m) + i \in 1 .. Size[c]
      BY <1>1 DEF lo
    <3> QED
      BY <1>4, <2>0, <2>5, <3>1 DEF src
  <2> QED
    BY <2>0, <2>5, <2>6
<1> HIDE DEF d
<1>6. /\ g \in Seq(Bytes) /\ Len(g) = HDR /\ \A i \in 1 .. HDR : g[i] = <<"len", HDR + Room(c, m)>>
  BY <1>1, <1>5 DEF Bytes
<1>7. u = g \o d
  BY DEF Message
<1> HIDE DEF g, u
<1>8. /\ u \in Seq(Bytes) /\ Len(u) = HDR + Room(c, m)
      /\ \A i \in 1 .. Len(u) : u[i] = IF i <= HDR THEN g[i] ELSE d[i - HDR]
  <2>1. /\ g \o d \in Seq(Bytes) /\ Len(g \o d) = Len(g) + Len(d)
        /\ \A i \in 1 .. Len(g) + Len(d) :
             (g \o d)[i] = IF i <= Len(g) THEN g[i] ELSE d[i - Len(g)]
    BY <1>5, <1>6, ConcatProperties, Zenon
  <2> QED
    BY <1>5, <1>6, <1>7, <2>1
<1>9. ASSUME NEW i \in 1 .. Len(u), NEW k \in Nat, NEW r \in 0 .. HDR + Room(c, k) - 1,
             Start(c, m) + i = Start(c, k) + r + 1
      PROVE  u[i] = Byte(c, k, r)
  <2>1. i - 1 \in 0 .. HDR + Room(c, m) - 1
    <3>1. Len(u) = HDR + Room(c, m)
      BY <1>8
    <3>2. HDR \in Nat /\ Room(c, m) \in Nat
      BY <1>1
    <3> QED
      BY <3>1, <3>2, SMTT(30)
  <2>2. Start(c, k) \in Nat /\ Room(c, k) \in Int /\ r \in Int /\ i \in Int
    <3>1. Start(c, k) \in Nat /\ Room(c, k) \in 0 .. MSG
      BY StreamFacts
    <3> QED
      BY <1>1, <1>8, <3>1
  <2>3. Start(c, m) + (i - 1) = Start(c, k) + r
    <3>1. Start(c, m) + i = Start(c, k) + r + 1
      BY <1>9
    <3>2. Start(c, m) \in Int /\ Start(c, k) \in Int /\ r \in Int /\ i \in Int
      BY <1>1, <2>2
    <3> QED
      BY <3>1, <3>2
  <2>4. m = k /\ i - 1 = r
    BY <2>1, <2>3, OnePlace
  <2>5. CASE i <= HDR
    <3>1. i \in 1 .. HDR /\ r < HDR
      BY <1>1, <2>2, <2>4, <2>5
    <3>2. u[i] = <<"len", HDR + Room(c, m)>>
      BY <1>6, <1>8, <2>5, <3>1
    <3> QED
      BY <2>4, <3>1, <3>2 DEF Byte
  <2>6. CASE ~(i <= HDR)
    <3>1. i - HDR \in 1 .. Room(c, m) /\ ~(r < HDR) /\ Got(c, m) + (i - HDR) = Got(c, m) + r - HDR + 1
      <4>1. i \in 1 .. HDR + Room(c, m) /\ HDR \in Int /\ Got(c, m) \in Int /\ Room(c, m) \in Int
        BY <1>1, <1>8
      <4>2. i - HDR \in 1 .. Room(c, m)
        BY <2>2, <2>6, <4>1
      <4>3. ~(r < HDR) /\ Got(c, m) + (i - HDR) = Got(c, m) + r - HDR + 1
        BY <2>2, <2>4, <2>6, <4>1
      <4> QED
        BY <4>2, <4>3
    <3>2. u[i] = <<c, Got(c, m) + (i - HDR)>>
      BY <1>5, <1>8, <2>6, <3>1
    <3> QED
      BY <2>4, <3>1, <3>2 DEF Byte
  <2> QED
    BY <2>5, <2>6
<1> QED
  BY <1>5, <1>8, <1>9 DEF Slice, u, d

---------------------------------------------------------------------------------
(* The next piece of a file is written behind what is there.                *)
LEMMA WriteOwn ==
  ASSUME NEW c \in TcpSenders, NEW k \in Nat, out \in Seq(Bytes), Written(c, k),
         NEW d \in Seq(Bytes), Len(d) = Room(c, k),
         \A i \in 1 .. Len(d) : d[i] = <<c, Got(c, k) + i>>,
         out' = out \o d
  PROVE  Written(c, k + 1)'
<1>1. /\ Got(c, k) \in Nat /\ Room(c, k) \in Nat /\ Got(c, k + 1) = Got(c, k) + Room(c, k)
      /\ Got(c, k + 1) <= Size[c] /\ Size[c] \in Nat
  <2>1. /\ Got(c, k) \in 0 .. Size[c] /\ Got(c, k + 1) = Got(c, k) + Room(c, k)
        /\ Room(c, k) \in 0 .. MSG
    BY StreamFacts
  <2>2. Got(c, k + 1) \in 0 .. Size[c]
    <3>1. k + 1 \in Nat
      OBVIOUS
    <3> QED
      BY <3>1, StreamFacts
  <2> QED
    BY <2>1, <2>2, TcpAssumption
<1>2. /\ Len(out) \in Nat /\ Len(d) \in Nat /\ DOMAIN out = 1 .. Len(out)
      /\ out' \in Seq(Bytes) /\ Len(out') = Len(out) + Len(d) /\ DOMAIN out' = 1 .. Len(out')
      /\ \A i \in 1 .. Len(out) : out'[i] = out[i]
      /\ \A i \in 1 .. Len(d) : out'[Len(out) + i] = d[i]
  <2>1. /\ out' \in Seq(Bytes) /\ Len(out') = Len(out) + Len(d)
        /\ \A i \in 1 .. Len(out) + Len(d) :
             out'[i] = IF i <= Len(out) THEN out[i] ELSE d[i - Len(out)]
    BY ConcatProperties
  <2> QED
    BY <2>1
<1>3. \A i \in 1 .. Len(d) : out'[Len(out) + i] = <<c, Got(c, k) + i>>
  BY <1>2
<1>4. ASSUME NEW i \in 1 .. Len(out') PROVE i \in 1 .. Len(out) \/ \E h \in 1 .. Len(d) : i = Len(out) + h
  <2>1. CASE i <= Len(out)
    BY <1>2, <2>1
  <2>2. CASE ~(i <= Len(out))
    <3>1. i - Len(out) \in 1 .. Len(d) /\ i = Len(out) + (i - Len(out))
      BY <1>2, <2>2
    <3> QED
      BY <3>1
  <2> QED
    BY <2>1, <2>2
<1>5. ASSUME NEW i \in DOMAIN out', out'[i][1] = c PROVE out'[i][2] \in 1 .. Got(c, k + 1)
  <2>1. CASE i \in 1 .. Len(out)
    <3>1. out'[i][2] \in 1 .. Got(c, k)
      BY <1>2, <1>5, <2>1 DEF Written
    <3> QED
      BY <1>1, <3>1, SMTT(40)
  <2>2. ASSUME NEW h \in 1 .. Len(d), i = Len(out) + h PROVE out'[i][2] \in 1 .. Got(c, k + 1)
    <3>1. out'[i][2] = Got(c, k) + h
      BY <1>3, <2>2
    <3> QED
      BY <1>1, <3>1
  <2> QED
    BY <1>2, <1>4, <2>1, <2>2
<1>6. ASSUME NEW x \in 1 .. Got(c, k + 1) PROVE \E h \in DOMAIN out' : out'[h] = <<c, x>>
  <2>1. CASE x <= Got(c, k)
    <3>1. x \in 1 .. Got(c, k)
      BY <1>1, <2>1
    <3>2. PICK h \in DOMAIN out : out[h] = <<c, x>>
      BY <3>1 DEF Written
    <3>3. h \in DOMAIN out' /\ out'[h] = <<c, x>>
      BY <1>2, <3>2
    <3> QED
      BY <3>3
  <2>2. CASE ~(x <= Got(c, k))
    <3>1. x - Got(c, k) \in 1 .. Len(d) /\ Got(c, k) + (x - Got(c, k)) = x
      BY <1>1, <2>2
    <3>2. Len(out) + (x - Got(c, k)) \in DOMAIN out'
      BY <1>2, <3>1
    <3>3. out'[Len(out) + (x - Got(c, k))] = <<c, x>>
      BY <1>3, <3>1
    <3> QED
      BY <3>2, <3>3
  <2> QED
    BY <2>1, <2>2
<1>7. ASSUME NEW i \in DOMAIN out', out'[i][1] = c
      PROVE  /\ out'[i][2] \in 1 .. Size[c]
             /\ \A h \in 1 .. i - 1 : out'[h][1] = c => out'[h][2] < out'[i][2]
             /\ \A x \in 1 .. out'[i][2] : \E h \in 1 .. i : out'[h] = <<c, x>>
  <2>0. out'[i][2] \in 1 .. Size[c]
    <3>1. out'[i][2] \in 1 .. Got(c, k + 1)
      BY <1>5, <1>7, Zenon
    <3>2. \A x \in 1 .. Got(c, k + 1) : x \in 1 .. Size[c]
      BY <1>1
    <3> QED
      BY <3>1, <3>2, Zenon
  <2>1. CASE i \in 1 .. Len(out)
    <3>1. out'[i] = out[i] /\ \A h \in 1 .. i : h \in 1 .. Len(out) /\ out'[h] = out[h]
      BY <1>2, <2>1
    <3>2. /\ \A h \in 1 .. i - 1 : out[h][1] = c => out[h][2] < out[i][2]
          /\ \A x \in 1 .. out[i][2] : \E h \in 1 .. i : out[h] = <<c, x>>
      BY <1>2, <1>7, <2>1, <3>1 DEF Written, InOrder
    <3>3. \A h \in 1 .. i - 1 : out'[h] = out[h]
      BY <1>2, <2>1, <3>1
    <3> QED
      BY <2>0, <3>1, <3>2, <3>3
  <2>2. ASSUME NEW g \in 1 .. Len(d), i = Len(out) + g
        PROVE  /\ \A h \in 1 .. i - 1 : out'[h][1] = c => out'[h][2] < out'[i][2]
               /\ \A x \in 1 .. out'[i][2] : \E h \in 1 .. i : out'[h] = <<c, x>>
    <3>1. out'[i] = <<c, Got(c, k) + g>> /\ out'[i][2] = Got(c, k) + g
      BY <1>3, <2>2
    <3>2. ASSUME NEW h \in 1 .. i - 1, out'[h][1] = c PROVE out'[h][2] < out'[i][2]
      <4>1. CASE h \in 1 .. Len(out)
        <5>1. out'[h][2] \in 1 .. Got(c, k)
          BY <1>2, <3>2, <4>1 DEF Written
        <5>2. Got(c, k) \in Nat /\ g \in Nat /\ 1 <= g
          BY <1>1, <1>2
        <5>3. \A x \in 1 .. Got(c, k) : x < Got(c, k) + g
          BY <5>2
        <5> QED
          BY <3>1, <5>1, <5>3
      <4>2. CASE ~(h \in 1 .. Len(out))
        <5>1. h - Len(out) \in 1 .. Len(d) /\ h = Len(out) + (h - Len(out)) /\ h - Len(out) < g
          BY <1>2, <2>2, <4>2
        <5>2. out'[h][2] = Got(c, k) + (h - Len(out))
          BY <1>3, <5>1
        <5>3. h - Len(out) \in Int /\ g \in Int /\ Got(c, k) \in Int
          BY <1>1, <1>2, <5>1
        <5> QED
          BY <3>1, <5>1, <5>2, <5>3
      <4> QED
        BY <4>1, <4>2
    <3>3. ASSUME NEW x \in 1 .. out'[i][2] PROVE \E h \in 1 .. i : out'[h] = <<c, x>>
      <4>0. x \in Nat /\ 1 <= x /\ x <= Got(c, k) + g
        BY <1>1, <3>1
      <4>1. CASE x <= Got(c, k)
        <5>1. x \in 1 .. Got(c, k)
          BY <1>1, <4>0, <4>1
        <5>2. PICK h \in DOMAIN out : out[h] = <<c, x>>
          BY <5>1 DEF Written
        <5>3. h \in 1 .. i /\ out'[h] = <<c, x>>
          BY <1>2, <2>2, <5>2
        <5> QED
          BY <5>3
      <4>2. CASE ~(x <= Got(c, k))
        <5> DEFINE y == x - Got(c, k)
        <5>1. y \in 1 .. g /\ Got(c, k) + y = x
          BY <1>1, <4>0, <4>2
        <5> HIDE DEF y
        <5>2. y \in 1 .. Len(d) /\ Len(out) + y \in 1 .. i
          BY <1>2, <2>2, <5>1
        <5>3. out'[Len(out) + y] = <<c, x>>
          BY <1>3, <5>1, <5>2
        <5> QED
          BY <5>2, <5>3
      <4> QED
        BY <4>1, <4>2
    <3> QED
      BY <3>2, <3>3
  <2> QED
    BY <1>2, <1>4, <2>0, <2>1, <2>2
<1> QED
  BY <1>5, <1>6, <1>7 DEF Written, InOrder

(* That of another sender does not disturb it.                              *)
LEMMA WriteOther ==
  ASSUME NEW c \in TcpSenders, NEW k \in Nat, out \in Seq(Bytes), Written(c, k),
         NEW d \in Seq(Bytes), \A i \in 1 .. Len(d) : d[i][1] # c, out' = out \o d
  PROVE  Written(c, k)'
<1>1. /\ Len(out) \in Nat /\ DOMAIN out = 1 .. Len(out)
      /\ DOMAIN out' = 1 .. Len(out') /\ Len(out') \in Nat /\ Len(out) <= Len(out')
      /\ \A i \in 1 .. Len(out) : out'[i] = out[i]
      /\ \A i \in DOMAIN out' : out'[i][1] = c => i \in 1 .. Len(out)
  <2>1. /\ out' \in Seq(Bytes) /\ Len(out') = Len(out) + Len(d)
        /\ \A i \in 1 .. Len(out) + Len(d) :
             out'[i] = IF i <= Len(out) THEN out[i] ELSE d[i - Len(out)]
    BY ConcatProperties
  <2>2. Len(out) \in Nat /\ Len(d) \in Nat /\ DOMAIN out' = 1 .. Len(out')
    BY <2>1
  <2>3. ASSUME NEW i \in DOMAIN out', out'[i][1] = c PROVE i \in 1 .. Len(out)
    <3>1. CASE ~(i <= Len(out))
      <4>1. i - Len(out) \in 1 .. Len(d) /\ out'[i] = d[i - Len(out)]
        BY <2>1, <2>2, <3>1
      <4> QED
        BY <2>3, <4>1
    <3> QED
      BY <2>2, <3>1
  <2> QED
    BY <2>1, <2>2, <2>3
<1>2. \A i \in DOMAIN out' : out'[i][1] = c => out'[i][2] \in 1 .. Got(c, k)
  BY <1>1 DEF Written
<1>3. \A x \in 1 .. Got(c, k) : \E h \in DOMAIN out' : out'[h] = <<c, x>>
  <2> SUFFICES ASSUME NEW x \in 1 .. Got(c, k) PROVE \E h \in DOMAIN out' : out'[h] = <<c, x>>
    OBVIOUS
  <2>1. PICK h \in DOMAIN out : out[h] = <<c, x>>
    BY DEF Written
  <2>2. h \in DOMAIN out' /\ out'[h] = <<c, x>>
    BY <1>1, <2>1
  <2> QED
    BY <2>2
<1>4. ASSUME NEW i \in DOMAIN out', out'[i][1] = c
      PROVE  /\ out'[i][2] \in 1 .. Size[c]
             /\ \A h \in 1 .. i - 1 : out'[h][1] = c => out'[h][2] < out'[i][2]
             /\ \A x \in 1 .. out'[i][2] : \E h \in 1 .. i : out'[h] = <<c, x>>
  <2>1. i \in 1 .. Len(out) /\ out'[i] = out[i]
    BY <1>1, <1>4
  <2>2. (\A h \in 1 .. i : out'[h] = out[h]) /\ (\A h \in 1 .. i - 1 : out'[h] = out[h])
    BY <1>1, <2>1
  <2>3. /\ out[i][2] \in 1 .. Size[c]
        /\ \A h \in 1 .. i - 1 : out[h][1] = c => out[h][2] < out[i][2]
        /\ \A x \in 1 .. out[i][2] : \E h \in 1 .. i : out[h] = <<c, x>>
    BY <1>1, <1>4, <2>1 DEF Written, InOrder
  <2> QED
    BY <2>1, <2>2, <2>3
<1> QED
  BY <1>2, <1>3, <1>4 DEF Written, InOrder

---------------------------------------------------------------------------------
(* Initially nothing has been sent.                                         *)
LEMMA TcpInvInit == TcpInit => TcpInv
<1> SUFFICES ASSUME TcpInit PROVE TcpInv
  OBVIOUS
<1>1. /\ wire = [c \in TcpSenders |-> <<>>] /\ shut = [c \in TcpSenders |-> FALSE] /\ backlog = <<>>
      /\ tn_pc = [c \in TcpSenders |-> "start"] /\ offset = [c \in TcpSenders |-> 0]
      /\ eof = [c \in TcpSenders |-> FALSE] /\ mess_rest = [c \in TcpSenders |-> <<>>]
      /\ tr_pc = "select" /\ socks = <<>> /\ Valid = {} /\ mask = {} /\ rbuf = <<>>
      /\ mess_len = 0 /\ pd = "open" /\ out = <<>>
  BY DEF TcpInit, TcpNetInit, TnInit, TrInit
<1>2. Size \in [TcpSenders -> Nat] /\ HDR \in Nat /\ MSG \in Nat /\ SOCKBUF \in Nat /\ MAXCONN \in Nat
  BY TcpAssumption
<1>3. TcpTypeOK
  BY <1>1, <1>2 DEF TcpTypeOK, TcpNetTypeOK, TnTypeOK, TrTypeOK
<1>4. Typed /\ ConnectsOnce
  BY <1>1, <1>3 DEF Typed, ConnectsOnce
<1>5. ASSUME NEW c \in TcpSenders PROVE Ended(c) /\ Track(c)
  <2>1. Got(c, 0) = 0 /\ Start(c, 0) = 0 /\ 0 * MSG = 0
    BY <1>2, StreamFacts, Products
  <2>2. Position(c, 0) = 0
    BY <1>1, <2>1 DEF Position
  <2>3. Composed(c, 0) /\ Sent(c, 0)
    BY <1>1, <2>1, <2>2, SliceEmpty DEF Composed, Sent
  <2>4. Written(c, 0)
    BY <1>1, <2>1 DEF Written, InOrder
  <2>5. Reading(c, 0, 0) /\ Finished(c, 0)
    BY <1>1, <2>1, <2>2 DEF Reading, Finished, Current, Open
  <2> QED
    BY <1>1, <2>3, <2>4, <2>5 DEF Track, Ended
<1> QED
  BY <1>4, <1>5 DEF TcpInv

(* A step that leaves t_rcv and the place it has read up to alone.          *)
LEMMA SenderTrack ==
  ASSUME NEW c \in TcpSenders, NEW m \in Nat, NEW n \in Nat, NEW k \in Nat,
         Written(c, k), Reading(c, m, k), UNCHANGED trVars,
         Position(c, n)' = Position(c, m), Composed(c, n)', Sent(c, n)', Finished(c, k)'
  PROVE  Track(c)'
<1>1. UNCHANGED <<tr_pc, socks, Valid, mask, rbuf, mess_len, pd, out>>
  BY DEF trVars
<1>2. Written(c, k)'
  BY <1>1 DEF Written, InOrder
<1>3. /\ Current(c)' <=> Current(c)
      /\ Open(c)' <=> Open(c)
  BY <1>1 DEF Current, Conn, j, Open
<1>4. Reading(c, n, k)'
  BY <1>1, <1>3 DEF Reading, ReadingLength, ReadingData, Slice
<1> QED
  BY <1>2, <1>4 DEF Track

(* The senders that do not take the step.                                   *)
LEMMA SenderOther ==
  ASSUME NEW c \in TcpSenders, Track(c), Ended(c), UNCHANGED trVars,
         wire'[c] = wire[c], mess_rest'[c] = mess_rest[c], offset'[c] = offset[c],
         eof'[c] = eof[c], shut'[c] = shut[c], tn_pc'[c] = tn_pc[c]
  PROVE  Ended(c)' /\ Track(c)'
<1>1. PICK m \in Nat, k \in Nat :
        Composed(c, m) /\ Sent(c, m) /\ Written(c, k) /\ Reading(c, m, k) /\ Finished(c, k)
  BY DEF Track
<1>2. Position(c, m)' = Position(c, m)
  BY DEF Position
<1>3. Composed(c, m)' /\ Sent(c, m)'
  BY <1>1, <1>2 DEF Composed, Sent
<1>4. Finished(c, k)'
  BY <1>1 DEF Finished, Open, trVars
<1>5. Track(c)'
  BY <1>1, <1>2, <1>3, <1>4, SenderTrack
<1> QED
  BY <1>5 DEF Ended

(* Connecting: the sender is queued, once.                                  *)
LEMMA ConnectKeeps == TcpInv /\ Connect => TcpInv'
<1> SUFFICES ASSUME TcpInv, NEW a \in TcpSenders, TnConnect(a), UNCHANGED trVars PROVE TcpInv'
  BY DEF Connect
<1>1. /\ tn_pc[a] = "start" /\ tn_pc' = [tn_pc EXCEPT ![a] = "run"]
      /\ backlog' = Append(backlog, a) /\ UNCHANGED <<offset, eof, mess_rest, wire, shut>>
      /\ UNCHANGED <<tr_pc, socks, Valid, mask, rbuf, mess_len, pd, out>>
  BY DEF TnConnect, trVars
<1>2. /\ tn_pc \in [TcpSenders -> {"start", "run", "exit", "killed"}]
      /\ backlog \in Seq(TcpSenders) /\ socks \in Seq(TcpSenders)
  BY DEF TcpInv, Typed, TcpTypeOK, TnTypeOK, TcpNetTypeOK, TrTypeOK
<1>3. /\ tn_pc' \in [TcpSenders -> {"start", "run", "exit", "killed"}]
      /\ tn_pc'[a] = "run" /\ \A c \in TcpSenders : c # a => tn_pc'[c] = tn_pc[c]
  BY <1>1, <1>2
<1>4. /\ backlog' \in Seq(TcpSenders) /\ Len(backlog') = Len(backlog) + 1
      /\ backlog'[Len(backlog) + 1] = a /\ \A i \in 1 .. Len(backlog) : backlog'[i] = backlog[i]
      /\ DOMAIN backlog = 1 .. Len(backlog) /\ DOMAIN backlog' = 1 .. Len(backlog) + 1
      /\ Len(backlog) \in Nat
  BY <1>1, <1>2
<1>5. TcpTypeOK'
  BY <1>1, <1>3, <1>4 DEF TcpInv, Typed, TcpTypeOK, TnTypeOK, TcpNetTypeOK, TrTypeOK
<1>6. Typed'
  BY <1>1, <1>5 DEF TcpInv, Typed
<1>7. ConnectsOnce'
  <2>1. /\ \A i \in DOMAIN socks : socks[i] # a
        /\ \A i \in DOMAIN backlog : backlog[i] # a
    BY <1>1 DEF TcpInv, ConnectsOnce
  <2>2. \A i \in DOMAIN backlog' : i = Len(backlog) + 1 \/ (i \in DOMAIN backlog /\ backlog'[i] = backlog[i])
    BY <1>4
  <2>3. \A i, h \in DOMAIN backlog' : backlog'[i] = backlog'[h] => i = h
    BY <1>4, <2>1, <2>2 DEF TcpInv, ConnectsOnce
  <2>4. \A i \in DOMAIN socks', h \in DOMAIN backlog' : socks'[i] # backlog'[h]
    BY <1>1, <1>4, <2>1, <2>2 DEF TcpInv, ConnectsOnce
  <2>5. \A h \in DOMAIN backlog' : tn_pc'[backlog'[h]] # "start"
    BY <1>2, <1>3, <1>4, <2>1, <2>2 DEF TcpInv, ConnectsOnce
  <2>6. /\ \A i, h \in DOMAIN socks' : socks'[i] = socks'[h] => i = h
        /\ \A i \in DOMAIN socks' : tn_pc'[socks'[i]] # "start"
    BY <1>1, <1>2, <1>3, <2>1 DEF TcpInv, ConnectsOnce
  <2> QED
    BY <2>3, <2>4, <2>5, <2>6 DEF ConnectsOnce
<1>8. ASSUME NEW c \in TcpSenders PROVE Ended(c)' /\ Track(c)'
  <2>0. Ended(c) /\ Track(c)
    BY DEF TcpInv
  <2>1. CASE c # a
    BY <1>1, <1>3, <2>0, <2>1, SenderOther
  <2>2. CASE c = a
    <3>1. PICK m \in Nat, k \in Nat :
            Composed(c, m) /\ Sent(c, m) /\ Written(c, k) /\ Reading(c, m, k) /\ Finished(c, k)
      BY <2>0 DEF Track
    <3>2. Position(c, m)' = Position(c, m)
      BY <1>1 DEF Position
    <3>3. Composed(c, m)' /\ Sent(c, m)'
      BY <1>1, <3>1, <3>2 DEF Composed, Sent
    <3>4. Finished(c, k)'
      BY <1>1, <1>3, <2>2, <3>1 DEF Finished, Open
    <3>5. Track(c)'
      BY <3>1, <3>2, <3>3, <3>4, SenderTrack
    <3>6. Ended(c)'
      BY <1>1, <1>3, <2>0, <2>2 DEF Ended
    <3> QED
      BY <3>5, <3>6
  <2> QED
    BY <2>1, <2>2
<1> QED
  BY <1>6, <1>7, <1>8 DEF TcpInv

(* Reading the next piece makes the next message of the stream.             *)
LEMMA ReadKeeps == TcpInv /\ Read => TcpInv'
<1> SUFFICES ASSUME TcpInv, NEW a \in TcpSenders, TnRead(a), UNCHANGED trVars PROVE TcpInv'
  BY DEF Read
<1>1. /\ tn_pc[a] = "run" /\ mess_rest[a] = <<>> /\ ~eof[a]
      /\ mess_rest' = [mess_rest EXCEPT ![a] = Message(Piece(a))]
      /\ offset' = [offset EXCEPT ![a] = @ + Len(Piece(a))]
      /\ eof' = [eof EXCEPT ![a] = AtEof(a)]
      /\ UNCHANGED <<tn_pc, wire, shut, backlog>>
      /\ UNCHANGED <<tr_pc, socks, Valid, mask, rbuf, mess_len, pd, out>>
  BY DEF TnRead, trVars, tcpNetVars
<1>2. /\ DOMAIN offset = TcpSenders /\ eof \in [TcpSenders -> BOOLEAN]
      /\ mess_rest \in [TcpSenders -> Seq(Bytes)]
      /\ \A c \in TcpSenders : offset[c] \in 0 .. Size[c] /\ Len(mess_rest[c]) <= HDR + MSG
  BY DEF TcpInv, Typed, TcpTypeOK, TnTypeOK
<1>3. PICK m \in Nat, k \in Nat :
        Composed(a, m) /\ Sent(a, m) /\ Written(a, k) /\ Reading(a, m, k) /\ Finished(a, k)
  BY DEF TcpInv, Track
<1>4. offset[a] = Got(a, m) /\ Got(a, m) = m * MSG
  BY <1>1, <1>3 DEF Composed
<1>5. Min({offset[a] + MSG, Size[a]}) = Got(a, m + 1)
  BY <1>4, PieceEnd
<1>6. /\ Slice(Message(Piece(a)), a, Start(a, m)) /\ Len(Message(Piece(a))) = HDR + Room(a, m)
      /\ Len(Piece(a)) = Room(a, m)
  BY <1>4, <1>5, SliceMessage
<1>7. /\ Got(a, m) \in 0 .. Size[a] /\ Room(a, m) \in 0 .. MSG /\ Start(a, m) \in Nat
      /\ Got(a, m + 1) = Got(a, m) + Room(a, m)
      /\ Start(a, m + 1) = Start(a, m) + HDR + Room(a, m)
      /\ Room(a, m) < MSG => Got(a, m + 1) = Size[a]
      /\ Got(a, m) = m * MSG /\ Room(a, m) = MSG => Got(a, m + 1) = (m + 1) * MSG
  BY StreamFacts
<1>8. Got(a, m + 1) \in 0 .. Size[a] /\ HDR \in Nat /\ MSG \in Nat /\ Size[a] \in Nat /\ m + 1 \in Nat
  <2>1. m + 1 \in Nat
    OBVIOUS
  <2> QED
    BY <2>1, StreamFacts, TcpAssumption
<1>9. /\ mess_rest' \in [TcpSenders -> Seq(Bytes)] /\ mess_rest'[a] = Message(Piece(a))
      /\ \A c \in TcpSenders : c # a => mess_rest'[c] = mess_rest[c]
  BY <1>1, <1>2, <1>6 DEF Slice
<1>10. /\ DOMAIN offset' = TcpSenders /\ offset'[a] = Got(a, m + 1)
       /\ \A c \in TcpSenders : c # a => offset'[c] = offset[c]
  BY <1>1, <1>2, <1>4, <1>6, <1>7
<1>11. AtEof(a) \in BOOLEAN /\ (AtEof(a) <=> Room(a, m) < MSG)
  BY <1>6 DEF AtEof
<1>12. /\ eof' \in [TcpSenders -> BOOLEAN] /\ eof'[a] = AtEof(a)
       /\ \A c \in TcpSenders : c # a => eof'[c] = eof[c]
  BY <1>1, <1>2, <1>11
<1>13. Typed'
  <2>1. \A c \in TcpSenders : Len(mess_rest'[c]) <= HDR + MSG
    <3>1. Len(mess_rest'[a]) <= HDR + MSG
      BY <1>6, <1>7, <1>8, <1>9
    <3> QED
      BY <1>2, <1>9, <3>1
  <2>2. \A c \in TcpSenders : offset'[c] \in 0 .. Size[c]
    BY <1>2, <1>8, <1>10
  <2>3. TnTypeOK'
    BY <1>1, <1>9, <1>10, <1>12, <2>1, <2>2 DEF TcpInv, Typed, TcpTypeOK, TnTypeOK
  <2>4. TcpNetTypeOK' /\ TrTypeOK'
    BY <1>1 DEF TcpInv, Typed, TcpTypeOK, TcpNetTypeOK, TrTypeOK
  <2> QED
    BY <1>1, <1>9, <2>3, <2>4 DEF TcpInv, Typed, TcpTypeOK
<1>14. ConnectsOnce'
  BY <1>1 DEF TcpInv, ConnectsOnce
<1>15. ASSUME NEW c \in TcpSenders PROVE Ended(c)' /\ Track(c)'
  <2>0. Ended(c) /\ Track(c)
    BY DEF TcpInv
  <2>1. CASE c # a
    BY <1>1, <1>9, <1>10, <1>12, <2>0, <2>1, SenderOther
  <2>2. CASE c = a
    <3>1. Len(wire[a]) \in Nat /\ Len(mess_rest[a]) = 0
      BY <1>1 DEF TcpInv, Typed
    <3>2. Position(a, m) = Start(a, m) - Len(wire[a])
      BY <1>7, <3>1 DEF Position
    <3>3. Position(a, m + 1)' = Position(a, m)
      BY <1>1, <1>6, <1>7, <1>8, <1>9, <3>1, <3>2, SMTT(40) DEF Position
    <3>4. Composed(a, m + 1)'
      <4>1. AtEof(a) => Got(a, m + 1) = Size[a]
        BY <1>7, <1>11
      <4>2. ~AtEof(a) => Got(a, m + 1) = (m + 1) * MSG
        BY <1>4, <1>7, <1>8, <1>11
      <4> QED
        BY <1>10, <1>12, <4>1, <4>2 DEF Composed
    <3>5. Sent(a, m + 1)'
      <4>1. Position(a, m) + Len(wire[a]) = Start(a, m)
        BY <1>7, <3>1, <3>2
      <4> QED
        BY <1>1, <1>3, <1>6, <1>9, <3>3, <4>1 DEF Sent
    <3>6. Finished(a, k)'
      BY <1>1, <1>3 DEF Finished, Open
    <3>7. Track(a)'
      BY <1>3, <1>8, <3>3, <3>4, <3>5, <3>6, SenderTrack
    <3>8. Ended(a)'
      BY <1>1, <2>0, <2>2 DEF Ended
    <3> QED
      BY <2>2, <3>7, <3>8
  <2> QED
    BY <2>1, <2>2
<1> QED
  BY <1>13, <1>14, <1>15 DEF TcpInv

(* A call of send moves a part of the message.                              *)
LEMMA SendKeeps == TcpInv /\ Send => TcpInv'
<1> SUFFICES ASSUME TcpInv, NEW a \in TcpSenders, TnSend(a), UNCHANGED trVars PROVE TcpInv'
  BY DEF Send
<1>1. PICK n \in 1 .. Len(mess_rest[a]) :
        /\ tn_pc[a] = "run" /\ Len(wire[a]) + n <= SOCKBUF
        /\ wire' = [wire EXCEPT ![a] = @ \o SubSeq(mess_rest[a], 1, n)]
        /\ mess_rest' = [mess_rest EXCEPT ![a] = Unsent(a, n)]
  BY DEF TnSend
<1>2. /\ UNCHANGED <<tn_pc, offset, eof, shut, backlog>>
      /\ UNCHANGED <<tr_pc, socks, Valid, mask, rbuf, mess_len, pd, out>>
  BY DEF TnSend, trVars
<1>3. /\ wire \in [TcpSenders -> Seq(Bytes)] /\ mess_rest \in [TcpSenders -> Seq(Bytes)]
      /\ \A c \in TcpSenders : Len(wire[c]) <= SOCKBUF /\ Len(mess_rest[c]) <= HDR + MSG
  BY DEF TcpInv, Typed, TcpTypeOK, TnTypeOK, TcpNetTypeOK
<1>4. PICK m \in Nat, k \in Nat :
        Composed(a, m) /\ Sent(a, m) /\ Written(a, k) /\ Reading(a, m, k) /\ Finished(a, k)
  BY DEF TcpInv, Track
<1> DEFINE p == Position(a, m)
           w == wire[a]
           u == SubSeq(mess_rest[a], 1, n)
           v == SubSeq(mess_rest[a], n + 1, Len(mess_rest[a]))
<1>5. /\ p \in Nat /\ Len(w) \in Nat /\ Len(mess_rest[a]) \in Nat /\ n \in 0 .. Len(mess_rest[a])
      /\ Slice(w, a, p) /\ Slice(mess_rest[a], a, p + Len(w)) /\ p + Len(w) \in Nat
      /\ Start(a, m) \in Nat /\ p = Start(a, m) - Len(w) - Len(mess_rest[a])
  <2>1. Start(a, m) \in Nat
    BY StreamFacts
  <2>2. p \in Nat /\ Slice(w, a, p) /\ Slice(mess_rest[a], a, p + Len(w))
    BY <1>4 DEF Sent
  <2>3. Len(w) \in Nat /\ Len(mess_rest[a]) \in Nat /\ n \in 0 .. Len(mess_rest[a])
    BY <1>3
  <2> QED
    BY <2>1, <2>2, <2>3 DEF Position
<1>6. /\ Slice(u, a, p + Len(w)) /\ Len(u) = n /\ Slice(v, a, p + Len(w) + n)
      /\ Len(v) = Len(mess_rest[a]) - n
  BY <1>5, SliceCut, SMTT(40)
<1>7. wire'[a] = w \o u /\ mess_rest'[a] = v
  BY <1>1, <1>3 DEF Unsent
<1>8. Slice(w \o u, a, p) /\ Len(w \o u) = Len(w) + n
  <2>1. Slice(w \o u, a, p) /\ Len(w \o u) = Len(w) + Len(u)
    <3>1. p \in Nat /\ Slice(w, a, p) /\ Slice(u, a, p + Len(w))
      BY <1>5, <1>6
    <3> QED
      BY <3>1, SliceJoin
  <2> QED
    BY <1>6, <2>1
<1> HIDE DEF p, w, u, v
<1>9. /\ wire' \in [TcpSenders -> Seq(Bytes)] /\ mess_rest' \in [TcpSenders -> Seq(Bytes)]
      /\ \A c \in TcpSenders : c # a => wire'[c] = wire[c] /\ mess_rest'[c] = mess_rest[c]
  <2>1. w \o u \in Seq(Bytes) /\ v \in Seq(Bytes)
    BY <1>6, <1>8 DEF Slice
  <2>2. w = wire[a] /\ u = SubSeq(mess_rest[a], 1, n) /\ v = Unsent(a, n)
    BY DEF w, u, v, Unsent
  <2> QED
    BY <1>1, <1>3, <2>1, <2>2
<1>10. Typed'
  <2>1. Len(wire'[a]) <= SOCKBUF /\ Len(mess_rest'[a]) <= HDR + MSG
    <3>1. Len(wire'[a]) = Len(w) + n /\ Len(w) + n <= SOCKBUF
      BY <1>1, <1>7, <1>8 DEF w
    <3>2. Len(mess_rest'[a]) = Len(mess_rest[a]) - n /\ Len(mess_rest[a]) <= HDR + MSG
          /\ HDR + MSG \in Int
      BY <1>3, <1>6, <1>7, TcpAssumption
    <3>3. Len(mess_rest[a]) - n <= Len(mess_rest[a]) /\ Len(mess_rest[a]) - n \in Int
      BY <1>5
    <3> QED
      BY <1>5, <3>1, <3>2, <3>3, SMTT(40)
  <2>2. \A c \in TcpSenders : Len(wire'[c]) <= SOCKBUF /\ Len(mess_rest'[c]) <= HDR + MSG
    BY <1>3, <1>9, <2>1
  <2>3. TcpNetTypeOK' /\ TnTypeOK'
    BY <1>2, <1>9, <2>2 DEF TcpInv, Typed, TcpTypeOK, TcpNetTypeOK, TnTypeOK
  <2>4. TrTypeOK'
    BY <1>2 DEF TcpInv, Typed, TcpTypeOK, TrTypeOK
  <2> QED
    BY <1>2, <1>9, <2>3, <2>4 DEF TcpInv, Typed, TcpTypeOK
<1>11. ConnectsOnce'
  BY <1>2 DEF TcpInv, ConnectsOnce
<1>12. ASSUME NEW c \in TcpSenders PROVE Ended(c)' /\ Track(c)'
  <2>0. Ended(c) /\ Track(c)
    BY DEF TcpInv
  <2>1. CASE c # a
    BY <1>2, <1>9, <2>0, <2>1, SenderOther
  <2>2. CASE c = a
    <3>1. Position(a, m)' = p
      <4>1. Position(a, m)' = Start(a, m) - Len(wire'[a]) - Len(mess_rest'[a])
        BY DEF Position
      <4>2. Len(wire'[a]) = Len(w) + n /\ Len(mess_rest'[a]) = Len(mess_rest[a]) - n
        BY <1>6, <1>7, <1>8
      <4>3. \A x, y, z \in Int : x - (y + n) - (z - n) = x - y - z
        OBVIOUS
      <4>4. Start(a, m) \in Int /\ Len(w) \in Int /\ Len(mess_rest[a]) \in Int
        BY <1>5
      <4>5. p = Start(a, m) - Len(w) - Len(mess_rest[a])
        BY <1>5
      <4>6. Start(a, m) - (Len(w) + n) - (Len(mess_rest[a]) - n)
              = Start(a, m) - Len(w) - Len(mess_rest[a])
        BY <4>3, <4>4, Zenon
      <4>7. Position(a, m)' = Start(a, m) - (Len(w) + n) - (Len(mess_rest[a]) - n)
        BY <4>1, <4>2, Zenon
      <4> QED
        BY <4>5, <4>6, <4>7, Zenon
    <3>2. Composed(a, m)'
      BY <1>2, <1>4 DEF Composed
    <3>3. Sent(a, m)'
      <4>1. p + Len(w) + n = p + Len(wire'[a])
        BY <1>5, <1>7, <1>8
      <4> QED
        BY <1>5, <1>6, <1>7, <1>8, <3>1, <4>1 DEF Sent
    <3>4. Finished(a, k)'
      BY <1>2, <1>4 DEF Finished, Open
    <3>5. Track(a)'
      BY <1>4, <3>1, <3>2, <3>3, <3>4, SenderTrack DEF p
    <3>6. Ended(a)'
      BY <1>1, <1>2, <2>0, <2>2 DEF Ended
    <3> QED
      BY <2>2, <3>5, <3>6
  <2> QED
    BY <2>1, <2>2
<1> QED
  BY <1>10, <1>11, <1>12 DEF TcpInv

(* A sender ends, by itself or not.                                         *)
LEMMA EndKeeps == TcpInv /\ (Finish \/ Killed) => TcpInv'
<1> SUFFICES ASSUME TcpInv, NEW a \in TcpSenders, TnFinish(a) \/ TnKilled(a), UNCHANGED trVars
             PROVE  TcpInv'
  BY DEF Finish, Killed
<1>1. PICK e \in {"exit", "killed"} :
        /\ tn_pc[a] = "run" /\ tn_pc' = [tn_pc EXCEPT ![a] = e]
        /\ e = "exit" => mess_rest[a] = <<>> /\ eof[a]
  BY DEF TnFinish, TnKilled
<1>2. /\ shut' = [shut EXCEPT ![a] = TRUE] /\ UNCHANGED <<offset, eof, mess_rest, wire, backlog>>
      /\ UNCHANGED <<tr_pc, socks, Valid, mask, rbuf, mess_len, pd, out>>
  BY DEF TnFinish, TnKilled, trVars
<1>3. /\ tn_pc \in [TcpSenders -> {"start", "run", "exit", "killed"}]
      /\ shut \in [TcpSenders -> BOOLEAN]
      /\ backlog \in Seq(TcpSenders) /\ socks \in Seq(TcpSenders)
  BY DEF TcpInv, Typed, TcpTypeOK, TnTypeOK, TcpNetTypeOK, TrTypeOK
<1>4. /\ tn_pc' \in [TcpSenders -> {"start", "run", "exit", "killed"}]
      /\ shut' \in [TcpSenders -> BOOLEAN] /\ tn_pc'[a] = e /\ shut'[a] = TRUE
      /\ \A c \in TcpSenders : c # a => tn_pc'[c] = tn_pc[c] /\ shut'[c] = shut[c]
  BY <1>1, <1>2, <1>3
<1>5. Typed'
  BY <1>2, <1>4 DEF TcpInv, Typed, TcpTypeOK, TnTypeOK, TcpNetTypeOK, TrTypeOK
<1>6. ConnectsOnce'
  <2>1. \A c \in TcpSenders : tn_pc[c] # "start" => tn_pc'[c] # "start"
    BY <1>1, <1>4
  <2>2. /\ \A i \in DOMAIN socks : socks[i] \in TcpSenders
        /\ \A i \in DOMAIN backlog : backlog[i] \in TcpSenders
    BY <1>3
  <2> QED
    BY <1>2, <2>1, <2>2 DEF TcpInv, ConnectsOnce
<1>7. ASSUME NEW c \in TcpSenders PROVE Ended(c)' /\ Track(c)'
  <2>0. Ended(c) /\ Track(c)
    BY DEF TcpInv
  <2>1. CASE c # a
    BY <1>2, <1>4, <2>0, <2>1, SenderOther
  <2>2. CASE c = a
    <3>1. PICK m \in Nat, k \in Nat :
            Composed(c, m) /\ Sent(c, m) /\ Written(c, k) /\ Reading(c, m, k) /\ Finished(c, k)
      BY <2>0 DEF Track
    <3>2. Position(c, m)' = Position(c, m)
      BY <1>2 DEF Position
    <3>3. Composed(c, m)' /\ Sent(c, m)'
      BY <1>2, <3>1, <3>2 DEF Composed, Sent
    <3>4. Open(c)
      BY <1>1, <2>0, <2>2, <3>1 DEF Finished, Ended
    <3>5. Finished(c, k)'
      BY <1>2, <3>4 DEF Finished, Open
    <3>6. Track(c)'
      BY <3>1, <3>2, <3>3, <3>5, SenderTrack
    <3>7. Ended(c)'
      BY <1>1, <1>2, <1>4, <2>2 DEF Ended
    <3> QED
      BY <3>6, <3>7
  <2> QED
    BY <2>1, <2>2
<1> QED
  BY <1>5, <1>6, <1>7 DEF TcpInv

---------------------------------------------------------------------------------
(* Connections of the receiver.                                             *)
LEMMA ConnFacts ==
  ASSUME Typed, mask # {}
  PROVE  j \in mask /\ j \in Valid /\ j \in DOMAIN socks /\ Conn \in TcpSenders
<1>1. mask \subseteq Valid /\ Valid \subseteq DOMAIN socks /\ socks \in Seq(TcpSenders)
  BY DEF Typed, TcpTypeOK, TrTypeOK
<1>2. mask \in SUBSET Nat
  BY <1>1
<1>3. j = First(mask)
  BY DEF j, First
<1>4. j \in mask
  BY <1>2, <1>3, FirstIn
<1> QED
  BY <1>1, <1>4 DEF Conn

(* A connection that is not being read, before or after the step: a pass    *)
(* begins each one with an empty buffer.                                    *)
LEMMA Waits ==
  ASSUME NEW c \in TcpSenders, NEW m \in Nat, NEW k \in Nat,
         Composed(c, m), Sent(c, m), Reading(c, m, k), Finished(c, k),
         ~Current(c), tr_pc # "undefined", UNCHANGED <<tnVars, shut>>, wire'[c] = wire[c],
         Written(c, k)', Open(c)' <=> Open(c),
         Current(c)' => Open(c) /\ tr_pc' # "data" /\ rbuf' = <<>>
  PROVE  Track(c)'
<1>1. UNCHANGED <<tn_pc, offset, eof, mess_rest, shut>>
  BY DEF tnVars
<1>2. Position(c, m)' = Position(c, m)
  BY <1>1 DEF Position
<1>3. Composed(c, m)' /\ Sent(c, m)'
  BY <1>1, <1>2 DEF Composed, Sent
<1>4. Finished(c, k)'
  BY <1>1 DEF Finished
<1>5. Open(c) => Position(c, m) = Start(c, k)
  BY DEF Reading
<1>6. ASSUME Current(c)', tr_pc' = "len" PROVE ReadingLength(c, m, k)'
  <2>1. /\ rbuf' = <<>> /\ Len(rbuf') = 0 /\ Position(c, m)' = Start(c, k) /\ Start(c, k) \in Nat
        /\ HDR \in Nat \ {0}
    BY <1>2, <1>5, <1>6, StreamFacts, TcpAssumption
  <2> QED
    BY <2>1, SliceEmpty DEF ReadingLength
<1>7. Reading(c, m, k)'
  BY <1>2, <1>5, <1>6 DEF Reading
<1> QED
  BY <1>3, <1>4, <1>7 DEF Track

(* What a step of t_rcv leaves alone.                                       *)
LEMMA EndedKept ==
  ASSUME NEW c \in TcpSenders, Ended(c), UNCHANGED <<tnVars, shut>>
  PROVE  Ended(c)'
BY DEF Ended, tnVars

(* select and accept.                                                       *)
LEMMA SelectKeeps == TcpInv /\ Select => TcpInv'
<1> SUFFICES ASSUME TcpInv, TrSelect, UNCHANGED tnVars PROVE TcpInv'
  BY DEF Select
<1> DEFINE ready == {i \in Valid : Readable(i)}
<1>1. /\ tr_pc = "select" /\ mask' = ready /\ rbuf' = <<>>
      /\ tr_pc' = IF ready = {} THEN "select" ELSE "len"
      /\ UNCHANGED <<mess_len, pd, out, wire, shut>>
  BY DEF TrSelect, ReadNext
<1>2. \/ /\ backlog # <<>> /\ Len(socks) < MAXCONN
         /\ socks' = Append(socks, Head(backlog)) /\ Valid' = Valid \cup {Len(socks) + 1}
         /\ backlog' = Tail(backlog)
      \/ UNCHANGED <<socks, Valid, backlog>>
  BY DEF TrSelect
<1>3. UNCHANGED <<tn_pc, offset, eof, mess_rest>>
  BY DEF tnVars
<1>4. ready \subseteq Valid
  OBVIOUS
<1> HIDE DEF ready
<1>5. /\ mask = {} /\ mask \subseteq Valid /\ Valid \subseteq DOMAIN socks
      /\ socks \in Seq(TcpSenders) /\ Len(socks) <= MAXCONN /\ backlog \in Seq(TcpSenders)
      /\ HDR \in Nat /\ MSG \in Nat /\ MAXCONN \in Nat
      /\ DOMAIN socks = 1 .. Len(socks) /\ Len(socks) \in Nat
  BY <1>1, TcpAssumption DEF TcpInv, Typed, TcpTypeOK, TrTypeOK, TcpNetTypeOK
<1>6. /\ socks' \in Seq(TcpSenders) /\ Len(socks') <= MAXCONN /\ backlog' \in Seq(TcpSenders)
      /\ Valid' \subseteq DOMAIN socks' /\ Valid \subseteq Valid'
      /\ DOMAIN socks \subseteq DOMAIN socks' /\ \A i \in DOMAIN socks : socks'[i] = socks[i]
      /\ \A i \in DOMAIN socks : i \in Valid' => i \in Valid
      /\ \A i \in DOMAIN socks' : i \notin DOMAIN socks =>
           i = Len(socks) + 1 /\ i \in Valid' /\ backlog # <<>> /\ socks'[i] = Head(backlog)
  <2>1. CASE UNCHANGED <<socks, Valid, backlog>>
    BY <1>5, <2>1
  <2>2. CASE /\ backlog # <<>> /\ Len(socks) < MAXCONN
             /\ socks' = Append(socks, Head(backlog)) /\ Valid' = Valid \cup {Len(socks) + 1}
             /\ backlog' = Tail(backlog)
    <3>1. Head(backlog) \in TcpSenders /\ Tail(backlog) \in Seq(TcpSenders)
      BY <1>5, <2>2
    <3>2. /\ socks' \in Seq(TcpSenders) /\ Len(socks') = Len(socks) + 1
          /\ DOMAIN socks' = 1 .. Len(socks) + 1 /\ socks'[Len(socks) + 1] = Head(backlog)
          /\ \A i \in 1 .. Len(socks) : socks'[i] = socks[i]
      BY <1>5, <2>2, <3>1
    <3>3. \A i \in DOMAIN socks' : i \notin DOMAIN socks => i = Len(socks) + 1
      BY <1>5, <3>2
    <3>4. Len(socks) + 1 \notin DOMAIN socks /\ Len(socks') <= MAXCONN
      BY <1>5, <2>2, <3>2
    <3> QED
      BY <1>5, <2>2, <3>1, <3>2, <3>3, <3>4
  <2> QED
    BY <1>2, <2>1, <2>2
<1>7. Typed'
  <2>1. TrTypeOK'
    <3>1. Len(rbuf') <= HDR + MSG
      BY <1>1, <1>5
    <3>2. mask' = {} <=> tr_pc' \in {"select", "undefined"}
      BY <1>1
    <3>3. mask' \subseteq Valid'
      BY <1>1, <1>4, <1>6
    <3> QED
      BY <1>1, <1>6, <3>1, <3>2, <3>3 DEF TcpInv, Typed, TcpTypeOK, TrTypeOK
  <2>2. TcpNetTypeOK' /\ TnTypeOK'
    BY <1>1, <1>3, <1>6 DEF TcpInv, Typed, TcpTypeOK, TcpNetTypeOK, TnTypeOK
  <2> QED
    BY <1>1, <1>3, <2>1, <2>2 DEF TcpInv, Typed, TcpTypeOK
<1>8. ConnectsOnce'
  <2>1. ConnectsOnce
    BY DEF TcpInv
  <2>2. CASE UNCHANGED <<socks, Valid, backlog>>
    BY <1>3, <2>1, <2>2 DEF ConnectsOnce
  <2>3. CASE /\ backlog # <<>> /\ Len(socks) < MAXCONN
             /\ socks' = Append(socks, Head(backlog)) /\ Valid' = Valid \cup {Len(socks) + 1}
             /\ backlog' = Tail(backlog)
    <3>1. /\ 1 \in DOMAIN backlog /\ Head(backlog) = backlog[1]
          /\ \A h \in DOMAIN backlog' : /\ h + 1 \in DOMAIN backlog /\ h + 1 # 1 /\ h \in Int
                                        /\ backlog'[h] = backlog[h + 1]
      BY <1>5, <2>3
    <3>2. \A i \in DOMAIN socks' : \/ i \in DOMAIN socks /\ socks'[i] = socks[i]
                                   \/ i = Len(socks) + 1 /\ socks'[i] = backlog[1]
      BY <1>6, <3>1
    <3>3. \A i, h \in DOMAIN socks' : socks'[i] = socks'[h] => i = h
      BY <2>1, <3>1, <3>2 DEF ConnectsOnce
    <3>4. \A i, h \in DOMAIN backlog' : backlog'[i] = backlog'[h] => i = h
      <4> SUFFICES ASSUME NEW i \in DOMAIN backlog', NEW h \in DOMAIN backlog', backlog'[i] = backlog'[h]
                   PROVE  i = h
        OBVIOUS
      <4>1. i + 1 = h + 1 /\ i \in Int /\ h \in Int
        BY <2>1, <3>1 DEF ConnectsOnce
      <4> QED
        BY <4>1
    <3>5. \A i \in DOMAIN socks', h \in DOMAIN backlog' : socks'[i] # backlog'[h]
      BY <2>1, <3>1, <3>2 DEF ConnectsOnce
    <3>6. \A i \in DOMAIN socks' : tn_pc[socks'[i]] # "start"
      BY <2>1, <3>1, <3>2 DEF ConnectsOnce
    <3>7. \A h \in DOMAIN backlog' : tn_pc[backlog'[h]] # "start"
      BY <2>1, <3>1 DEF ConnectsOnce
    <3> QED
      BY <1>3, <3>3, <3>4, <3>5, <3>6, <3>7 DEF ConnectsOnce
  <2> QED
    BY <1>2, <2>2, <2>3
<1>9. ASSUME NEW c \in TcpSenders PROVE Ended(c)' /\ Track(c)'
  <2>0. Ended(c) /\ Track(c)
    BY DEF TcpInv
  <2>1. PICK m \in Nat, k \in Nat :
          Composed(c, m) /\ Sent(c, m) /\ Written(c, k) /\ Reading(c, m, k) /\ Finished(c, k)
    BY <2>0 DEF Track
  <2>2. ~Current(c) /\ tr_pc # "undefined"
    BY <1>1, <1>5 DEF Current
  <2>3. Written(c, k)'
    BY <1>1, <2>1 DEF Written, InOrder
  <2>4. Open(c)' <=> Open(c)
    BY <1>6 DEF Open
  <2>5. ASSUME Current(c)' PROVE Open(c) /\ tr_pc' # "data" /\ rbuf' = <<>>
    <3>1. mask' # {} /\ Conn' = c
      BY <2>5 DEF Current
    <3>2. mask' \in SUBSET Nat
      BY <1>1, <1>4, <1>5
    <3>3. j' = First(mask')
      BY DEF j, First
    <3>4. First(mask') \in mask'
      BY <3>1, <3>2, FirstIn
    <3>5. j' \in Valid /\ j' \in DOMAIN socks
      BY <1>1, <1>4, <1>5, <3>3, <3>4
    <3>6. socks[j'] = c
      BY <1>6, <3>1, <3>5 DEF Conn
    <3>7. Open(c)
      BY <3>5, <3>6 DEF TcpInv, ConnectsOnce, Open
    <3> QED
      BY <1>1, <3>7
  <2>6. UNCHANGED <<tnVars, shut>> /\ wire'[c] = wire[c]
    BY <1>1
  <2>7. Track(c)'
    BY <2>1, <2>2, <2>3, <2>4, <2>5, <2>6, Waits
  <2> QED
    BY <2>0, <2>6, <2>7, EndedKept
<1> QED
  BY <1>7, <1>8, <1>9 DEF TcpInv

(* A call of recv takes the next bytes of the connection that is read.      *)
LEMMA RecvFacts ==
  ASSUME TcpInv, NEW n \in Nat, Recv(n), UNCHANGED tnVars
  PROVE  /\ mask # {} /\ tr_pc \in {"len", "data"} /\ Conn \in TcpSenders /\ j \in DOMAIN socks
         /\ j \in Valid /\ j \in mask
         /\ wire' \in [TcpSenders -> Seq(Bytes)]
         /\ wire'[Conn] = SubSeq(wire[Conn], n + 1, Len(wire[Conn]))
         /\ n \in 0 .. Len(wire[Conn]) /\ Len(wire'[Conn]) = Len(wire[Conn]) - n
         /\ \A c \in TcpSenders : c # Conn => wire'[c] = wire[c]
         /\ \A c \in TcpSenders : Len(wire'[c]) <= SOCKBUF
<1>1. /\ tr_pc \in {"len", "data"} /\ n <= Len(wire[Conn])
      /\ wire' = [wire EXCEPT ![Conn] = SubSeq(@, n + 1, Len(@))]
  BY DEF Recv
<1>2. mask # {}
  BY <1>1 DEF TcpInv, Typed, TcpTypeOK, TrTypeOK
<1>3. Conn \in TcpSenders /\ j \in DOMAIN socks /\ j \in Valid /\ j \in mask
  BY <1>2, ConnFacts DEF TcpInv
<1>4. wire \in [TcpSenders -> Seq(Bytes)] /\ \A c \in TcpSenders : Len(wire[c]) <= SOCKBUF
  BY DEF TcpInv, Typed, TcpTypeOK, TcpNetTypeOK
<1> DEFINE w == wire[Conn]
           v == SubSeq(w, n + 1, Len(w))
<1>5. w \in Seq(Bytes) /\ Len(w) \in Nat /\ n \in 0 .. Len(w) /\ Len(w) <= SOCKBUF
  BY <1>1, <1>3, <1>4
<1>6. wire' = [wire EXCEPT ![Conn] = v]
  BY <1>1
<1> HIDE DEF w
<1>7. v \in Seq(Bytes) /\ Len(v) = Len(w) - n /\ Len(v) <= SOCKBUF
  <2>1. v \in Seq(Bytes) /\ Len(v) = Len(w) - n
    BY <1>5
  <2>2. SOCKBUF \in Nat
    BY TcpAssumption
  <2> QED
    BY <1>5, <2>1, <2>2
<1> HIDE DEF v
<1>8. /\ wire' \in [TcpSenders -> Seq(Bytes)] /\ wire'[Conn] = v
      /\ \A c \in TcpSenders : c # Conn => wire'[c] = wire[c]
  BY <1>3, <1>4, <1>6, <1>7
<1>9. \A c \in TcpSenders : Len(wire'[c]) <= SOCKBUF
  BY <1>4, <1>7, <1>8
<1> QED
  BY <1>1, <1>2, <1>3, <1>5, <1>7, <1>8, <1>9 DEF w, v

(* The bytes that are taken are those that follow what is in the buffer.    *)
LEMMA OwnRecv ==
  ASSUME TcpInv, NEW n \in Nat, Recv(n), UNCHANGED tnVars, NEW a \in TcpSenders, a = Conn,
         NEW m \in Nat, NEW k \in Nat, Composed(a, m), Sent(a, m), Reading(a, m, k)
  PROVE  /\ Composed(a, m)' /\ Sent(a, m)' /\ Position(a, m)' = Position(a, m) + n
         /\ tr_pc = "len" =>
              /\ Slice(Received(n), a, Start(a, k)) /\ Len(Received(n)) = Len(rbuf) + n
              /\ Position(a, m)' = Start(a, k) + Len(Received(n)) /\ Len(Received(n)) <= HDR
         /\ tr_pc = "data" =>
              /\ Slice(Received(n), a, Start(a, k) + HDR) /\ Len(Received(n)) = Len(rbuf) + n
              /\ Position(a, m)' = Start(a, k) + HDR + Len(Received(n))
              /\ Len(Received(n)) <= Room(a, k) /\ mess_len = HDR + Room(a, k)
<1> DEFINE w == wire[a]
           u == SubSeq(w, 1, n)
           v == SubSeq(w, n + 1, Len(w))
           p == Position(a, m)
<1>1. /\ mask # {} /\ wire'[a] = v /\ n \in 0 .. Len(w) /\ Len(wire'[a]) = Len(w) - n
  BY RecvFacts
<1>2. /\ UNCHANGED <<tn_pc, offset, eof, mess_rest>> /\ n <= Wanted
  BY DEF tnVars, Recv
<1>3. /\ p \in Nat /\ Slice(w, a, p) /\ Slice(mess_rest[a], a, p + Len(w))
      /\ p = Start(a, m) - Len(w) - Len(mess_rest[a])
  BY DEF Sent, Position
<1>4. /\ Start(a, m) \in Nat /\ Start(a, k) \in Nat /\ Room(a, k) \in Int /\ HDR \in Nat
      /\ Len(w) \in Nat /\ Len(mess_rest[a]) \in Nat /\ rbuf \in Seq(Bytes) /\ Len(rbuf) \in Nat
  <2>1. Start(a, m) \in Nat /\ Start(a, k) \in Nat /\ Room(a, k) \in 0 .. MSG
    BY StreamFacts
  <2>2. HDR \in Nat
    BY TcpAssumption
  <2> QED
    BY <2>1, <2>2 DEF TcpInv, Typed
<1>5. Position(a, m)' = p + n
  <2>1. Position(a, m)' = Start(a, m) - Len(wire'[a]) - Len(mess_rest[a])
    BY <1>2 DEF Position
  <2>2. \A x, y, z \in Int : x - (y - n) - z = (x - y - z) + n
    OBVIOUS
  <2>3. Start(a, m) \in Int /\ Len(w) \in Int /\ Len(mess_rest[a]) \in Int
    BY <1>4
  <2>4. Len(wire'[a]) = Len(w) - n /\ p = Start(a, m) - Len(w) - Len(mess_rest[a])
    BY <1>1, <1>3
  <2> HIDE DEF w, p
  <2>5. Start(a, m) - (Len(w) - n) - Len(mess_rest[a]) = (Start(a, m) - Len(w) - Len(mess_rest[a])) + n
    BY <2>2, <2>3, ZenonT(40)
  <2> QED
    BY <2>1, <2>4, <2>5, Zenon
<1>6. /\ Slice(u, a, p) /\ Len(u) = n /\ Slice(v, a, p + n)
  BY <1>1, <1>3, SliceCut
<1>7. Composed(a, m)'
  BY <1>2 DEF Composed
<1>8. Sent(a, m)'
  <2>1. p + n + Len(wire'[a]) = p + Len(w) /\ p + n \in Nat
    <3>1. Len(wire'[a]) = Len(w) - n /\ Len(w) \in Int /\ p \in Nat
      BY <1>1, <1>3, <1>4
    <3> HIDE DEF w, p
    <3> QED
      BY <3>1
  <2> QED
    BY <1>1, <1>2, <1>3, <1>5, <1>6, <2>1 DEF Sent
<1>9. Received(n) = rbuf \o u
  BY DEF Received
<1>10. Current(a)
  BY <1>1 DEF Current
<1>11. ASSUME tr_pc = "len"
       PROVE  /\ Slice(Received(n), a, Start(a, k)) /\ Len(Received(n)) = Len(rbuf) + n
              /\ Position(a, m)' = Start(a, k) + Len(Received(n)) /\ Len(Received(n)) <= HDR
  <2>1. p = Start(a, k) + Len(rbuf) /\ Slice(rbuf, a, Start(a, k)) /\ n <= HDR - Len(rbuf)
    BY <1>2, <1>10, <1>11 DEF Reading, ReadingLength, Wanted
  <2>2. Slice(u, a, Start(a, k) + Len(rbuf))
    BY <1>6, <2>1
  <2>3. Slice(rbuf \o u, a, Start(a, k)) /\ Len(rbuf \o u) = Len(rbuf) + Len(u)
    BY <1>4, <2>1, <2>2, SliceJoin
  <2> HIDE DEF p, u
  <2>4. Len(rbuf) + n <= HDR
    BY <1>4, <2>1
  <2>5. Len(Received(n)) = Len(rbuf) + n /\ Slice(Received(n), a, Start(a, k))
    BY <1>6, <1>9, <2>3, Zenon
  <2>6. \A x, y \in Int : (x + y) + n = x + (y + n)
    OBVIOUS
  <2>7. Start(a, k) \in Int /\ Len(rbuf) \in Int
    BY <1>4
  <2>8. p = Start(a, k) + Len(rbuf)
    BY <2>1
  <2>9. Position(a, m)' = Start(a, k) + Len(Received(n))
    <3>1. (Start(a, k) + Len(rbuf)) + n = Start(a, k) + (Len(rbuf) + n)
      BY <2>6, <2>7, Zenon
    <3>2. Position(a, m)' = (Start(a, k) + Len(rbuf)) + n
      BY <1>5, <2>8, Zenon
    <3> QED
      BY <2>5, <3>1, <3>2, Zenon
  <2> QED
    BY <2>4, <2>5, <2>9, Zenon
<1>12. ASSUME tr_pc = "data"
       PROVE  /\ Slice(Received(n), a, Start(a, k) + HDR) /\ Len(Received(n)) = Len(rbuf) + n
              /\ Position(a, m)' = Start(a, k) + HDR + Len(Received(n))
              /\ Len(Received(n)) <= Room(a, k) /\ mess_len = HDR + Room(a, k)
  <2>1. /\ p = Start(a, k) + HDR + Len(rbuf) /\ Slice(rbuf, a, Start(a, k) + HDR)
        /\ mess_len = HDR + Room(a, k) /\ n <= mess_len - HDR - Len(rbuf)
    BY <1>2, <1>10, <1>12 DEF Reading, ReadingData, Wanted
  <2>2. Slice(u, a, Start(a, k) + HDR + Len(rbuf)) /\ Start(a, k) + HDR \in Nat
    BY <1>4, <1>6, <2>1, SMTT(40)
  <2>3. Slice(rbuf \o u, a, Start(a, k) + HDR) /\ Len(rbuf \o u) = Len(rbuf) + Len(u)
    BY <2>1, <2>2, SliceJoin
  <2> HIDE DEF p, u
  <2>4. Len(rbuf) + n <= Room(a, k)
    BY <1>4, <2>1, SMTT(40)
  <2>5. Len(Received(n)) = Len(rbuf) + n /\ Slice(Received(n), a, Start(a, k) + HDR)
    BY <1>6, <1>9, <2>3, Zenon
  <2>6. \A x, y, z \in Int : (x + y + z) + n = x + y + (z + n)
    OBVIOUS
  <2>7. Start(a, k) \in Int /\ HDR \in Int /\ Len(rbuf) \in Int
    BY <1>4
  <2>8. p = Start(a, k) + HDR + Len(rbuf) /\ mess_len = HDR + Room(a, k)
    BY <2>1
  <2>9. Position(a, m)' = Start(a, k) + HDR + Len(Received(n))
    <3>1. (Start(a, k) + HDR + Len(rbuf)) + n = Start(a, k) + HDR + (Len(rbuf) + n)
      BY <2>6, <2>7, Zenon
    <3>2. Position(a, m)' = (Start(a, k) + HDR + Len(rbuf)) + n
      BY <1>5, <2>8, Zenon
    <3> QED
      BY <2>5, <3>1, <3>2, Zenon
  <2> QED
    BY <2>4, <2>5, <2>8, <2>9, Zenon
<1> QED
  BY <1>5, <1>7, <1>8, <1>11, <1>12

(* The other connections while one is read: nothing changes for them.       *)
LEMMA OthersWait ==
  ASSUME TcpInv, NEW c \in TcpSenders, mask # {}, c # Conn, tr_pc # "undefined",
         UNCHANGED <<tnVars, shut, socks>>, wire'[c] = wire[c],
         \A k \in Nat : Written(c, k) => Written(c, k)',
         \A i \in DOMAIN socks : i # j => (i \in Valid' <=> i \in Valid),
         \/ mask' = mask
         \/ mask' \subseteq mask /\ tr_pc' # "data" /\ rbuf' = <<>>
         \/ mask' = {}
  PROVE  Track(c)'
<1>1. PICK m \in Nat, k \in Nat :
        Composed(c, m) /\ Sent(c, m) /\ Written(c, k) /\ Reading(c, m, k) /\ Finished(c, k)
  BY DEF TcpInv, Track
<1>2. ~Current(c)
  BY DEF Current
<1>3. j \in DOMAIN socks /\ socks[j] # c
  BY ConnFacts DEF TcpInv, Conn
<1>4. Open(c)' <=> Open(c)
  BY <1>3 DEF Open
<1>5. ASSUME Current(c)' PROVE Open(c) /\ tr_pc' # "data" /\ rbuf' = <<>>
  <2>1. mask' # {} /\ Conn' = c
    BY <1>5 DEF Current
  <2>2. mask' # mask
    BY <1>3, <2>1 DEF Conn, j
  <2>3. mask' \subseteq mask /\ tr_pc' # "data" /\ rbuf' = <<>>
    BY <2>1, <2>2
  <2>4. mask \subseteq Valid /\ Valid \subseteq DOMAIN socks /\ socks \in Seq(TcpSenders)
    BY DEF TcpInv, Typed, TcpTypeOK, TrTypeOK
  <2>5. mask' \in SUBSET Nat
    BY <2>3, <2>4
  <2>6. j' = First(mask')
    BY DEF j, First
  <2>7. First(mask') \in mask'
    BY <2>1, <2>5, FirstIn
  <2>8. j' \in Valid /\ j' \in DOMAIN socks /\ socks[j'] = c
    BY <2>1, <2>3, <2>4, <2>6, <2>7 DEF Conn
  <2>9. Open(c)
    BY <2>8 DEF TcpInv, ConnectsOnce, Open
  <2> QED
    BY <2>3, <2>9
<1>6. Written(c, k)'
  BY <1>1
<1> QED
  BY <1>1, <1>2, <1>4, <1>5, <1>6, Waits

(* A recv that does not complete length or message.                         *)
LEMMA PartKeeps == TcpInv /\ Part => TcpInv'
<1> SUFFICES ASSUME TcpInv, NEW n \in 1 .. HDR + MSG, TrPart(n), UNCHANGED tnVars PROVE TcpInv'
  BY DEF Part
<1>0. n \in Nat /\ HDR \in Nat /\ MSG \in Nat
  BY TcpAssumption
<1>1. /\ Recv(n) /\ n # Wanted /\ n <= Wanted /\ rbuf' = Received(n)
      /\ UNCHANGED <<tr_pc, mask, mess_len, pd, out, socks, Valid, shut, backlog>>
  BY DEF TrPart, Recv, Complete
<1>2. UNCHANGED <<tn_pc, offset, eof, mess_rest>>
  BY DEF tnVars
<1>3. PICK a \in TcpSenders : a = Conn
  BY <1>0, <1>1, RecvFacts
<1>4. /\ mask # {} /\ tr_pc \in {"len", "data"}
      /\ wire' \in [TcpSenders -> Seq(Bytes)] /\ \A c \in TcpSenders : c # a => wire'[c] = wire[c]
      /\ \A c \in TcpSenders : Len(wire'[c]) <= SOCKBUF
  BY <1>0, <1>1, <1>3, RecvFacts
<1>5. PICK m \in Nat, k \in Nat :
        Composed(a, m) /\ Sent(a, m) /\ Written(a, k) /\ Reading(a, m, k) /\ Finished(a, k)
  BY DEF TcpInv, Track
<1>6. /\ Composed(a, m)' /\ Sent(a, m)'
      /\ tr_pc = "len" =>
           /\ Slice(Received(n), a, Start(a, k)) /\ Len(Received(n)) = Len(rbuf) + n
           /\ Position(a, m)' = Start(a, k) + Len(Received(n)) /\ Len(Received(n)) <= HDR
      /\ tr_pc = "data" =>
           /\ Slice(Received(n), a, Start(a, k) + HDR) /\ Len(Received(n)) = Len(rbuf) + n
           /\ Position(a, m)' = Start(a, k) + HDR + Len(Received(n))
           /\ Len(Received(n)) <= Room(a, k) /\ mess_len = HDR + Room(a, k)
  BY <1>0, <1>1, <1>3, <1>5, OwnRecv
<1>7. Room(a, k) \in 0 .. MSG /\ rbuf \in Seq(Bytes) /\ Len(rbuf) \in Nat
  <2>1. Room(a, k) \in 0 .. MSG
    BY StreamFacts
  <2> QED
    BY <2>1 DEF TcpInv, Typed
<1>8. rbuf' \in Seq(Bytes) /\ Len(rbuf') <= HDR + MSG
  <2>1. Received(n) \in Seq(Bytes) /\ Len(Received(n)) \in Nat
    BY <1>4, <1>6 DEF Slice
  <2> QED
    BY <1>0, <1>1, <1>4, <1>6, <1>7, <2>1
<1>9. Typed'
  <2>1. TrTypeOK'
    BY <1>1, <1>8 DEF TcpInv, Typed, TcpTypeOK, TrTypeOK
  <2>2. TcpNetTypeOK' /\ TnTypeOK'
    BY <1>1, <1>2, <1>4 DEF TcpInv, Typed, TcpTypeOK, TcpNetTypeOK, TnTypeOK
  <2> QED
    BY <1>1, <1>2, <1>4, <1>8, <2>1, <2>2 DEF TcpInv, Typed, TcpTypeOK
<1>10. ConnectsOnce'
  BY <1>1, <1>2 DEF TcpInv, ConnectsOnce
<1>11. ASSUME NEW c \in TcpSenders PROVE Ended(c)' /\ Track(c)'
  <2>0. Ended(c)'
    BY <1>1, EndedKept DEF TcpInv
  <2>1. CASE c # a
    <3>1. \A h \in Nat : Written(c, h) => Written(c, h)'
      BY <1>1 DEF Written, InOrder
    <3>2. Track(c)'
      BY <1>1, <1>3, <1>4, <2>1, <3>1, OthersWait
    <3> QED
      BY <2>0, <3>2
  <2>2. CASE c = a
    <3>1. Written(a, k)' /\ Finished(a, k)'
      BY <1>1, <1>2, <1>5 DEF Written, InOrder, Finished, Open
    <3>2. Current(a)' /\ (Open(a)' <=> Open(a))
      BY <1>1, <1>3, <1>4 DEF Current, Conn, j, Open
    <3>3. tr_pc = "len" => ReadingLength(a, m, k)'
      <4>1. tr_pc = "len" => Len(Received(n)) # HDR
        BY <1>0, <1>1, <1>6, <1>7 DEF Wanted
      <4>2. tr_pc = "len" => Len(Received(n)) \in Nat
        BY <1>6, <1>7, <1>0
      <4>3. tr_pc = "len" => Len(Received(n)) < HDR
        BY <1>0, <1>6, <4>1, <4>2
      <4> QED
        BY <1>1, <1>6, <4>3 DEF ReadingLength
    <3>4. tr_pc = "data" => ReadingData(a, m, k)'
      BY <1>1, <1>6 DEF ReadingData
    <3>5. Reading(a, m, k)'
      BY <1>1, <3>2, <3>3, <3>4 DEF Reading
    <3> QED
      BY <1>6, <2>0, <2>2, <3>1, <3>5 DEF Track
  <2> QED
    BY <2>1, <2>2
<1> QED
  BY <1>9, <1>10, <1>11 DEF TcpInv

(* The length is complete: it is the length of the message that follows.    *)
LEMMA LengthKeeps == TcpInv /\ Length => TcpInv'
<1> SUFFICES ASSUME TcpInv, NEW n \in 1 .. HDR, TrLength(n), UNCHANGED tnVars PROVE TcpInv'
  BY DEF Length
<1>0. n \in Nat /\ HDR \in Nat \ {0} /\ MSG \in Nat
  BY TcpAssumption
<1>1. /\ Recv(n) /\ n = Wanted /\ tr_pc = "len" /\ tr_pc' = "data" /\ rbuf' = <<>>
      /\ mess_len' = Head(Received(n))[2]
      /\ UNCHANGED <<mask, pd, out, socks, Valid, shut, backlog>>
  BY DEF TrLength, Recv, Complete
<1>2. UNCHANGED <<tn_pc, offset, eof, mess_rest>>
  BY DEF tnVars
<1>3. PICK a \in TcpSenders : a = Conn
  BY <1>0, <1>1, RecvFacts
<1>4. /\ mask # {}
      /\ wire' \in [TcpSenders -> Seq(Bytes)] /\ \A c \in TcpSenders : c # a => wire'[c] = wire[c]
      /\ \A c \in TcpSenders : Len(wire'[c]) <= SOCKBUF
  BY <1>0, <1>1, <1>3, RecvFacts
<1>5. PICK m \in Nat, k \in Nat :
        Composed(a, m) /\ Sent(a, m) /\ Written(a, k) /\ Reading(a, m, k) /\ Finished(a, k)
  BY DEF TcpInv, Track
<1>6. /\ Composed(a, m)' /\ Sent(a, m)'
      /\ Slice(Received(n), a, Start(a, k)) /\ Len(Received(n)) = Len(rbuf) + n
      /\ Position(a, m)' = Start(a, k) + Len(Received(n))
  BY <1>0, <1>1, <1>3, <1>5, OwnRecv
<1>7. Room(a, k) \in 0 .. MSG /\ Start(a, k) \in Nat /\ Len(rbuf) \in Nat
  <2>1. Room(a, k) \in 0 .. MSG /\ Start(a, k) \in Nat
    BY StreamFacts
  <2> QED
    BY <2>1 DEF TcpInv, Typed
<1>8. Len(Received(n)) = HDR
  BY <1>0, <1>1, <1>6, <1>7 DEF Wanted
<1>9. mess_len' = HDR + Room(a, k)
  <2>1. Len(Received(n)) >= 1
    BY <1>0, <1>8
  <2>2. Head(Received(n)) = <<"len", HDR + Room(a, k)>>
    BY <1>6, <2>1, SliceHeader
  <2> QED
    BY <1>1, <2>2
<1>10. Typed'
  <2>1. mess_len' \in {0} \cup (HDR .. HDR + MSG) /\ Len(rbuf') <= HDR + MSG
    BY <1>0, <1>1, <1>7, <1>9
  <2>2. TrTypeOK'
    BY <1>1, <1>4, <2>1 DEF TcpInv, Typed, TcpTypeOK, TrTypeOK
  <2>3. TcpNetTypeOK' /\ TnTypeOK'
    BY <1>1, <1>2, <1>4 DEF TcpInv, Typed, TcpTypeOK, TcpNetTypeOK, TnTypeOK
  <2> QED
    BY <1>1, <1>2, <1>4, <2>2, <2>3 DEF TcpInv, Typed, TcpTypeOK
<1>11. ConnectsOnce'
  BY <1>1, <1>2 DEF TcpInv, ConnectsOnce
<1>12. ASSUME NEW c \in TcpSenders PROVE Ended(c)' /\ Track(c)'
  <2>0. Ended(c)'
    BY <1>1, EndedKept DEF TcpInv
  <2>1. CASE c # a
    <3>1. \A h \in Nat : Written(c, h) => Written(c, h)'
      BY <1>1 DEF Written, InOrder
    <3>2. Track(c)'
      BY <1>1, <1>3, <1>4, <2>1, <3>1, OthersWait
    <3> QED
      BY <2>0, <3>2
  <2>2. CASE c = a
    <3>1. Written(a, k)' /\ Finished(a, k)'
      BY <1>1, <1>2, <1>5 DEF Written, InOrder, Finished, Open
    <3>2. Current(a)'
      BY <1>1, <1>3, <1>4 DEF Current, Conn, j
    <3>3. ReadingData(a, m, k)'
      <4>1. Len(rbuf') = 0 /\ Slice(rbuf', a, Start(a, k) + HDR)
        BY <1>1, SliceEmpty
      <4>2. Position(a, m)' = Start(a, k) + HDR + Len(rbuf') /\ Len(rbuf') <= Room(a, k)
        BY <1>0, <1>6, <1>7, <1>8, <4>1
      <4> QED
        BY <1>9, <4>1, <4>2 DEF ReadingData
    <3>4. Reading(a, m, k)'
      BY <1>1, <3>2, <3>3 DEF Reading
    <3> QED
      BY <1>6, <2>0, <2>2, <3>1, <3>4 DEF Track
  <2> QED
    BY <2>1, <2>2
<1> QED
  BY <1>10, <1>11, <1>12 DEF TcpInv

(* A connection that is ready has not been closed, and the pass goes on     *)
(* with others.                                                             *)
LEMMA PassGoesOn ==
  ASSUME TcpInv, mask # {}, NEW a \in TcpSenders, a = Conn, UNCHANGED socks,
         mask' = mask \ {j} \/ mask' = {}
  PROVE  Open(a) /\ ~Current(a)'
<1>1. /\ mask \subseteq Valid /\ Valid \subseteq DOMAIN socks /\ socks \in Seq(TcpSenders)
      /\ j \in mask /\ j \in Valid /\ j \in DOMAIN socks /\ socks[j] = a
  BY ConnFacts DEF TcpInv, Typed, TcpTypeOK, TrTypeOK, Conn
<1>2. \A i \in DOMAIN socks : socks[i] = a => i = j
  BY <1>1 DEF TcpInv, ConnectsOnce
<1>3. Open(a)
  BY <1>1, <1>2 DEF Open
<1>4. ASSUME Current(a)' PROVE FALSE
  <2>1. mask' # {} /\ socks[j'] = a /\ mask' = mask \ {j}
    BY <1>4 DEF Current, Conn
  <2>2. mask' \in SUBSET Nat
    BY <1>1, <2>1
  <2>3. j' = First(mask')
    BY DEF j, First
  <2>4. First(mask') \in mask'
    BY <2>1, <2>2, FirstIn
  <2>5. j' \in DOMAIN socks /\ j' # j
    BY <1>1, <2>1, <2>3, <2>4
  <2> QED
    BY <1>2, <2>1, <2>5
<1> QED
  BY <1>3, <1>4

(* The message is complete and is written, or the file has been closed.     *)
LEMMA WriteKeeps == TcpInv /\ Write => TcpInv'
<1> SUFFICES ASSUME TcpInv, NEW n \in 0 .. MSG, TrWrite(n), UNCHANGED tnVars PROVE TcpInv'
  BY DEF Write
<1>0. n \in Nat /\ HDR \in Nat \ {0} /\ MSG \in Nat
  BY TcpAssumption
<1>1. /\ Recv(n) /\ n = Wanted /\ tr_pc = "data"
      /\ UNCHANGED <<mess_len, pd, socks, Valid, shut, backlog>>
  BY DEF TrWrite, Recv, Complete
<1>2. \/ /\ out' = out \o Received(n) /\ mask' = mask \ {j} /\ rbuf' = <<>>
         /\ tr_pc' = IF mask \ {j} = {} THEN "select" ELSE "len"
      \/ tr_pc' = "undefined" /\ mask' = {} /\ rbuf' = rbuf /\ out' = out
  BY DEF TrWrite, ReadNext
<1>3. UNCHANGED <<tn_pc, offset, eof, mess_rest>>
  BY DEF tnVars
<1>4. PICK a \in TcpSenders : a = Conn
  BY <1>0, <1>1, RecvFacts
<1>5. /\ mask # {} /\ j \in mask
      /\ wire' \in [TcpSenders -> Seq(Bytes)] /\ \A c \in TcpSenders : c # a => wire'[c] = wire[c]
      /\ \A c \in TcpSenders : Len(wire'[c]) <= SOCKBUF
  BY <1>0, <1>1, <1>4, RecvFacts
<1>6. PICK m \in Nat, k \in Nat :
        Composed(a, m) /\ Sent(a, m) /\ Written(a, k) /\ Reading(a, m, k) /\ Finished(a, k)
  BY DEF TcpInv, Track
<1>7. /\ Composed(a, m)' /\ Sent(a, m)'
      /\ Slice(Received(n), a, Start(a, k) + HDR) /\ Len(Received(n)) = Len(rbuf) + n
      /\ Position(a, m)' = Start(a, k) + HDR + Len(Received(n)) /\ mess_len = HDR + Room(a, k)
  BY <1>0, <1>1, <1>4, <1>6, OwnRecv
<1>8. /\ Room(a, k) \in 0 .. MSG /\ Start(a, k) \in Nat
      /\ Start(a, k + 1) = Start(a, k) + HDR + Room(a, k)
  BY StreamFacts
<1>9. /\ Len(rbuf) \in Nat /\ rbuf \in Seq(Bytes) /\ out \in Seq(Bytes)
      /\ \A i \in DOMAIN out : out[i][1] \in TcpSenders
  BY DEF TcpInv, Typed
<1> DEFINE d == Received(n)
<1>10. /\ d \in Seq(Bytes) /\ Len(d) = Room(a, k)
       /\ \A i \in 1 .. Len(d) : d[i] = <<a, Got(a, k) + i>>
  <2>1. d \in Seq(Bytes)
    BY <1>7 DEF Slice
  <2>2. n = mess_len - HDR - Len(rbuf) /\ mess_len = HDR + Room(a, k) /\ Len(d) = Len(rbuf) + n
    <3>1. n = mess_len - HDR - Len(rbuf)
      BY <1>1 DEF Wanted
    <3> QED
      BY <1>7, <3>1
  <2>3. Len(d) = Room(a, k) /\ Len(d) <= Room(a, k)
    <3>1. \A x, y, z, l, r : x \in Nat /\ y \in Nat /\ z \in Nat /\ r \in Nat /\ l = y + r
             /\ x = l - y - z => z + x = r
      OBVIOUS
    <3>2. Len(rbuf) + n = Room(a, k)
      BY <1>0, <1>8, <1>9, <2>2, <3>1, SMTT(40)
    <3> QED
      BY <1>8, <2>2, <3>2
  <2> QED
    BY <1>7, <2>1, <2>3, SliceData
<1>11. Position(a, m)' = Start(a, k + 1)
  BY <1>7, <1>8, <1>10
<1> HIDE DEF d
<1>12. /\ out' \in Seq(Bytes) /\ \A i \in DOMAIN out' : out'[i][1] \in TcpSenders
       /\ rbuf' \in Seq(Bytes) /\ Len(rbuf') <= HDR + MSG
       /\ mask' \subseteq mask /\ (mask' = {} <=> tr_pc' \in {"select", "undefined"})
       /\ tr_pc' \in {"select", "len", "undefined"}
  <2>0. rbuf' \in Seq(Bytes) /\ Len(rbuf') <= HDR + MSG
    <3>1. rbuf \in Seq(Bytes) /\ Len(rbuf) <= HDR + MSG
      BY DEF TcpInv, Typed, TcpTypeOK, TrTypeOK
    <3>2. CASE rbuf' = rbuf
      BY <3>1, <3>2
    <3>3. CASE rbuf' = <<>>
      <4>1. rbuf' \in Seq(Bytes) /\ Len(rbuf') = 0
        BY <3>3
      <4> QED
        BY <1>0, <4>1
    <3> QED
      BY <1>2, <3>2, <3>3
  <2>3. /\ mask' \subseteq mask /\ (mask' = {} <=> tr_pc' \in {"select", "undefined"})
        /\ tr_pc' \in {"select", "len", "undefined"}
    BY <1>2
  <2>1. CASE out' = out \o d
    <3>1. /\ out' \in Seq(Bytes) /\ Len(out') = Len(out) + Len(d)
          /\ \A i \in 1 .. Len(out) + Len(d) :
               out'[i] = IF i <= Len(out) THEN out[i] ELSE d[i - Len(out)]
      BY <1>9, <1>10, <2>1, ConcatProperties
    <3>2. Len(out) \in Nat /\ Len(d) \in Nat /\ DOMAIN out' = 1 .. Len(out) + Len(d)
          /\ DOMAIN out = 1 .. Len(out)
      BY <1>9, <1>10, <3>1
    <3>3. ASSUME NEW i \in DOMAIN out' PROVE out'[i][1] \in TcpSenders
      <4>1. CASE i <= Len(out)
        BY <1>9, <3>1, <3>2, <4>1
      <4>2. CASE ~(i <= Len(out))
        <5>1. i - Len(out) \in 1 .. Len(d) /\ out'[i] = d[i - Len(out)]
          BY <3>1, <3>2, <4>2
        <5>2. out'[i][1] = a
          BY <1>10, <5>1
        <5> QED
          BY <5>2
      <4> QED
        BY <4>1, <4>2
    <3> QED
      BY <2>0, <2>3, <3>1, <3>3
  <2>2. CASE out' = out
    BY <1>9, <2>0, <2>2, <2>3
  <2> QED
    BY <1>2, <2>1, <2>2 DEF d
<1>13. Typed'
  <2>1. TrTypeOK'
    BY <1>1, <1>12 DEF TcpInv, Typed, TcpTypeOK, TrTypeOK
  <2>2. TcpNetTypeOK' /\ TnTypeOK'
    BY <1>1, <1>3, <1>5 DEF TcpInv, Typed, TcpTypeOK, TcpNetTypeOK, TnTypeOK
  <2> QED
    BY <1>3, <1>5, <1>12, <2>1, <2>2 DEF TcpInv, Typed, TcpTypeOK
<1>14. ConnectsOnce'
  BY <1>1, <1>3 DEF TcpInv, ConnectsOnce
<1>15. ASSUME NEW c \in TcpSenders PROVE Ended(c)' /\ Track(c)'
  <2>0. Ended(c)'
    BY <1>1, EndedKept DEF TcpInv
  <2>1. CASE c # a
    <3>1. ASSUME NEW h \in Nat, Written(c, h) PROVE Written(c, h)'
      <4>1. CASE out' = out \o d
        <5>1. \A i \in 1 .. Len(d) : d[i][1] # c
          BY <1>10, <2>1
        <5> QED
          BY <1>9, <1>10, <3>1, <4>1, <5>1, WriteOther
      <4>2. CASE out' = out
        BY <3>1, <4>2 DEF Written, InOrder
      <4> QED
        BY <1>2, <4>1, <4>2 DEF d
    <3>2. \A h \in Nat : Written(c, h) => Written(c, h)'
      BY <3>1
    <3>3. \/ mask' \subseteq mask /\ tr_pc' # "data" /\ rbuf' = <<>>
          \/ mask' = {}
      BY <1>2
    <3>4. Track(c)'
      BY <1>1, <1>4, <1>5, <2>1, <3>2, <3>3, OthersWait
    <3> QED
      BY <2>0, <3>4
  <2>2. CASE c = a
    <3>1. Open(a) /\ ~Current(a)' /\ (Open(a)' <=> Open(a))
      BY <1>1, <1>2, <1>4, <1>5, PassGoesOn DEF Open
    <3>2. \A h \in Nat : Finished(a, h)'
      BY <3>1 DEF Finished
    <3>3. CASE out' = out \o d /\ tr_pc' # "undefined"
      <4>1. Written(a, k + 1)'
        BY <1>6, <1>9, <1>10, <3>3, WriteOwn
      <4>2. Reading(a, m, k + 1)'
        BY <1>11, <3>1 DEF Reading
      <4>3. k + 1 \in Nat
        OBVIOUS
      <4> QED
        BY <1>7, <2>0, <2>2, <3>2, <4>1, <4>2, <4>3 DEF Track
    <3>4. CASE out' = out /\ tr_pc' = "undefined"
      <4>1. Written(a, k)'
        BY <1>6, <3>4 DEF Written, InOrder
      <4>2. Reading(a, m, k)'
        BY <3>1, <3>4 DEF Reading
      <4> QED
        BY <1>7, <2>0, <2>2, <3>2, <4>1, <4>2 DEF Track
    <3> QED
      BY <1>2, <3>3, <3>4 DEF d
  <2> QED
    BY <2>1, <2>2
<1> QED
  BY <1>13, <1>14, <1>15 DEF TcpInv

(* The end of a connection is found where a message would begin if the      *)
(* sender ended by itself: then everything has been written.                *)
LEMMA CloseKeeps == TcpInv /\ Close => TcpInv'
<1> SUFFICES ASSUME TcpInv, TrClosed, UNCHANGED tnVars PROVE TcpInv'
  BY DEF Close
<1>0. HDR \in Nat \ {0} /\ MSG \in Nat
  BY TcpAssumption
<1>1. /\ tr_pc \in {"len", "data"} /\ Wanted > 0 /\ wire[Conn] = <<>> /\ shut[Conn]
      /\ Valid' = Valid \ {j} /\ UNCHANGED <<socks, mess_len, out, wire, shut, backlog>>
  BY DEF TrClosed, tcpNetVars
<1>2. \/ /\ pd' = "closed" /\ mask' = mask \ {j} /\ rbuf' = <<>>
         /\ tr_pc' = IF mask \ {j} = {} THEN "select" ELSE "len"
      \/ tr_pc' = "undefined" /\ mask' = {} /\ rbuf' = rbuf /\ pd' = pd
  BY DEF TrClosed, ReadNext
<1>3. UNCHANGED <<tn_pc, offset, eof, mess_rest>>
  BY DEF tnVars
<1>4. mask # {}
  BY <1>1 DEF TcpInv, Typed, TcpTypeOK, TrTypeOK
<1>5. PICK a \in TcpSenders : a = Conn
  BY <1>4, ConnFacts DEF TcpInv
<1>6. j \in mask /\ j \in Valid /\ j \in DOMAIN socks /\ socks[j] = a
  BY <1>4, <1>5, ConnFacts DEF TcpInv, Conn
<1>7. Typed'
  <2>1. Len(rbuf') <= HDR + MSG /\ rbuf' \in Seq(Bytes)
    <3>1. rbuf \in Seq(Bytes) /\ Len(rbuf) <= HDR + MSG
      BY DEF TcpInv, Typed, TcpTypeOK, TrTypeOK
    <3>2. CASE rbuf' = rbuf
      BY <3>1, <3>2
    <3>3. CASE rbuf' = <<>>
      <4>1. rbuf' \in Seq(Bytes) /\ Len(rbuf') = 0
        BY <3>3
      <4> QED
        BY <1>0, <4>1
    <3> QED
      BY <1>2, <3>2, <3>3
  <2>2. /\ mask' \subseteq mask \ {j} /\ (mask' = {} <=> tr_pc' \in {"select", "undefined"})
        /\ tr_pc' \in {"select", "len", "undefined"}
    BY <1>2
  <2>3. mask' \subseteq Valid' /\ Valid' \subseteq DOMAIN socks'
    BY <1>1, <2>2 DEF TcpInv, Typed, TcpTypeOK, TrTypeOK
  <2>4. TrTypeOK'
    BY <1>1, <1>2, <2>1, <2>2, <2>3 DEF TcpInv, Typed, TcpTypeOK, TrTypeOK
  <2>5. TcpNetTypeOK' /\ TnTypeOK'
    BY <1>1, <1>3 DEF TcpInv, Typed, TcpTypeOK, TcpNetTypeOK, TnTypeOK
  <2> QED
    BY <1>1, <1>3, <2>1, <2>4, <2>5 DEF TcpInv, Typed, TcpTypeOK
<1>8. ConnectsOnce'
  BY <1>1, <1>3 DEF TcpInv, ConnectsOnce
<1>9. ASSUME NEW c \in TcpSenders PROVE Ended(c)' /\ Track(c)'
  <2>0. Ended(c)'
    BY <1>1, EndedKept DEF TcpInv
  <2>1. CASE c # a
    <3>1. \A h \in Nat : Written(c, h) => Written(c, h)'
      BY <1>1 DEF Written, InOrder
    <3>2. \A i \in DOMAIN socks : i # j => (i \in Valid' <=> i \in Valid)
      BY <1>1
    <3>3. \/ mask' \subseteq mask /\ tr_pc' # "data" /\ rbuf' = <<>>
          \/ mask' = {}
      BY <1>2
    <3>4. Track(c)'
      BY <1>1, <1>4, <1>5, <2>1, <3>1, <3>2, <3>3, OthersWait
    <3> QED
      BY <2>0, <3>4
  <2>2. CASE c = a
    <3>1. PICK m \in Nat, k \in Nat :
            Composed(a, m) /\ Sent(a, m) /\ Written(a, k) /\ Reading(a, m, k) /\ Finished(a, k)
      BY DEF TcpInv, Track
    <3>2. ~Current(a)'
      BY <1>1, <1>2, <1>4, <1>5, PassGoesOn
    <3>3. ~Open(a)'
      BY <1>1, <1>6 DEF Open
    <3>4. Written(a, k)' /\ Composed(a, m)' /\ Sent(a, m)' /\ Reading(a, m, k)'
      BY <1>1, <1>3, <3>1, <3>2, <3>3 DEF Written, InOrder, Composed, Sent, Position, Reading
    <3>5. ASSUME tn_pc[a] = "exit" PROVE Got(a, k) = Size[a]
      <4>1. mess_rest[a] = <<>> /\ eof[a]
        BY <3>5 DEF TcpInv, Ended
      <4>2. Got(a, m) = Size[a] /\ Position(a, m) = Start(a, m) /\ Start(a, m) \in Nat
        <5>1. Len(wire[a]) = 0 /\ Len(mess_rest[a]) = 0 /\ Start(a, m) \in Nat
          BY <1>1, <1>5, <4>1, StreamFacts
        <5> QED
          BY <3>1, <4>1, <5>1 DEF Composed, Position
      <4>3. /\ Start(a, k) \in Nat /\ Room(a, k) \in 0 .. MSG /\ Room(a, m) \in 0 .. MSG
            /\ Start(a, k + 1) = Start(a, k) + HDR + Room(a, k)
            /\ Start(a, m + 1) = Start(a, m) + HDR + Room(a, m)
        BY StreamFacts
      <4>4. Current(a) /\ Len(rbuf) \in Nat
        BY <1>4, <1>5 DEF Current, TcpInv, Typed
      <4>5. Start(a, k) <= Start(a, m) /\ Start(a, m) < Start(a, k + 1)
        <5>1. CASE tr_pc = "len"
          <6>1. Start(a, m) = Start(a, k) + Len(rbuf) /\ Len(rbuf) < HDR
            BY <3>1, <4>2, <4>4, <5>1 DEF Reading, ReadingLength
          <6> QED
            BY <1>0, <4>3, <4>4, <6>1
        <5>2. CASE tr_pc = "data"
          <6>1. Start(a, m) = Start(a, k) + HDR + Len(rbuf) /\ mess_len = HDR + Room(a, k)
            BY <3>1, <4>2, <4>4, <5>2 DEF Reading, ReadingData
          <6>2. Len(rbuf) < Room(a, k)
            BY <1>0, <1>1, <4>3, <4>4, <5>2, <6>1 DEF Wanted
          <6> QED
            BY <1>0, <4>3, <4>4, <6>1, <6>2, SMTT(40)
        <5> QED
          BY <1>1, <5>1, <5>2
      <4>6. ~(k < m)
        <5>1. k < m => Start(a, k + 1) <= Start(a, m)
          BY StartOrder
        <5>2. Start(a, k + 1) \in Int
          BY <1>0, <4>3
        <5> QED
          BY <4>2, <4>5, <5>1, <5>2
      <4>7. ~(m < k)
        <5>1. m < k => Start(a, m + 1) <= Start(a, k)
          BY StartOrder
        <5>2. Start(a, m) < Start(a, m + 1) /\ Start(a, m + 1) \in Int
          BY <1>0, <4>2, <4>3
        <5> QED
          BY <4>2, <4>3, <4>5, <5>1, <5>2
      <4>8. k = m
        BY <4>6, <4>7
      <4> QED
        BY <4>2, <4>8
    <3>6. Finished(a, k)'
      BY <1>1, <1>3, <1>5, <3>5 DEF Finished
    <3> QED
      BY <2>0, <2>2, <3>1, <3>4, <3>6 DEF Track
  <2> QED
    BY <2>1, <2>2
<1> QED
  BY <1>7, <1>8, <1>9 DEF TcpInv

---------------------------------------------------------------------------------
(* The invariant holds throughout: at every moment the stream of a sender   *)
(* is what t_rcv has written and read of it, then what is under way, then   *)
(* what send has not taken yet (t_ncp.cpp:72-91, t_rcv.cpp:110-181).        *)
THEOREM TcpInvariance == TcpSpec => []TcpInv
<1>1. TcpInv /\ [TcpNext]_tcpVars => TcpInv'
  <2> SUFFICES ASSUME TcpInv, [TcpNext]_tcpVars PROVE TcpInv'
    OBVIOUS
  <2>1. CASE TcpNext
    BY <2>1, ConnectKeeps, ReadKeeps, SendKeeps, EndKeeps, SelectKeeps, PartKeeps, LengthKeeps,
       WriteKeeps, CloseKeeps DEF TcpNext
  <2>2. CASE UNCHANGED tcpVars
    <3>1. /\ UNCHANGED <<tn_pc, offset, eof, mess_rest, wire, shut, backlog>>
          /\ UNCHANGED <<tr_pc, socks, Valid, mask, rbuf, mess_len, pd, out>>
      BY <2>2 DEF tcpVars, tnVars, trVars, tcpNetVars
    <3>2. Typed' /\ ConnectsOnce'
      BY <3>1 DEF TcpInv, Typed, TcpTypeOK, TcpNetTypeOK, TnTypeOK, TrTypeOK, ConnectsOnce
    <3>3. \A c \in TcpSenders : Ended(c)' /\ Track(c)'
      <4> SUFFICES ASSUME NEW c \in TcpSenders PROVE Ended(c)' /\ Track(c)'
        OBVIOUS
      <4>1. Ended(c) /\ Track(c) /\ UNCHANGED trVars
        BY <3>1 DEF TcpInv, trVars
      <4> QED
        BY <3>1, <4>1, SenderOther
    <3> QED
      BY <3>2, <3>3 DEF TcpInv
  <2> QED
    BY <2>1, <2>2
<1> QED
  BY <1>1, TcpInvInit, PTL DEF TcpSpec

(* However send and recv cut the streams and however the connections        *)
(* interleave, t_rcv reads every length as a length, no message is longer   *)
(* than mess_buf, and of each sender it has written the first bytes of its  *)
(* file, in order and once each (t_ncp.cpp:72-91, t_rcv.cpp:110-181).       *)
THEOREM TcpFraming == TcpSpec => []EachInOrder
<1>1. TcpInv => EachInOrder
  BY DEF TcpInv, Typed, EachInOrder, Track, Written
<1> QED
  BY <1>1, TcpInvariance, PTL

(* When t_rcv has closed the connection of a t_ncp that came to its end,    *)
(* all of its file has been written (t_rcv.cpp:126-141).                    *)
THEOREM TcpComplete == TcpSpec => []ClosedMeansCopied
<1>1. TcpInv => ClosedMeansCopied
  <2> SUFFICES ASSUME TcpInv, NEW i \in DOMAIN socks, i \notin Valid, tn_pc[socks[i]] = "exit"
               PROVE  \A x \in 1 .. Size[socks[i]] : \E h \in DOMAIN out : out[h] = <<socks[i], x>>
    BY DEF ClosedMeansCopied
  <2>1. PICK a \in TcpSenders : a = socks[i]
    BY DEF TcpInv, Typed, TcpTypeOK, TrTypeOK
  <2>2. ~Open(a)
    BY <2>1 DEF Open
  <2>3. PICK k \in Nat : Written(a, k) /\ Finished(a, k)
    BY DEF TcpInv, Track
  <2>4. Got(a, k) = Size[a]
    BY <2>1, <2>2, <2>3 DEF Finished
  <2> QED
    BY <2>1, <2>3, <2>4 DEF Written
<1> QED
  BY <1>1, TcpInvariance, PTL
===============================================================================
