------------------------------ MODULE CJsonText ------------------------------
(***************************************************************************)
(* The string literals of iperf's JSON library (src/cjson.c): how a C      *)
(* string is printed between quotes and how a literal is read back.  Text  *)
(* is a sequence of bytes without the terminating zero; offsets count from *)
(* 1.  A result of a parser is a record with the field ok.                 *)
(***************************************************************************)
EXTENDS Integers, Sequences, SequencesExt, TLC

(* F of x: names an intermediate result.                                   *)
Bind(x, F(_)) == F(x)

QUOTE == 34
BACKSLASH == 92
LETTER_U == 117

(* The bytes with an escape of one letter: \b \t \n \f \r \" \\.            *)
Escapes == (8 :> 98) @@ (9 :> 116) @@ (10 :> 110) @@ (12 :> 102) @@ (13 :> 114)
           @@ (QUOTE :> QUOTE) @@ (BACKSLASH :> BACKSLASH)

HexDigit(b) == CASE b \in 48 .. 57 -> b - 48
                 [] b \in 65 .. 70 -> b - 55
                 [] b \in 97 .. 102 -> b - 87
                 [] OTHER -> -1

HexLetter(v) == IF v < 10 THEN 48 + v ELSE 87 + v

(* Four hexadecimal digits; an invalid one makes the whole number 0.       *)
parse_hex4(in, i) ==
  Bind([k \in 0 .. 3 |-> HexDigit(in[i + k])], LAMBDA d :
    IF \E k \in 0 .. 3 : d[k] = -1 THEN 0
    ELSE 4096 * d[0] + 256 * d[1] + 16 * d[2] + d[3])

(* The bytes of a code point in UTF-8, the last six bits in the last one.  *)
EncodeUtf8(codepoint) ==
  LET more(j) == 128 + ((codepoint \div 64^j) % 64)
  IN CASE codepoint < 128   -> <<codepoint>>
       [] codepoint < 2048  -> <<192 + codepoint \div 64, more(0)>>
       [] codepoint < 65536 -> <<224 + codepoint \div 4096, more(1), more(0)>>
       [] OTHER -> <<240 + codepoint \div 262144, more(2), more(1), more(0)>>

CodepointOf(first, second) ==
  65536 + (first % 1024) * 1024 + (second % 1024)

(* A \u escape at offset i of a literal whose closing quote is at end:     *)
(* its bytes and its length, 0 when it is refused.                         *)
utf16_literal_to_utf8(in, i, end) ==
  LET refused == [len |-> 0, out |-> <<>>]
      single(code) == [len |-> 6, out |-> EncodeUtf8(code)]
      pair(first, second) ==
        IF second \notin 56320 .. 57343 THEN refused
        ELSE [len |-> 12, out |-> EncodeUtf8(CodepointOf(first, second))]
      literal(first) ==
        CASE first \in 56320 .. 57343 -> refused
          [] first \notin 55296 .. 56319 -> single(first)
          [] end - i < 12 -> refused
          [] in[i + 6] # BACKSLASH \/ in[i + 7] # LETTER_U -> refused
          [] OTHER -> pair(first, parse_hex4(in, i + 8))
  IN IF end - i < 6 THEN refused ELSE literal(parse_hex4(in, i + 2))

(* The closing quote: the first one that no backslash escapes, 0 if none.  *)
LiteralEnd_plain(in, i) ==
  LET quotes == {k \in i .. Len(in) : in[k] = QUOTE}
  IN IF quotes = {} THEN 0 ELSE CHOOSE k \in quotes : \A m \in quotes : k <= m
RECURSIVE LiteralEnd(_, _)
LiteralEnd(in, i) ==
  CASE i > Len(in) -> 0
    [] in[i] = QUOTE -> i
    [] in[i] = BACKSLASH -> LiteralEnd(in, i + 2)
    [] OTHER -> LiteralEnd(in, i + 1)

(* The text between the offsets i and end with its escapes undone.         *)
RECURSIVE Unescaped(_, _, _, _)
Unescaped(in, i, end, out) ==
  LET byte == {b \in DOMAIN Escapes : Escapes[b] = in[i + 1]}
  IN CASE i >= end -> [ok |-> TRUE, text |-> out]
       [] in[i] # BACKSLASH -> Unescaped(in, i + 1, end, Append(out, in[i]))
       [] byte # {} -> Unescaped(in, i + 2, end, Append(out, CHOOSE b \in byte : TRUE))
       [] in[i + 1] = 47 -> Unescaped(in, i + 2, end, Append(out, 47))
       [] in[i + 1] = LETTER_U ->
            Bind(utf16_literal_to_utf8(in, i, end), LAMBDA u :
              IF u.len = 0 THEN [ok |-> FALSE, text |-> out]
              ELSE Unescaped(in, i + u.len, end, out \o u.out))
       [] OTHER -> [ok |-> FALSE, text |-> out]

(* What the C library sees of a buffer: everything before the first zero.  *)
CString(out) ==
  LET zeros == {k \in DOMAIN out : out[k] = 0}
  IN IF zeros = {} THEN out
     ELSE SubSeq(out, 1, (CHOOSE k \in zeros : \A m \in zeros : k <= m) - 1)

(* The literal at offset i: its text and the offset behind it.             *)
parse_string(in, i) ==
  LET bad == [ok |-> FALSE, text |-> <<>>, next |-> i]
      upto(end, read) == IF ~read.ok THEN bad
                         ELSE [ok |-> TRUE, text |-> CString(read.text), next |-> end + 1]
      ending(end) == IF end = 0 THEN bad ELSE upto(end, Unescaped(in, i + 1, end, <<>>))
  IN IF i > Len(in) THEN bad
     ELSE IF in[i] # QUOTE THEN bad
     ELSE ending(LiteralEnd(in, i + 1))

Escaped(b) ==
  IF b \in DOMAIN Escapes THEN <<BACKSLASH, Escapes[b]>>
  ELSE IF b < 32 THEN <<BACKSLASH, LETTER_U, 48, 48, HexLetter(b \div 16), HexLetter(b % 16)>>
  ELSE <<b>>

print_string_ptr(text) ==
  <<QUOTE>> \o FlattenSeq([k \in DOMAIN text |-> Escaped(text[k])]) \o <<QUOTE>>
==============================================================================
