------------------------------- MODULE MCCJson -------------------------------
(***************************************************************************)
(* Instances of the JSON library for TLC.                                  *)
(***************************************************************************)
EXTENDS CJsonUse

(* The caller's strings: k" and K" differ in their case only.              *)
MCStatic == << <<107, QUOTE>>, <<75, QUOTE>> >>

(* The documents: ["",true], {"k":[],"K":100} and [[[]]], which is too deep.  *)
Name(k) == <<print_string(EmptyHeap(1), -k), Token(":")>>
MCDocuments ==
  { <<Token("["), print_string(EmptyHeap(1), NULL), Token(","), Token("true"), Token("]")>>,
    <<Token("{")>> \o Name(1) \o <<Token("["), Token("]"), Token(",")>>
      \o Name(2) \o <<Number(100), Token("}")>>,
    <<Token("["), Token("["), Token("["), Token("]"), Token("]"), Token("]")>> }

MCMin == -2

(* [ { and { "k" : as whole texts, and an array with a bad literal.        *)
MCBroken == { <<Token("["), Token("[")>>,
              <<Token("{"), print_string(EmptyHeap(1), -1), Token(":"), Token("true")>>,
              <<Token("["), Token("true"), Token(","),
                [Token("string") EXCEPT !.b = <<QUOTE, BACKSLASH, LETTER_U, QUOTE>>], Token("]")>> }
------------------------------------------------------------------------------
(* Bytes that matter to a literal: u, n, the quote, the backslash, a       *)
(* newline, a control character, the slash, a hex digit, a byte of UTF-8.  *)
Alphabet == {117, 110, QUOTE, BACKSLASH, 10, 1, 47, 48, 195}

HexOf(v) == [i \in 1 .. 4 |-> HexLetter((v \div 16^(4 - i)) % 16)]
Escape16(v) == <<BACKSLASH, LETTER_U>> \o HexOf(v)
Utf16(c) == IF c < 65536 THEN Escape16(c)
            ELSE Escape16(55296 + ((c - 65536) \div 1024)) \o Escape16(56320 + ((c - 65536) % 1024))

(* The code point of bytes in UTF-8: the lead byte says how many follow.   *)
RECURSIVE Bits(_, _)
Bits(b, v) == IF b = <<>> THEN v ELSE Bits(Tail(b), 64 * v + (Head(b) % 64))
DecodeUtf8(b) ==
  CASE Len(b) = 1 -> b[1]
    [] Len(b) = 2 -> Bits(Tail(b), b[1] - 192)
    [] Len(b) = 3 -> Bits(Tail(b), b[1] - 224)
    [] Len(b) = 4 -> Bits(Tail(b), b[1] - 240)
    [] OTHER -> -1

(* Whatever a string holds, its literal is read back byte for byte and the *)
(* parser stops right behind it, whatever follows; at every border of the  *)
(* encodings an escaped code point becomes the bytes that stand for it,    *)
(* and half a surrogate pair is refused (cjson.c:657, 778, 907).  This is  *)
(* about no state: the initial ones show it.                               *)
StringsReadBack ==
  calls = 0 =>
  /\ \A text \in UNION {[1 .. n -> Alphabet] : n \in 0 .. 3}, rest \in {<<>>, <<QUOTE, BACKSLASH>>} :
       LET literal == print_string_ptr(text)
       IN parse_string(literal \o rest, 1) = [ok |-> TRUE, text |-> text, next |-> Len(literal) + 1]
  /\ \A c \in {1, 127, 128, 2047, 2048, 55295, 57344, 65535, 65536, 66559, 66560, 1114111} :
       LET read == parse_string(<<QUOTE>> \o Utf16(c) \o <<QUOTE>>, 1)
       IN read.ok /\ DecodeUtf8(read.text) = c
  /\ \A half \in {55296, 56319, 56320, 57343} :
       ~parse_string(<<QUOTE>> \o Escape16(half) \o <<110, QUOTE>>, 1).ok
==============================================================================
