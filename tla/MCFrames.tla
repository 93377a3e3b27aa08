------------------------------- MODULE MCFrames -------------------------------
(***************************************************************************)
(* Byte streams for TLC: a checksum, a field parser and pieces of streams  *)
(* for the modules built on AdemcoFrame.                                   *)
(***************************************************************************)
EXTENDS Integers, Sequences

MCMaxLen == 32

(* A checksum that tells the bodies below apart; two hex digits suffice.   *)
MCCrc16(b) ==
  IF b = <<>> THEN 1 ELSE (b[1] + 3 * b[Len(b)] + 7 * Len(b)) % 251

(* A body is a quotation mark, then anything.  Its last byte says where a  *)
(* field parser stops: "!" at the CR, "+" three bytes past the frame (the  *)
(* digits of seq behind an id that ends the body), "*" far past it (a      *)
(* length of extra data), "-" at the LF or before it (a negative one).     *)
MCBodyErrors(b) ==
  CASE b = <<>> \/ b[1] # 34 -> {9}
    [] b[Len(b)] = 33        -> {9 + Len(b)}
    [] b[Len(b)] = 43        -> {9 + Len(b) + 4}
    [] b[Len(b)] = 42        -> {9 + Len(b) + 20}
    [] b[Len(b)] = 45        -> {0, -12, -13}
    [] OTHER                 -> {}

HexDigit(d) == IF d < 10 THEN 48 + d ELSE 55 + d

Field(n) == <<48, 48, HexDigit(n \div 16), HexDigit(n % 16)>>

Pack(crc, len, b) == <<10>> \o Field(crc) \o Field(len) \o b \o <<13>>

Frame(b) == Pack(MCCrc16(b), Len(b), b)

(* Frames: a plain one, one with an LF in its body (as a binary xdata      *)
(* length may put there), one whose body is a whole frame                  *)
Plain   == Frame(<<34, 88>>)
WithLF  == Frame(<<34, 10, 48>>)
Nesting == Frame(<<34>> \o Plain)

(* CRC-correct frames that the field parsers refuse *)
BadId   == Frame(<<88>>)
BadTail == Frame(<<34, 10, 33>>)
BadSeq  == Frame(<<34, 43>>)
BadLong == Frame(<<34, 42>>)
BadBack == Frame(<<34, 45>>)

(* Damaged frames: wrong CRC, CR lost, cut in the header, a length that no *)
(* frame may have, a length that reaches over the next frame               *)
WrongCrc  == Pack(0, 2, <<34, 88>>)
NoCr      == SubSeq(Plain, 1, 11)
CutHeader == SubSeq(Plain, 1, 5)
TooLong   == <<10>> \o Field(0) \o Field(64)
Swallows  == <<10>> \o Field(0) \o Field(13)

(* Loose bytes *)
Loose   == <<88>>
LooseLF == <<10>>

Good  == {Plain, WithLF, Nesting}
Refused == {BadId, BadTail, BadSeq, BadLong, BadBack}
Noise == Refused \cup {WrongCrc, NoCr, CutHeader, TooLong, Swallows, Loose, LooseLF}
=============================================================================
