---------------------------- MODULE AdemcoFields ----------------------------
(***************************************************************************)
(* The fields of a packet's body as src/libademco/ademco.c writes and      *)
(* reads them: sequence number, account, data segment and xdata segment.   *)
(*                                                                         *)
(* A text field is a sequence of characters, each counted from '0': a      *)
(* decimal digit stands for itself.  Accounts are made of hexadecimal      *)
(* digits 0 .. 15.  Only xdata, whose bytes may be anything, is a sequence *)
(* of bytes.                                                               *)
(***************************************************************************)
EXTENDS Integers, Sequences, FiniteSets

CONSTANTS
  UlongDigits,  \* hexadecimal digits of an unsigned long: 8 or 16
  XdataMax      \* ADEMCO_PACKET_XDATA_MAX_LEN

ASSUME FieldsAssumption ==
  /\ UlongDigits \in {8, 16}
  /\ XdataMax \in 8 .. 256

Byte == 0 .. 255
WordMax == 65535
Word == 0 .. WordMax
EventMax == 9999
Event == 0 .. EventMax
Acct == Seq(0 .. 15)

EVENT_INVALID_EVENT == 0
ADEMCO_ID_SENTINEL == 1000000
ADEMCO_ZONE_SENTINEL == 1000
AcctMin == 6    \* ADEMCO_PACKET_ACCT_MIN_LEN
AcctMax == 18   \* ADEMCO_PACKET_ACCT_MAX_LEN
DataMax == 32   \* ADEMCO_PACKET_DATA_SEGMENT_FULL_LEN_MAX

Smaller(a, b) == IF a < b THEN a ELSE b

-----------------------------------------------------------------------------
(* ademco_dec_to_hex_str: the last n hexadecimal digits of v, n <= 6 *)
Pow16 == <<1, 16, 256, 4096, 65536, 1048576>>

HexText(v, n) == [i \in 1 .. n |-> (v \div Pow16[n - i + 1]) % 16]

(* The digit with k digits behind it, 0 in front of the first *)
DigitAt(d, k) == IF k < Len(d) THEN d[Len(d) - k] ELSE 0

(* The value of hexadecimal digits.  One with more than five digits is     *)
(* larger than ADEMCO_ID_SENTINEL, and nothing else is asked of it.        *)
HexValue(d) ==
  IF \E k \in 5 .. Len(d) - 1 : DigitAt(d, k) # 0 THEN ADEMCO_ID_SENTINEL + 1
  ELSE 65536 * DigitAt(d, 4) + 4096 * DigitAt(d, 3) + 256 * DigitAt(d, 2)
         + 16 * DigitAt(d, 1) + DigitAt(d, 0)

UnclippedAcct(acct) == acct   \* mutant: copies up to the '\0'

(* Up to eighteen characters of an account are copied. *)
Clip(acct) == SubSeq(acct, 1, Smaller(Len(acct), AcctMax))

(* #acct: the account, or the id when there is none *)
HeadAcct(acct, id) == IF acct = <<>> THEN HexText(id, 6) ELSE Clip(acct)

-----------------------------------------------------------------------------
(* seq, made from a seq that the caller has or has not reduced *)
SeqText(seq) ==
  << seq \div 1000, (seq % 1000) \div 100, (seq % 100) \div 10, seq % 10 >>

(* Reading passes over what is no digit. *)
AppendDigit(v, c) == IF c \in 0 .. 9 THEN 10 * v + c ELSE v

SeqValue(t) ==
  AppendDigit(AppendDigit(AppendDigit(AppendDigit(0, t[1]), t[2]), t[3]), t[4])

(* The gg characters: EE and CC are kept as such, other values are two     *)
(* decimal digits, the first of them cut to four bits.                     *)
GGText(gg) ==
  CASE gg = 238 -> <<21, 21>>
    [] gg = 204 -> <<19, 19>>
    [] OTHER    -> << (gg \div 10) % 16, gg % 10 >>

GGValue(t) ==
  CASE t = <<21, 21>> -> 238
    [] t = <<19, 19>> -> 204
    [] OTHER          -> (10 * t[1] + t[2]) % 256

-----------------------------------------------------------------------------
(* The data segment: [] or [#acct|event gg zone], and whether its last     *)
(* character is the bracket.                                               *)
EmptyData ==
  [acct |-> <<>>, event |-> 0, gg |-> <<0, 0>>, zone |-> 0, closed |-> TRUE]

DataAcct(acct, id) ==
  LET short == id % ADEMCO_ID_SENTINEL
  IN  IF acct # <<>> /\ short = 0 THEN Clip(acct) ELSE HexText(short, 6)

Data(acct, id, event, gg, zone) ==
  IF event = EVENT_INVALID_EVENT THEN EmptyData
  ELSE [ acct |-> DataAcct(acct, id), event |-> event, gg |-> GGText(gg),
         zone |-> zone % ADEMCO_ZONE_SENTINEL, closed |-> TRUE ]

DataLen(dat) == IF dat = EmptyData THEN 2 ELSE Len(dat.acct) + 15

(* A segment copied from ademco_data_t.raw, which has room for DataMax      *)
(* characters: behind it is raw_len, written after the segment and before  *)
(* the copy, so that a longer segment may have lost its bracket.           *)
Stored(dat, closed) ==
  [ acct |-> dat.acct, event |-> dat.event, gg |-> dat.gg, zone |-> dat.zone,
    closed |-> closed ]

(* ademco_parse_data wants at least six digits before the bar; without the *)
(* bracket no segment, or one that is too long, is found.                  *)
DataParses(dat) ==
  dat.closed /\ (dat = EmptyData \/ Len(dat.acct) \in AcctMin .. AcctMax)

(* strtoul stops at the largest unsigned long; the cast to ademco_id_t     *)
(* keeps 32 bits, eight digits; what is above the sentinel is no id.       *)
DataId(d) ==
  LET saturated == \E i \in 1 .. Len(d) - UlongDigits : d[i] # 0
      low == SubSeq(d, IF Len(d) > 8 THEN Len(d) - 7 ELSE 1, Len(d))
  IN  IF ~ saturated /\ HexValue(low) \in 0 .. ADEMCO_ID_SENTINEL
      THEN HexValue(low) ELSE 0

-----------------------------------------------------------------------------
(* ademco_xdata_t: the format it claims to have, and raw[0 .. raw_len-1] *)
TWO_HEX == "two_hex"
FOUR_DECIMAL == "four_decimal"
AS_IS == "as_is"
TO_ASCII == "to_ascii"
Formats == {TWO_HEX, FOUR_DECIMAL}
Xdata == [format : Formats, raw : Seq(Byte)]

NoXdata == [format |-> TWO_HEX, raw |-> <<>>]   \* after memset

(* ademco_hex2char *)
HexChar(h) == IF h > 9 THEN 55 + h ELSE 48 + h

(* ademco_char2hex *)
CharHex(c) ==
  CASE c \in 48 .. 57  -> c - 48
    [] c \in 65 .. 70  -> c - 55
    [] c \in 97 .. 102 -> c - 87
    [] OTHER           -> 255

(* ademco_hex_array_to_str *)
HexArrayToStr(bytes) ==
  [ i \in 1 .. 2 * Len(bytes) |->
      LET b == bytes[(i + 1) \div 2]
      IN  HexChar(IF i % 2 = 1 THEN b \div 16 ELSE b % 16) ]

(* strlen / 2: the pairs of characters in front of the first NUL *)
Pairs(chars) ==
  Cardinality({ i \in 1 .. Len(chars) \div 2 :
                  \A j \in 1 .. 2 * i : chars[j] # 0 })

HexStrToArrayLow(chars) ==   \* mutant: low digit first
  IF \E i \in 1 .. 2 * Pairs(chars) : CharHex(chars[i]) = 255 THEN <<>>
  ELSE [ i \in 1 .. Pairs(chars) |->
           CharHex(chars[2 * i - 1]) + 16 * CharHex(chars[2 * i]) ]

(* ademco_hex_str_to_array: a last odd digit is dropped *)
HexStrToArray(chars) ==
  IF \E i \in 1 .. 2 * Pairs(chars) : CharHex(chars[i]) = 255 THEN <<>>
  ELSE [ i \in 1 .. Pairs(chars) |->
           16 * CharHex(chars[2 * i - 1]) + CharHex(chars[2 * i]) ]

(* The length in front of the content: two bytes, or four characters,      *)
(* which are hexadecimal digits whatever the format's name says.           *)
LenSize(format) == IF format = TWO_HEX THEN 2 ELSE 4

LenBytesLow(format, n) ==   \* mutant: low byte first
  IF format = TWO_HEX THEN << n % 256, n \div 256 >>
  ELSE [i \in 1 .. 4 |-> HexChar(HexText(n, 4)[i])]

LenBytes(format, n) ==
  IF format = TWO_HEX THEN << n \div 256, n % 256 >>
  ELSE [i \in 1 .. 4 |-> HexChar(HexText(n, 4)[i])]

(* ademco_xdata_get_valid_content_len and _addr *)
ContentLen(x) ==
  IF Len(x.raw) > LenSize(x.format) + 2
  THEN Len(x.raw) - LenSize(x.format) - 2 ELSE 0

Content(x) ==
  SubSeq(x.raw, LenSize(x.format) + 2, LenSize(x.format) + 1 + ContentLen(x))

MakeXdataFull(x, format, transform, content) ==   \* mutant: <= for <
  LET text == IF transform = AS_IS THEN content ELSE HexArrayToStr(content)
  IN  IF transform = TO_ASCII /\ 2 * Len(content) >= XdataMax THEN x
      ELSE IF Len(text) + LenSize(format) + 2 > XdataMax
           THEN [format |-> format, raw |-> x.raw]
      ELSE [ format |-> format,
             raw |-> <<91>> \o LenBytes(format, Len(text)) \o text \o <<93>> ]

(* ademco_make_xdata: the new xdata, which after a failure may already     *)
(* claim the new format                                                    *)
MakeXdata(x, format, transform, content) ==
  LET text == IF transform = AS_IS THEN content ELSE HexArrayToStr(content)
  IN  IF transform = TO_ASCII /\ 2 * Len(content) >= XdataMax THEN x
      ELSE IF Len(text) + LenSize(format) + 2 >= XdataMax
           THEN [format |-> format, raw |-> x.raw]
      ELSE [ format |-> format,
             raw |-> <<91>> \o LenBytes(format, Len(text)) \o text \o <<93>> ]

(* ademco_xdata_convert; its result says only that the format was another *)
Convert(x, format) ==
  IF x.format = format THEN x
  ELSE IF format = TWO_HEX
       THEN IF ContentLen(x) + 6 > XdataMax THEN x
            ELSE MakeXdata(x, TWO_HEX, AS_IS, HexStrToArray(Content(x)))
  ELSE MakeXdata(x, FOUR_DECIMAL, TO_ASCII, Content(x))

(* The xdata part of ademco_parse_packet: four hexadecimal digits after    *)
(* the bracket mean FOUR_DECIMAL.                                          *)
XdataFormat(raw) ==
  IF \A i \in 2 .. 5 : i <= Len(raw) /\ CharHex(raw[i]) # 255
  THEN FOUR_DECIMAL ELSE TWO_HEX

XdataLen(raw) ==
  IF XdataFormat(raw) = TWO_HEX THEN 256 * raw[2] + raw[3]
  ELSE HexValue([i \in 1 .. 4 |-> CharHex(raw[i + 1])])

(* The closing bracket is where the length says. *)
XdataParses(raw) ==
  /\ Len(raw) = XdataLen(raw) + LenSize(XdataFormat(raw)) + 2
  /\ raw[Len(raw)] = 93
=============================================================================
