----------------------------- MODULE AdemcoFrame -----------------------------
(***************************************************************************)
(* The framing half of ademco_parse_packet (src/libademco/ademco.c): what  *)
(* the parser decides about the bytes buf[0 .. len-1], up to the point     *)
(* where the body of a CRC-correct frame is handed to the field parsers.   *)
(*                                                                         *)
(* A byte stream is a sequence s of bytes; the parser is called on the     *)
(* len bytes that start at offset o, so buf[i] is s[o + i + 1].  A frame is *)
(*                                                                         *)
(*    LF  crc(4 hex digits)  len(4 hex digits)  body(len bytes)  CR        *)
(*                                                                         *)
(* The three results of the parser are two predicates, Waits (NOT_ENOUGH)  *)
(* and Accepts (OK), and a set: ErrorCommits has the values that           *)
(* *cb_commited may have when the result is ERROR.                         *)
(***************************************************************************)
EXTENDS Integers, Sequences

CONSTANTS
  MaxLen,        \* ADEMCO_PACKET_MAX_LEN: a frame must be shorter than this
  Crc16(_),      \* ademco_crc16 of the bytes of a body
  BodyErrors(_), \* the offsets from the frame's LF at which a field parser
                 \* may give up on a body; {} when its fields parse
  Streams        \* the byte streams a peer may send over one connection

Byte == 0 .. 255

-----------------------------------------------------------------------------
LF == 10   \* ADEMCO_PACKET_PREFIX
CR == 13   \* ADEMCO_PACKET_SUFIX

(* ademco_char2hex: the value of a hexadecimal digit, 0xFF for any other byte *)
Char2Hex(c) ==
  IF c \in 48 .. 57 THEN c - 48
  ELSE IF c \in 65 .. 70 THEN c - 55
  ELSE IF c \in 97 .. 102 THEN c - 87
  ELSE 255

IsHex(c) == Char2Hex(c) # 255

(* buf[i] for the parser called at offset o *)
At(s, o) == s[o + 1]

(* The four-digit fields; crc is uint16_t and four digits fill it exactly. *)
HexField(s, o) ==
  4096 * Char2Hex(At(s, o)) + 256 * Char2Hex(At(s, o + 1))
    + 16 * Char2Hex(At(s, o + 2)) + Char2Hex(At(s, o + 3))

CrcField(s, o) == HexField(s, o + 1)
LenField(s, o) == HexField(s, o + 5)

(* len_needed *)
FrameLen(s, o) == 9 + LenField(s, o) + 1

Body(s, o) == SubSeq(s, o + 10, o + 9 + LenField(s, o))

(* LF followed by eight hexadecimal digits *)
Header(s, o) ==
  /\ At(s, o) = LF
  /\ \A i \in 1 .. 8 : IsHex(At(s, o + i))

(* The checks between the header and the first field; they are made only   *)
(* when all FrameLen(s, o) bytes are there.                                *)
Framed(s, o) ==
  /\ Header(s, o)
  /\ FrameLen(s, o) < MaxLen
  /\ At(s, o + FrameLen(s, o) - 1) = CR
  /\ Crc16(Body(s, o)) = CrcField(s, o)

-----------------------------------------------------------------------------
(* ADEMCO_PARSE_RESULT_NOT_ENOUGH: nothing is consumed.  The length is     *)
(* compared with what has arrived before it is compared with MaxLen.       *)
Waits(s, o, len) ==
  \/ len < 9
  \/ /\ len >= 9
     /\ Header(s, o)
     /\ len < FrameLen(s, o)

(* ADEMCO_PARSE_RESULT_OK: FrameLen(s, o) bytes are consumed *)
Accepts(s, o, len) ==
  /\ len >= 9
  /\ Header(s, o)
  /\ len >= FrameLen(s, o)
  /\ Framed(s, o)
  /\ BodyErrors(Body(s, o)) = {}

(* Three ways to fail before the fields, with the k bytes each reports as  *)
(* consumed: everything before the next LF; the header up to its first     *)
(* byte that is no digit; the header of a frame that is too long, has no   *)
(* CR or a wrong CRC.                                                      *)
DiscardsJunk(s, o, len, k) ==
  /\ \A i \in 0 .. k - 1 : At(s, o + i) # LF
  /\ k < len => At(s, o + k) = LF

DiscardsHeader(s, o, k) ==
  /\ At(s, o) = LF
  /\ k \in 1 .. 8
  /\ \A i \in 1 .. k - 1 : IsHex(At(s, o + i))
  /\ ~ IsHex(At(s, o + k))

DiscardsWholeFrame(s, o, len, k) ==   \* mutant: all len_needed bytes go
  /\ Header(s, o)
  /\ len >= FrameLen(s, o)
  /\ ~ Framed(s, o)
  /\ k = FrameLen(s, o)

DiscardsUnframed(s, o, len, k) ==
  /\ Header(s, o)
  /\ len >= FrameLen(s, o)
  /\ ~ Framed(s, o)
  /\ k = 9

(* The fourth: a field parser gives up.  It commits the distance from the  *)
(* LF to its p, and nothing keeps p inside the frame, or inside the len    *)
(* bytes: four digits are read behind a short id without a look at pend,   *)
(* and p is moved by the length that a field of extra data announces, up   *)
(* to 65535 bytes on, or back where the char that holds it is negative,    *)
(* before it is compared with pend.  What p then points at depends on what *)
(* follows the frame, so a body has a set of offsets.                      *)
BodyCommits(s, o, len) ==
  IF Header(s, o) /\ len >= FrameLen(s, o) /\ Framed(s, o)
  THEN BodyErrors(Body(s, o))
  ELSE {}

(* ADEMCO_PARSE_RESULT_ERROR: the values *cb_commited may have *)
ErrorCommits(s, o, len) ==
  IF len < 9
  THEN {}
  ELSE {k \in 1 .. len : \/ DiscardsJunk(s, o, len, k)
                         \/ DiscardsHeader(s, o, k)
                         \/ DiscardsUnframed(s, o, len, k)}
         \cup BodyCommits(s, o, len)

-----------------------------------------------------------------------------
(* A frame the parser accepts lies complete at offset o of the stream.     *)
IsFrame(s, o) ==
  /\ o + 9 <= Len(s)
  /\ Accepts(s, o, Len(s) - o)

(* A CRC-correct frame whose body the field parsers reject lies there.     *)
IsBadBody(s, o) ==
  /\ o + 9 <= Len(s)
  /\ Header(s, o)
  /\ o + FrameLen(s, o) <= Len(s)
  /\ Framed(s, o)
  /\ BodyErrors(Body(s, o)) # {}

(* An offset is an integer: p may also have been moved back.               *)
ASSUME FrameAssumption ==
  /\ MaxLen \in Nat
  /\ Streams \subseteq Seq(Byte)
  /\ \A s \in Streams : \A o \in 0 .. Len(s) - 9 :
       IsBadBody(s, o) => BodyErrors(Body(s, o)) \subseteq Int
=============================================================================
