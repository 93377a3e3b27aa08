---------------------------- MODULE AdemcoPacket ----------------------------
(***************************************************************************)
(* One ademco_packet_t used for everything, in any order: packets are made *)
(* from arguments (ademco_make_*_packet2) or in place from what the        *)
(* structure holds (ademco_make_hb_packet3), parsed into the same          *)
(* structure, and its xdata is converted in between, as a program that     *)
(* forwards packets does.  Checksum, length and timestamp of a packet are  *)
(* the business of AdemcoFrame.                                            *)
(***************************************************************************)
EXTENDS AdemcoFields

CONSTANTS
  Requests,   \* the arguments callers give to the make functions
  Contents,   \* the xdata contents they give
  PacketMax   \* ADEMCO_PACKET_MAX_LEN

EmptyIds == {"NULL", "ACK", "NAK"}   \* packets with [] as data segment
DataIds == {"HB", "ADM_CID"}

Request == [ seq : Word, acct : Acct, ademco_id : Nat,
             event : Event, gg : Byte, zone : Word ]

ASSUME PacketAssumption ==
  /\ Requests \subseteq Request
  /\ \A r \in Requests : r.acct = <<>> \/ Len(r.acct) >= AcctMin
  /\ Contents \subseteq Seq(Byte)
  /\ \A c \in Contents : Len(c) <= XdataMax   \* copied before it is measured
  /\ PacketMax \in Nat
  /\ PacketMax >= XdataMax + 109

VARIABLES
  pkt,      \* the structure, without the copies of the packet and its parts
  wire,     \* pkt->raw, field by field
  asked,    \* what wire was asked to say (history)
  payload,  \* the bytes pkt's xdata stands for, or Lost (history)
  parsed    \* whether pkt was just parsed from wire (history)

vars == << pkt, wire, asked, payload, parsed >>

Packet == [ id : EmptyIds \cup DataIds, seq : Word, acct : Acct,
            ademco_id : Nat, event : Event, gg : Byte, zone : Word,
            xdata : Xdata ]

Wire == [ id : EmptyIds \cup DataIds, seq : Seq(0 .. 65), acct : Acct,
          dat : [ acct : Acct, event : Event, gg : Seq(0 .. 21),
                  zone : 0 .. ADEMCO_ZONE_SENTINEL - 1, closed : BOOLEAN ],
          xdata : Seq(Byte) ]

Lost == <<-1>>

-----------------------------------------------------------------------------
(* "id", with its quotes *)
IdLen(id) == CASE id = "NULL" -> 6 [] id \in {"ACK", "NAK"} -> 5 [] OTHER -> 9

(* packet_len: LF crc len "id" seq R123ABC L456DEF #acct dat xdata         *)
(* timestamp CR                                                            *)
PacketLen(w) ==
  9 + IdLen(w.id) + 4 + 7 + 7 + 1 + Len(w.acct) + DataLen(w.dat)
    + Len(w.xdata) + 20 + 1

(* What the packet should say: the request with the id, the xdata segment  *)
(* and the bytes it stands for.                                            *)
Ask(id, r, xdata, bytes) ==
  [id |-> id, request |-> r, xdata |-> xdata, payload |-> bytes]

NoRequest == [ seq |-> 0, acct |-> <<>>, ademco_id |-> 0, event |-> 0,
               gg |-> 0, zone |-> 0 ]

(* A structure set to zero, and the packet NULL made from it. *)
Init ==
  /\ pkt = [ id |-> "NULL", seq |-> 0, acct |-> <<>>, ademco_id |-> 0,
             event |-> 0, gg |-> 0, zone |-> 0, xdata |-> NoXdata ]
  /\ wire = [ id |-> "NULL", seq |-> SeqText(0), acct |-> HexText(0, 6),
              dat |-> EmptyData, xdata |-> <<>> ]
  /\ asked = Ask("NULL", NoRequest, <<>>, <<>>)
  /\ payload = <<>>
  /\ parsed = FALSE

(* ademco_make_null_packet2, _ack_packet2, _nak_packet2: the data and xdata *)
(* the structure held before stay in it.                                   *)
MakeEmpty(id, r) ==
  /\ pkt' = [ pkt EXCEPT !.id = id, !.seq = r.seq, !.acct = Clip(r.acct),
                         !.ademco_id = r.ademco_id ]
  /\ wire' = [ id |-> id, seq |-> SeqText(r.seq % 10000),
               acct |-> HeadAcct(r.acct, r.ademco_id),
               dat |-> EmptyData, xdata |-> <<>> ]
  /\ asked' = Ask(id, r, <<>>, <<>>)
  /\ parsed' = FALSE
  /\ UNCHANGED payload

(* ademco_make_hb_packet2, _adm_packet2: the structure gets the arguments  *)
(* as they are, the packet gets them reduced.                              *)
MakeWith(id, r, xdata, bytes) ==
  /\ pkt' = [ id |-> id, seq |-> r.seq, acct |-> Clip(r.acct),
              ademco_id |-> r.ademco_id, event |-> r.event, gg |-> r.gg,
              zone |-> r.zone, xdata |-> xdata ]
  /\ wire' = [ id |-> id, seq |-> SeqText(r.seq % 10000),
               acct |-> HeadAcct(r.acct, r.ademco_id),
               dat |-> Data(r.acct, r.ademco_id, r.event, r.gg, r.zone),
               xdata |-> xdata.raw ]
  /\ asked' = Ask(id, r, xdata.raw, bytes)
  /\ payload' = bytes
  /\ parsed' = FALSE

(* xdat = NULL *)
MakeData(id, r) == MakeWith(id, r, NoXdata, <<>>)

(* The bytes that xdata made of content stands for: what TO_ASCII spells   *)
(* in a FOUR_DECIMAL segment, the content as it is in a TWO_HEX one.       *)
Meaning(format, transform, content) ==
  CASE format = FOUR_DECIMAL /\ transform = TO_ASCII -> content
    [] format = TWO_HEX /\ transform = AS_IS         -> content
    [] format = TWO_HEX /\ transform = TO_ASCII      -> HexArrayToStr(content)
    [] OTHER                                         -> Lost

(* The caller makes the xdata first; one that did not fit is left out. *)
MakeDataXdata(id, r, format, transform, content) ==
  LET x == MakeXdata(NoXdata, format, transform, content)
  IN  /\ x.raw # <<>>
      /\ MakeWith(id, r, x, Meaning(format, transform, content))

(* The structure's own members as arguments *)
Held == [ seq |-> pkt.seq, acct |-> pkt.acct, ademco_id |-> pkt.ademco_id,
          event |-> pkt.event, gg |-> pkt.gg, zone |-> pkt.zone ]

(* ademco_make_hb_packet3: made of what the structure holds.  seq is not   *)
(* reduced, pkt->id is not set, id and zone are reduced in place, and the  *)
(* data segment is copied from where it was put together.                  *)
MakeInPlace ==
  /\ LET dat == Data(pkt.acct, pkt.ademco_id, pkt.event, pkt.gg, pkt.zone)
     IN  \E closed \in BOOLEAN :
           /\ DataLen(dat) <= DataMax => closed
           /\ wire' = [ id |-> "HB", seq |-> SeqText(pkt.seq),
                        acct |-> HeadAcct(pkt.acct, pkt.ademco_id),
                        dat |-> Stored(dat, closed),
                        xdata |-> pkt.xdata.raw ]
  /\ pkt' = IF pkt.event = EVENT_INVALID_EVENT THEN pkt
            ELSE [ pkt EXCEPT !.ademco_id = @ % ADEMCO_ID_SENTINEL,
                              !.zone = @ % ADEMCO_ZONE_SENTINEL ]
  /\ asked' = Ask("HB", Held, pkt.xdata.raw, payload)
  /\ parsed' = FALSE
  /\ UNCHANGED payload

(* ademco_xdata_convert(&pkt->xdata, format).  When the converted segment  *)
(* has no room the format is changed without the bytes.                    *)
ConvertXdata(format) ==
  LET x == Convert(pkt.xdata, format)
  IN  /\ pkt' = [pkt EXCEPT !.xdata = x]
      /\ payload' = IF x.format # pkt.xdata.format /\ x.raw = pkt.xdata.raw
                    THEN Lost ELSE payload
      /\ parsed' = FALSE
      /\ UNCHANGED << wire, asked >>

-----------------------------------------------------------------------------
(* The data members ademco_parse_data sets *)
ParsedData(p, dat) ==
  IF dat = EmptyData
  THEN [ p EXCEPT !.ademco_id = 0, !.event = EVENT_INVALID_EVENT,
                  !.gg = 0, !.zone = 0 ]
  ELSE [ p EXCEPT !.ademco_id = DataId(dat.acct), !.event = dat.event,
                  !.gg = GGValue(dat.gg), !.zone = dat.zone ]

KeptXdata(x, raw) ==   \* mutant: raw_len is not cleared
  IF raw = <<>> THEN x ELSE [format |-> XdataFormat(raw), raw |-> raw]

(* Without an xdata segment only raw_len is set. *)
ParsedXdata(x, raw) ==
  IF raw = <<>> THEN [format |-> x.format, raw |-> <<>>]
  ELSE [format |-> XdataFormat(raw), raw |-> raw]

(* ademco_parse_packet of a packet that is well formed *)
Parses(w) ==
  /\ PacketLen(w) < PacketMax
  /\ DataParses(w.dat)
  /\ w.xdata # <<>> => XdataParses(w.xdata)

Parse ==
  /\ Parses(wire)
  /\ pkt' = ParsedData(
              [ pkt EXCEPT !.id = wire.id, !.seq = SeqValue(wire.seq),
                           !.acct = wire.acct,
                           !.xdata = ParsedXdata(@, wire.xdata) ],
              wire.dat)
  /\ payload' = asked.payload
  /\ parsed' = TRUE
  /\ UNCHANGED << wire, asked >>

Next ==
  \/ \E id \in EmptyIds, r \in Requests : MakeEmpty(id, r)
  \/ \E id \in DataIds, r \in Requests : MakeData(id, r)
  \/ \E id \in DataIds, r \in Requests, f \in Formats, t \in {AS_IS, TO_ASCII},
        c \in Contents : MakeDataXdata(id, r, f, t, c)
  \/ MakeInPlace
  \/ \E f \in Formats : ConvertXdata(f)
  \/ Parse

Spec == Init /\ [][Next]_vars

-----------------------------------------------------------------------------
(* The structure and the packet keep their types; xdata stays shorter than *)
(* the array that holds it.                                                *)
TypeOK ==
  /\ pkt \in Packet
  /\ wire \in Wire
  /\ Len(pkt.xdata.raw) < XdataMax
  /\ payload \in Seq(Byte) \cup {Lost}
  /\ parsed \in BOOLEAN

(* Every packet fits, with its '\0', into the PacketMax bytes it is put    *)
(* together in before its length is looked at, whatever the account and    *)
(* however the xdata came about.                                           *)
MadePacketFits == PacketLen(wire) < PacketMax

(* Every packet that is made is accepted by ademco_parse_packet, unless    *)
(* ademco_make_hb_packet3 made it with an account of eighteen digits and   *)
(* lost the bracket of its data segment.                                   *)
MadePacketParses ==
  Parses(wire) \/ (~ wire.dat.closed /\ DataLen(wire.dat) > DataMax)

(* A packet says what it was asked to say, whatever the structure it is    *)
(* parsed into held before: numbers that are in the ranges of ademco.h     *)
(* arrive as they are, and so does the account, or the id in its place.    *)
Says(p, a) ==
  LET r == a.request
  IN  /\ p.id = a.id
      /\ r.seq <= 9999 => p.seq = r.seq
      /\ p.acct = IF r.acct = <<>> THEN HexText(r.ademco_id, 6) ELSE Clip(r.acct)
      /\ p.xdata.raw = a.xdata
      /\ a.id \in EmptyIds => p.event = EVENT_INVALID_EVENT
      /\ a.id \in DataIds /\ r.event # EVENT_INVALID_EVENT =>
           /\ p.event = r.event
           /\ r.zone <= 999 => p.zone = r.zone
           /\ r.gg \in 0 .. 99 \cup {204, 238} => p.gg = r.gg
           /\ r.ademco_id \in 1 .. ADEMCO_ID_SENTINEL - 1 =>
                p.ademco_id = r.ademco_id
           /\ r.ademco_id = 0 /\ r.acct = <<>> => p.ademco_id = 0

RoundTrip == parsed => Says(pkt, asked)

(* However often packets with xdata are made, parsed, made again and their *)
(* xdata converted, the segment stands for the same bytes: as they are in  *)
(* TWO_HEX, as their hexadecimal digits in FOUR_DECIMAL.  payload is Lost  *)
(* where a conversion had no room or the caller gave text as it is.        *)
XdataKept ==
  payload # Lost =>
    Content(pkt.xdata) = IF pkt.xdata.format = TWO_HEX THEN payload
                         ELSE HexArrayToStr(payload)

(* The comment in ademco_parse_data on an account in the place of the id,  *)
(* 'ademco_id maybe acct like "861234567890"', and the INVALID that follows *)
(* it: an account that is no six-digit id is not read as the id of a host. *)
LongAccountIsNoId ==
  parsed /\ asked.request.ademco_id = 0 /\ Len(asked.request.acct) > 6
    => pkt.ademco_id = 0
=============================================================================
