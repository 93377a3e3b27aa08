--------------------------- MODULE MCAdemcoPacket ---------------------------
(* AdemcoPacket with an xdata segment of up to 13 bytes: a content of four *)
(* to six bytes fits as it is but not in hexadecimal digits.               *)
EXTENDS AdemcoPacket

Phone == <<8, 6, 1, 2, 0, 0, 0, 1, 2, 3, 4, 5>>
Mac == <<13, 14, 10, 13, 11, 14, 14, 15, 0, 0, 0, 1>>
Long == [i \in 1 .. 20 |-> i % 10]

R(seq, acct, id, event, gg, zone) ==
  [ seq |-> seq, acct |-> acct, ademco_id |-> id, event |-> event, gg |-> gg,
    zone |-> zone ]

MCRequests ==
  { R(1, <<>>, 0, 1130, 99, 999), R(9999, <<>>, 999999, 3400, 204, 200),
    R(10000, <<>>, 1000000, 1130, 160, 1000), R(12345, Phone, 0, 1704, 238, 0),
    R(300, Long, 0, 1400, 1, 98), R(4000, Mac, 18, 0, 0, 0) }

MCContents ==
  { <<>>, <<0, 93>>, <<48, 48, 48, 48>>, <<1, 2, 3, 4, 5, 6, 7, 235>> }
=============================================================================
