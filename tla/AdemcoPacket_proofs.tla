------------------------- MODULE AdemcoPacket_proofs -------------------------
(***************************************************************************)
(* The theorems of AdemcoPacket, for every account, request and xdata      *)
(* content and every order of making, parsing and converting: every packet *)
(* fits, is accepted and says what it was asked to say, and xdata keeps    *)
(* its meaning.                                                            *)
(***************************************************************************)
EXTENDS AdemcoPacket, FiniteSetTheorems, SequenceTheorems, TLAPS

-----------------------------------------------------------------------------
(* The inductive invariant. *)

(* An account that is empty or has digits enough to be read back *)
LongEnough(acct) == acct = <<>> \/ Len(acct) >= AcctMin

(* An xdata segment: bracket, length, content, bracket *)
Bracketed(head, text) == <<91>> \o head \o text \o <<93>>

Segment(format, text) == Bracketed(LenBytes(format, Len(text)), text)

Fits(format, text) == Len(text) + LenSize(format) + 2 < XdataMax

(* raw is empty or a segment of some format, which need not be the one the *)
(* structure claims. *)
SegmentOrNone(raw) ==
  \/ raw = <<>>
  \/ \E format \in Formats, text \in Seq(Byte) :
       Fits(format, text) /\ raw = Segment(format, text)

(* How bytes are written in a format *)
Spell(format, bytes) == IF format = TWO_HEX THEN bytes ELSE HexArrayToStr(bytes)

(* x is what bytes are written as, in the format it claims. *)
Stands(x, bytes) ==
  \/ x.raw = <<>> /\ bytes = <<>>
  \/ /\ Fits(x.format, Spell(x.format, bytes))
     /\ x.raw = Segment(x.format, Spell(x.format, bytes))

XdataOK(x, bytes) ==
  /\ SegmentOrNone(x.raw)
  /\ bytes # Lost => Stands(x, bytes)

(* The xdata structure that a parser makes of a segment *)
Read(raw) == [format |-> XdataFormat(raw), raw |-> raw]

Asked == [ id : EmptyIds \cup DataIds, request : Request, xdata : Seq(Byte),
           payload : Seq(Byte) \cup {Lost} ]

(* The four digits on the wire are the sequence number that r has. *)
SaysSeq(w, r) == r.seq <= 9999 => w.seq = SeqText(r.seq)

(* w is the packet that a asks for; only a data segment that is too long   *)
(* may lack its bracket. *)
WireSays(w, a) ==
  LET r == a.request
      dat == Data(r.acct, r.ademco_id, r.event, r.gg, r.zone)
  IN  /\ w.id = a.id
      /\ SaysSeq(w, r)
      /\ w.acct = HeadAcct(r.acct, r.ademco_id)
      /\ w.xdata = a.xdata
      /\ a.id \in EmptyIds => w.dat = EmptyData
      /\ a.id \in DataIds =>
           \E closed \in BOOLEAN :
             /\ w.dat = Stored(dat, closed)
             /\ DataLen(dat) <= DataMax => closed

IInv ==
  /\ TypeOK
  /\ asked \in Asked
  /\ LongEnough(pkt.acct)
  /\ LongEnough(asked.request.acct)
  /\ WireSays(wire, asked)
  /\ XdataOK(pkt.xdata, payload)
  /\ XdataOK(Read(wire.xdata), asked.payload)
  /\ RoundTrip

-----------------------------------------------------------------------------
(* Sequences and numbers. *)

(* A function on 1 .. n is a sequence of length n.  Zenon applies it where *)
(* n is a number, SMT does not. *)
LEMMA FunctionIsSeq ==
  \A S, f : \A n \in Nat :
    f \in [1 .. n -> S] => f \in Seq(S) /\ Len(f) = n
OBVIOUS

(* AcctMax is kept folded: SMT reasons better about a name than about 18. *)
LEMMA AcctMaxNat == AcctMax \in Nat /\ AcctMin = 6 /\ 6 <= AcctMax
BY DEF AcctMax, AcctMin

(* The digits of HexText(v, 4), the length in a FOUR_DECIMAL segment. *)
LEMMA HexTextFour ==
  ASSUME NEW v \in Nat
  PROVE  /\ HexText(v, 4) \in [1 .. 4 -> 0 .. 15]
         /\ HexText(v, 4)[1] = (v \div 4096) % 16
         /\ HexText(v, 4)[2] = (v \div 256) % 16
         /\ HexText(v, 4)[3] = (v \div 16) % 16
         /\ HexText(v, 4)[4] = v % 16
<1> DEFINE t == HexText(v, 4)
<1>1. /\ t[1] = (v \div 4096) % 16
      /\ t[2] = (v \div 256) % 16
      /\ t[3] = (v \div 16) % 16
      /\ t[4] = (v \div 1) % 16
      /\ t = [i \in 1 .. 4 |-> t[i]]
  BY SMT DEF HexText, Pow16
<1> HIDE DEF t
<1>2. v \div 1 = v
  BY SMT
<1>3. t[1] \in 0 .. 15 /\ t[2] \in 0 .. 15 /\ t[3] \in 0 .. 15 /\ t[4] \in 0 .. 15
  BY SMT, <1>1, <1>2
<1>4. \A i \in 1 .. 4 : t[i] \in 0 .. 15
  BY SMT, <1>3
<1>5. t \in [1 .. 4 -> 0 .. 15]
  BY SMT, <1>1, <1>4
<1> QED BY SMT, <1>1, <1>2, <1>5 DEF t

LEMMA HexTextFourDigits ==
  ASSUME NEW v \in Nat
  PROVE  HexText(v, 4) \in [1 .. 4 -> 0 .. 15]
BY SMT, HexTextFour

(* The digits of HexText(v, 6), a number in the place of an account. *)
LEMMA HexTextSix ==
  ASSUME NEW v \in Nat
  PROVE  /\ HexText(v, 6) \in Acct
         /\ Len(HexText(v, 6)) = 6
         /\ HexText(v, 6)[1] = (v \div 1048576) % 16
         /\ HexText(v, 6)[2] = (v \div 65536) % 16
         /\ HexText(v, 6)[3] = (v \div 4096) % 16
         /\ HexText(v, 6)[4] = (v \div 256) % 16
         /\ HexText(v, 6)[5] = (v \div 16) % 16
         /\ HexText(v, 6)[6] = v % 16
<1> DEFINE t == HexText(v, 6)
<1>1. /\ t[1] = (v \div 1048576) % 16
      /\ t[2] = (v \div 65536) % 16
      /\ t[3] = (v \div 4096) % 16
      /\ t[4] = (v \div 256) % 16
      /\ t[5] = (v \div 16) % 16
      /\ t[6] = (v \div 1) % 16
      /\ t = [i \in 1 .. 6 |-> t[i]]
  BY SMT DEF HexText, Pow16
<1> HIDE DEF t
<1>2. v \div 1 = v
  BY SMT
<1>3. /\ t[1] \in 0 .. 15 /\ t[2] \in 0 .. 15 /\ t[3] \in 0 .. 15
      /\ t[4] \in 0 .. 15 /\ t[5] \in 0 .. 15 /\ t[6] \in 0 .. 15
  BY SMT, <1>1, <1>2
<1>4. \A i \in 1 .. 6 : t[i] \in 0 .. 15
  BY SMT, <1>3
<1>5. t \in [1 .. 6 -> 0 .. 15]
  BY SMT, <1>1, <1>4
<1>6. 6 \in Nat
  OBVIOUS
<1>7. t \in Acct /\ Len(t) = 6
  BY <1>5, <1>6, FunctionIsSeq, Zenon DEF Acct
<1> QED BY SMT, <1>1, <1>2, <1>7 DEF t

(* A number is its last digit and the ones before it. *)
LEMMA DivideBy16 ==
  \A n \in Nat : /\ n \div 16 \in Nat
                 /\ n % 16 \in 0 .. 15
                 /\ n = 16 * (n \div 16) + (n % 16)
BY SMT

(* Dividing step by step is dividing at once. *)
LEMMA DivideAgain ==
  ASSUME NEW v \in Nat
  PROVE  /\ v \div 256 = (v \div 16) \div 16
         /\ v \div 4096 = (v \div 256) \div 16
         /\ v \div 65536 = (v \div 4096) \div 16
         /\ v \div 1048576 = (v \div 65536) \div 16
BY SMT

(* Large bounds are kept folded, like AcctMax. *)
Two16 == 65536

(* The hexadecimal digits of a number give the number back. *)
LEMMA HexBackSix ==
  ASSUME NEW v \in Nat, v < ADEMCO_ID_SENTINEL
  PROVE  /\ (v \div 1048576) % 16 = 0
         /\ 65536 * ((v \div 65536) % 16) + 4096 * ((v \div 4096) % 16)
              + 256 * ((v \div 256) % 16) + 16 * ((v \div 16) % 16)
              + (v % 16) = v
<1>1. v \div 1048576 = 0 /\ v \div 65536 < 16
  BY SMT DEF ADEMCO_ID_SENTINEL
<1>2. PICK a \in Nat : a = v \div 16
  BY DivideBy16
<1>3. PICK b \in Nat : b = a \div 16
  BY DivideBy16
<1>4. PICK c \in Nat : c = b \div 16
  BY DivideBy16
<1>5. PICK d \in Nat : d = c \div 16
  BY DivideBy16
<1>6. v \div 256 = b /\ v \div 4096 = c /\ v \div 65536 = d
  BY SMT, <1>2, <1>3, <1>4, <1>5, DivideAgain
<1>7. /\ v = 16 * a + (v % 16) /\ v % 16 \in 0 .. 15
      /\ a = 16 * b + (a % 16) /\ a % 16 \in 0 .. 15
      /\ b = 16 * c + (b % 16) /\ b % 16 \in 0 .. 15
      /\ c = 16 * d + (c % 16) /\ c % 16 \in 0 .. 15
  BY <1>2, <1>3, <1>4, <1>5, DivideBy16
<1>8. d % 16 = d
  BY SMT, <1>1, <1>6
<1>9. PICK w, x, y, z : w = v % 16 /\ x = a % 16 /\ y = b % 16 /\ z = c % 16
  OBVIOUS
<1>10. 65536 * d + 4096 * z + 256 * y + 16 * x + w = v
  BY SMT, <1>7, <1>9
<1>11. (v \div 1048576) % 16 = 0
  BY SMT, <1>1
<1> QED BY SMT, <1>2, <1>6, <1>8, <1>9, <1>10, <1>11

LEMMA HexBackFour ==
  ASSUME NEW v \in Nat, v < Two16
  PROVE  4096 * ((v \div 4096) % 16) + 256 * ((v \div 256) % 16)
           + 16 * ((v \div 16) % 16) + (v % 16) = v
<1>1. v < ADEMCO_ID_SENTINEL /\ v \div 65536 = 0
  BY SMT DEF Two16, ADEMCO_ID_SENTINEL
<1>2. 65536 * ((v \div 65536) % 16) = 0
  BY SMT, <1>1
<1>3. 65536 * ((v \div 65536) % 16) + 4096 * ((v \div 4096) % 16)
        + 256 * ((v \div 256) % 16) + 16 * ((v \div 16) % 16) + (v % 16) = v
  BY <1>1, HexBackSix
<1>4. \A w \in Nat : w % 16 \in Int /\ 0 + w = w
  BY DivideBy16
<1>5. v \div 4096 \in Nat /\ v \div 256 \in Nat /\ v \div 16 \in Nat
  BY SMT
<1> QED BY SMT, <1>2, <1>3, <1>4, <1>5

(* The length of a FOUR_DECIMAL segment is read back. *)
LEMMA HexValueFour ==
  ASSUME NEW v \in Nat, v < Two16, NEW d, d = HexText(v, 4)
  PROVE  HexValue(d) = v
<1>1. d \in [1 .. 4 -> 0 .. 15] /\ 4 \in Nat
  <2>1. HexText(v, 4) \in [1 .. 4 -> 0 .. 15]
    BY HexTextFourDigits, Zenon
  <2> QED BY <2>1
<1>2. Len(d) = 4
  BY <1>1, FunctionIsSeq, Zenon
<1>3. /\ d[1] = (v \div 4096) % 16
      /\ d[2] = (v \div 256) % 16
      /\ d[3] = (v \div 16) % 16
      /\ d[4] = v % 16
  BY SMT, HexTextFour
<1>4. d[1] \in 0 .. 15 /\ d[2] \in 0 .. 15 /\ d[3] \in 0 .. 15 /\ d[4] \in 0 .. 15
  BY SMT, <1>1
<1>5. /\ DigitAt(d, 4) = 0
      /\ DigitAt(d, 3) = d[1]
      /\ DigitAt(d, 2) = d[2]
      /\ DigitAt(d, 1) = d[3]
      /\ DigitAt(d, 0) = d[4]
  BY SMT, <1>2, <1>4 DEF DigitAt
<1>6. ~ \E k \in 5 .. Len(d) - 1 : DigitAt(d, k) # 0
  <2>1. Len(d) - 1 = 3
    BY <1>2
  <2>2. ~ \E k \in 5 .. 3 : DigitAt(d, k) # 0
    OBVIOUS
  <2> QED BY <2>1, <2>2
<1>7. HexValue(d) = 65536 * 0 + 4096 * d[1] + 256 * d[2] + 16 * d[3] + d[4]
  BY SMT, <1>5, <1>6 DEF HexValue
<1>8. HexValue(d) = 4096 * d[1] + 256 * d[2] + 16 * d[3] + d[4]
  BY SMT, <1>4, <1>7
<1> QED BY SMT, <1>3, <1>8, HexBackFour

(* An id written with six digits is read back (ademco_append_data and      *)
(* ademco_parse_data), whatever the width of an unsigned long.             *)
LEMMA DataIdBack ==
  ASSUME NEW v \in Nat, v < ADEMCO_ID_SENTINEL
  PROVE  DataId(HexText(v, 6)) = v
<1>1. PICK d : d = HexText(v, 6)
  OBVIOUS
<1>2. d \in Seq(0 .. 15) /\ Len(d) = 6
  BY <1>1, HexTextSix DEF Acct
<1>3. /\ d[1] = (v \div 1048576) % 16
      /\ d[2] = (v \div 65536) % 16
      /\ d[3] = (v \div 4096) % 16
      /\ d[4] = (v \div 256) % 16
      /\ d[5] = (v \div 16) % 16
      /\ d[6] = v % 16
  BY SMT, <1>1, HexTextSix
<1>4. /\ DigitAt(d, 5) = d[1]
      /\ DigitAt(d, 4) = d[2]
      /\ DigitAt(d, 3) = d[3]
      /\ DigitAt(d, 2) = d[4]
      /\ DigitAt(d, 1) = d[5]
      /\ DigitAt(d, 0) = d[6]
  BY SMT, <1>2 DEF DigitAt
<1>5. d[1] = 0
  BY SMT, <1>3, HexBackSix
<1>6. ~ \E k \in 5 .. Len(d) - 1 : DigitAt(d, k) # 0
  BY SMT, <1>2, <1>4, <1>5
<1>7. HexValue(d)
        = 65536 * d[2] + 4096 * d[3] + 256 * d[4] + 16 * d[5] + d[6]
  BY SMT, <1>4, <1>6 DEF HexValue
<1>8. HexValue(d) = v
  BY SMT, <1>3, <1>7, HexBackSix
<1>9. SubSeq(d, IF Len(d) > 8 THEN Len(d) - 7 ELSE 1, Len(d)) = d
  BY SMT, <1>2
<1>10. ~ \E i \in 1 .. Len(d) - UlongDigits : d[i] # 0
  BY SMT, <1>2, FieldsAssumption
<1>11. v \in 0 .. ADEMCO_ID_SENTINEL
  <2>1. ADEMCO_ID_SENTINEL \in Nat
    BY SMT DEF ADEMCO_ID_SENTINEL
  <2> QED BY SMT, <2>1
<1>12. DataId(d) = v
  BY <1>8, <1>9, <1>10, <1>11, Zenon DEF DataId
<1> QED BY <1>1, <1>12

(* What is read as an id is a number. *)
LEMMA DataIdNat ==
  ASSUME NEW d
  PROVE  DataId(d) \in Nat
BY DEF DataId

(* A sequence number of four decimal digits is read back. *)
LEMMA SeqBack ==
  ASSUME NEW s \in Nat, s <= 9999
  PROVE  SeqValue(SeqText(s)) = s
<1>1. PICK a, b, c, d :
        /\ a = s \div 1000 /\ b = (s % 1000) \div 100
        /\ c = (s % 100) \div 10 /\ d = s % 10
  OBVIOUS
<1>2. a \in 0 .. 9 /\ b \in 0 .. 9 /\ c \in 0 .. 9 /\ d \in 0 .. 9
  BY SMT, <1>1
<1>3. /\ s = 1000 * a + (s % 1000)
      /\ s % 1000 = 100 * b + (s % 100)
      /\ s % 100 = 10 * c + d
  BY SMT, <1>1
<1>4. SeqText(s) = << a, b, c, d >>
  BY <1>1 DEF SeqText
<1>5. AppendDigit(0, a) = a
  BY <1>2 DEF AppendDigit
<1>6. AppendDigit(a, b) = 10 * a + b
  BY <1>2 DEF AppendDigit
<1>7. AppendDigit(10 * a + b, c) = 10 * (10 * a + b) + c
  BY <1>2 DEF AppendDigit
<1>8. AppendDigit(10 * (10 * a + b) + c, d) = 10 * (10 * (10 * a + b) + c) + d
  BY <1>2 DEF AppendDigit
<1>9. SeqValue(SeqText(s)) = 10 * (10 * (10 * a + b) + c) + d
  BY <1>4, <1>5, <1>6, <1>7, <1>8 DEF SeqValue
<1>10. s % 1000 \in Int /\ s % 100 \in Int
  BY SMT
<1> QED BY SMT, <1>2, <1>3, <1>9, <1>10

(* Whatever is in the place of the sequence number, a number below 10000   *)
(* is read.                                                                *)
LEMMA SeqValueRange ==
  ASSUME NEW t
  PROVE  SeqValue(t) \in Word
<1>2. PICK a : a = AppendDigit(0, t[1])
  OBVIOUS
<1>3. PICK b : b = AppendDigit(a, t[2])
  OBVIOUS
<1>4. PICK c : c = AppendDigit(b, t[3])
  OBVIOUS
<1>5. PICK d : d = AppendDigit(c, t[4])
  OBVIOUS
<1>6. a \in Nat /\ a <= 9
  BY SMT, <1>2 DEF AppendDigit
<1>7. b \in Nat /\ b <= 99
  BY SMT, <1>3, <1>6 DEF AppendDigit
<1>8. c \in Nat /\ c <= 999
  BY SMT, <1>4, <1>7 DEF AppendDigit
<1>9. d \in Nat /\ d <= 9999
  BY SMT, <1>5, <1>8 DEF AppendDigit
<1>10. SeqValue(t) = d
  BY <1>2, <1>3, <1>4, <1>5 DEF SeqValue
<1>11. WordMax \in Nat /\ d <= WordMax
  BY SMT, <1>9 DEF WordMax
<1> QED BY SMT, <1>9, <1>10, <1>11 DEF Word

(* The gg values of the protocol are read back. *)
LEMMA GGBack ==
  ASSUME NEW g \in 0 .. 99 \cup {204, 238}
  PROVE  GGValue(GGText(g)) = g
<1>1. CASE g = 238
  BY <1>1 DEF GGText, GGValue
<1>2. CASE g = 204
  BY <1>2 DEF GGText, GGValue
<1>3. CASE g \in 0 .. 99
  <2>1. g \div 10 \in 0 .. 9 /\ (g \div 10) % 16 = g \div 10 /\ g % 10 \in 0 .. 9
    BY SMT, <1>3
  <2>2. 10 * (g \div 10) + (g % 10) = g
    BY <1>3
  <2> DEFINE x == g \div 10
             y == g % 10
  <2>3. GGText(g) = << x, y >>
    BY <1>3, <2>1 DEF GGText
  <2>4. x \in 0 .. 9 /\ y \in 0 .. 9 /\ 10 * x + y = g
    BY <2>1, <2>2
  <2> HIDE DEF x, y
  <2>5. << x, y >> # << 21, 21 >> /\ << x, y >> # << 19, 19 >>
    BY <2>4
  <2>6. GGValue(<< x, y >>) = (10 * x + y) % 256
    BY <2>5 DEF GGValue
  <2>7. g % 256 = g
    BY <1>3
  <2> QED BY <2>3, <2>4, <2>6, <2>7
<1> QED BY <1>1, <1>2, <1>3

-----------------------------------------------------------------------------
(* Accounts and the data segment. *)
Dat == [ acct : Acct, event : Event, gg : Seq(0 .. 21),
         zone : 0 .. ADEMCO_ZONE_SENTINEL - 1, closed : BOOLEAN ]

(* Copying an account takes at most AcctMax characters, and enough. *)
LEMMA ClipKeeps ==
  ASSUME NEW a \in Acct, LongEnough(a)
  PROVE  /\ Clip(a) \in Acct
         /\ LongEnough(Clip(a))
         /\ Len(Clip(a)) <= AcctMax
         /\ a # <<>> => Clip(a) # <<>> /\ Len(Clip(a)) \in AcctMin .. AcctMax
<1>1. a \in Seq(0 .. 15) /\ Len(a) \in Nat
  BY DEF Acct
<1>2. PICK n : n = Smaller(Len(a), AcctMax)
  OBVIOUS
<1>3. n \in Nat /\ n <= AcctMax /\ n <= Len(a) /\ (n = Len(a) \/ n = AcctMax)
  BY <1>1, <1>2, AcctMaxNat DEF Smaller
<1>4. Clip(a) = SubSeq(a, 1, n)
  BY <1>2 DEF Clip
<1>5. SubSeq(a, 1, n) \in Seq(0 .. 15) /\ Len(SubSeq(a, 1, n)) = n
  BY <1>1, <1>3
<1>6. a # <<>> => n >= AcctMin
  BY <1>3, AcctMaxNat DEF LongEnough
<1>7. a = <<>> => Clip(a) = <<>>
  <2>1. ASSUME a = <<>>
        PROVE  Clip(a) = <<>>
    <3>1. Len(a) = 0
      BY <2>1
    <3>2. n = 0
      BY <1>3, <3>1, AcctMaxNat
    <3> QED BY <1>4, <1>5, <3>2
  <2> QED BY <2>1
<1>8. a # <<>> => Clip(a) # <<>> /\ Len(Clip(a)) \in AcctMin .. AcctMax
  BY <1>3, <1>4, <1>5, <1>6, AcctMaxNat
<1>9. LongEnough(Clip(a))
  BY <1>7, <1>8, AcctMaxNat DEF LongEnough
<1> QED BY <1>3, <1>4, <1>5, <1>8, <1>9 DEF Acct

(* A number in the place of an account is an account. *)
LEMMA HexTextAcct ==
  ASSUME NEW v \in Nat
  PROVE  HexText(v, 6) \in Acct /\ Len(HexText(v, 6)) \in AcctMin .. AcctMax
<1>1. HexText(v, 6) \in Acct /\ Len(HexText(v, 6)) = 6
  BY SMT, HexTextSix
<1>2. 6 \in AcctMin .. AcctMax
  BY SMT, AcctMaxNat
<1> QED BY <1>1, <1>2

(* #acct is an account of six to AcctMax digits. *)
LEMMA HeadAcctType ==
  ASSUME NEW a \in Acct, LongEnough(a), NEW v \in Nat
  PROVE  /\ HeadAcct(a, v) \in Acct
         /\ Len(HeadAcct(a, v)) \in AcctMin .. AcctMax
<1>1. CASE a = <<>>
  BY <1>1, HexTextAcct DEF HeadAcct
<1>2. CASE a # <<>>
  BY <1>2, ClipKeeps DEF HeadAcct
<1> QED BY <1>1, <1>2

(* So is the account in a data segment, whatever the other arguments. *)
LEMMA DataAcctType ==
  ASSUME NEW a \in Acct, LongEnough(a), NEW v \in Nat
  PROVE  DataAcct(a, v) \in Acct /\ Len(DataAcct(a, v)) \in AcctMin .. AcctMax
<1>1. PICK short : short = v % ADEMCO_ID_SENTINEL
  OBVIOUS
<1>2. short \in Nat
  BY <1>1 DEF ADEMCO_ID_SENTINEL
<1>3. CASE a # <<>> /\ short = 0
  BY <1>1, <1>3, ClipKeeps DEF DataAcct
<1>4. CASE ~ (a # <<>> /\ short = 0)
  <2>1. DataAcct(a, v) = HexText(short, 6)
    BY <1>1, <1>4 DEF DataAcct
  <2> QED BY <1>2, <2>1, HexTextAcct
<1> QED BY <1>3, <1>4

(* The gg characters, and what is read from them, are in their ranges. *)
LEMMA GGType ==
  ASSUME NEW g \in Byte
  PROVE  GGText(g) \in Seq(0 .. 21) /\ GGValue(GGText(g)) \in Byte
<1>1. CASE g = 238
  BY <1>1 DEF GGText, GGValue, Byte
<1>2. CASE g = 204
  BY <1>2 DEF GGText, GGValue, Byte
<1>3. CASE g # 238 /\ g # 204
  <2>1. PICK x, y : x = (g \div 10) % 16 /\ y = g % 10
    OBVIOUS
  <2>2. x \in 0 .. 15 /\ y \in 0 .. 9
    BY SMT, <2>1 DEF Byte
  <2>3. GGText(g) = << x, y >>
    BY <1>3, <2>1 DEF GGText
  <2>4. << x, y >> # << 21, 21 >> /\ << x, y >> # << 19, 19 >>
    BY <2>2
  <2>5. GGValue(<< x, y >>) = (10 * x + y) % 256
    BY <2>4 DEF GGValue
  <2> QED BY <2>2, <2>3, <2>5 DEF Byte
<1> QED BY <1>1, <1>2, <1>3

LEMMA EmptyDataType == EmptyData \in Dat /\ DataLen(EmptyData) = 2
<1>1. 0 \in Event /\ 0 \in 0 .. ADEMCO_ZONE_SENTINEL - 1
  BY SMT DEF Event, EventMax, ADEMCO_ZONE_SENTINEL
<1>2. <<>> \in Acct /\ <<0, 0>> \in Seq(0 .. 21)
  BY DEF Acct
<1> QED BY <1>1, <1>2 DEF EmptyData, Dat, DataLen

(* What ademco_append_data makes of arguments that are in their ranges. *)
LEMMA DataType ==
  ASSUME NEW a \in Acct, LongEnough(a), NEW v \in Nat, NEW e \in Event,
         NEW g \in Byte, NEW z \in Word
  PROVE  /\ Data(a, v, e, g, z) \in Dat
         /\ Data(a, v, e, g, z).closed
         /\ e = EVENT_INVALID_EVENT => Data(a, v, e, g, z) = EmptyData
         /\ e # EVENT_INVALID_EVENT =>
              /\ Data(a, v, e, g, z).acct = DataAcct(a, v)
              /\ Data(a, v, e, g, z).event = e
              /\ Data(a, v, e, g, z).gg = GGText(g)
              /\ Data(a, v, e, g, z).zone = z % ADEMCO_ZONE_SENTINEL
<1>1. CASE e = EVENT_INVALID_EVENT
  <2>1. Data(a, v, e, g, z) = EmptyData
    BY <1>1 DEF Data
  <2>2. EmptyData.closed
    BY DEF EmptyData
  <2> QED BY <1>1, <2>1, <2>2, EmptyDataType
<1>2. CASE e # EVENT_INVALID_EVENT
  <2>1. Data(a, v, e, g, z)
          = [ acct |-> DataAcct(a, v), event |-> e, gg |-> GGText(g),
              zone |-> z % ADEMCO_ZONE_SENTINEL, closed |-> TRUE ]
    BY <1>2 DEF Data
  <2>2. z % ADEMCO_ZONE_SENTINEL \in 0 .. ADEMCO_ZONE_SENTINEL - 1
    <3>1. ADEMCO_ZONE_SENTINEL \in Nat /\ ADEMCO_ZONE_SENTINEL > 0
      BY SMT DEF ADEMCO_ZONE_SENTINEL
    <3>2. z \in Nat
      BY SMT DEF Word, WordMax
    <3> QED BY SMT, <3>1, <3>2
  <2>3. Data(a, v, e, g, z) \in Dat
    BY <2>1, <2>2, DataAcctType, GGType DEF Dat
  <2> QED BY <1>2, <2>1, <2>3
<1> QED BY <1>1, <1>2

-----------------------------------------------------------------------------
(* Bytes and hexadecimal digits. *)
LEMMA HexCharBack ==
  ASSUME NEW h \in 0 .. 15
  PROVE  /\ HexChar(h) \in Byte
         /\ HexChar(h) # 0
         /\ CharHex(HexChar(h)) = h
<1>1. CASE h > 9
  <2>1. HexChar(h) = 55 + h /\ 55 + h \in 65 .. 70
    BY <1>1 DEF HexChar
  <2>2. CharHex(55 + h) = (55 + h) - 55
    BY <2>1 DEF CharHex
  <2> QED BY <2>1, <2>2 DEF Byte
<1>2. CASE ~ (h > 9)
  <2>1. HexChar(h) = 48 + h /\ 48 + h \in 48 .. 57
    BY <1>2 DEF HexChar
  <2>2. CharHex(48 + h) = (48 + h) - 48
    BY <2>1 DEF CharHex
  <2> QED BY <2>1, <2>2 DEF Byte
<1> QED BY <1>1, <1>2

LEMMA CharHexType ==
  ASSUME NEW x
  PROVE  CharHex(x) \in 0 .. 15 \cup {255}
<1>1. CASE x \in 48 .. 57
  BY <1>1 DEF CharHex
<1>2. CASE x \in 65 .. 70
  BY <1>2 DEF CharHex
<1>3. CASE x \in 97 .. 102
  BY <1>3 DEF CharHex
<1>4. CASE x \notin 48 .. 57 /\ x \notin 65 .. 70 /\ x \notin 97 .. 102
  BY <1>4 DEF CharHex
<1> QED BY <1>1, <1>2, <1>3, <1>4

(* ademco_hex_array_to_str: two digits for each byte *)
LEMMA HexArrayToStrType ==
  ASSUME NEW b \in Seq(Byte)
  PROVE  /\ HexArrayToStr(b) \in Seq(Byte)
         /\ Len(HexArrayToStr(b)) = 2 * Len(b)
         /\ \A i \in 1 .. Len(b) :
              /\ HexArrayToStr(b)[2 * i - 1] = HexChar(b[i] \div 16)
              /\ HexArrayToStr(b)[2 * i] = HexChar(b[i] % 16)
         /\ \A i \in 1 .. 2 * Len(b) :
              /\ HexArrayToStr(b)[i] # 0
              /\ CharHex(HexArrayToStr(b)[i]) \in 0 .. 15
<1>1. 2 * Len(b) \in Nat /\ Len(b) \in Nat
  OBVIOUS
<1>2. ASSUME NEW i \in 1 .. 2 * Len(b)
      PROVE  \E h \in 0 .. 15 : HexArrayToStr(b)[i] = HexChar(h)
  <2>1. (i + 1) \div 2 \in 1 .. Len(b)
    BY SMT
  <2>2. PICK x \in Byte : x = b[(i + 1) \div 2]
    BY <2>1
  <2>3. x \div 16 \in 0 .. 15 /\ x % 16 \in 0 .. 15
    BY SMT DEF Byte
  <2>4. HexArrayToStr(b)[i] = HexChar(IF i % 2 = 1 THEN x \div 16 ELSE x % 16)
    BY <2>2 DEF HexArrayToStr
  <2> QED BY <2>3, <2>4
<1>3. \A i \in 1 .. 2 * Len(b) :
        /\ HexArrayToStr(b)[i] \in Byte
        /\ HexArrayToStr(b)[i] # 0
        /\ CharHex(HexArrayToStr(b)[i]) \in 0 .. 15
  BY <1>2, HexCharBack
<1>4. HexArrayToStr(b) \in [1 .. 2 * Len(b) -> Byte]
  BY <1>3 DEF HexArrayToStr
<1>5. HexArrayToStr(b) \in Seq(Byte) /\ Len(HexArrayToStr(b)) = 2 * Len(b)
  BY <1>1, <1>4, FunctionIsSeq, Zenon
<1>6. ASSUME NEW i \in 1 .. Len(b)
      PROVE  /\ HexArrayToStr(b)[2 * i - 1] = HexChar(b[i] \div 16)
             /\ HexArrayToStr(b)[2 * i] = HexChar(b[i] % 16)
  <2>1. 2 * i - 1 \in 1 .. 2 * Len(b) /\ 2 * i \in 1 .. 2 * Len(b)
    BY <1>1
  <2>2. /\ ((2 * i - 1) + 1) \div 2 = i /\ (2 * i - 1) % 2 = 1
        /\ ((2 * i) + 1) \div 2 = i /\ (2 * i) % 2 # 1
    BY SMT
  <2> QED BY <2>1, <2>2 DEF HexArrayToStr
<1> QED BY <1>3, <1>5, <1>6

(* The pairs of a string are counted up to the first NUL. *)
LEMMA PairsType ==
  ASSUME NEW c \in Seq(Byte)
  PROVE  Pairs(c) \in Nat
<1> DEFINE P == { i \in 1 .. Len(c) \div 2 : \A j \in 1 .. 2 * i : c[j] # 0 }
<1>1. IsFiniteSet(1 .. Len(c) \div 2)
  BY FS_Interval
<1>2. IsFiniteSet(P)
  BY <1>1, FS_Subset
<1> QED BY <1>2, FS_CardinalityType DEF Pairs

(* ademco_hex_str_to_array returns bytes. *)
LEMMA HexStrToArrayType ==
  ASSUME NEW c \in Seq(Byte)
  PROVE  HexStrToArray(c) \in Seq(Byte)
<1>1. Pairs(c) \in Nat
  BY PairsType
<1>2. CASE \E i \in 1 .. 2 * Pairs(c) : CharHex(c[i]) = 255
  BY <1>2 DEF HexStrToArray
<1>3. CASE ~ \E i \in 1 .. 2 * Pairs(c) : CharHex(c[i]) = 255
  <2>1. ASSUME NEW i \in 1 .. Pairs(c)
        PROVE  16 * CharHex(c[2 * i - 1]) + CharHex(c[2 * i]) \in Byte
    <3>1. 2 * i - 1 \in 1 .. 2 * Pairs(c) /\ 2 * i \in 1 .. 2 * Pairs(c)
      BY <1>1
    <3>2. CharHex(c[2 * i - 1]) \in 0 .. 15 /\ CharHex(c[2 * i]) \in 0 .. 15
      BY <1>3, <3>1, CharHexType
    <3>3. \A x, y \in 0 .. 15 : 16 * x + y \in Byte
      BY SMT DEF Byte
    <3> QED BY <3>2, <3>3
  <2>2. HexStrToArray(c) \in [1 .. Pairs(c) -> Byte]
    BY <1>3, <2>1 DEF HexStrToArray
  <2> QED BY <1>1, <2>2, FunctionIsSeq
<1> QED BY <1>2, <1>3

(* Reading the digits of bytes gives the bytes back. *)
LEMMA HexArrayBack ==
  ASSUME NEW b \in Seq(Byte)
  PROVE  HexStrToArray(HexArrayToStr(b)) = b
<1>1. PICK c : c = HexArrayToStr(b)
  OBVIOUS
<1>2. PICK n \in Nat : n = Len(b)
  OBVIOUS
<1>3. /\ c \in Seq(Byte)
      /\ Len(c) = 2 * n
      /\ \A i \in 1 .. n :
           c[2 * i - 1] = HexChar(b[i] \div 16) /\ c[2 * i] = HexChar(b[i] % 16)
      /\ \A i \in 1 .. 2 * n : c[i] # 0 /\ CharHex(c[i]) \in 0 .. 15
  BY <1>1, <1>2, HexArrayToStrType
<1>4. Len(c) \div 2 = n
  BY SMT, <1>3
<1>5. { i \in 1 .. n : \A j \in 1 .. 2 * i : c[j] # 0 } = 1 .. n
  <2>1. ASSUME NEW i \in 1 .. n, NEW j \in 1 .. 2 * i
        PROVE  c[j] # 0
    <3>1. j \in 1 .. 2 * n
      OBVIOUS
    <3> QED BY <1>3, <3>1
  <2> QED BY <2>1
<1>6. Pairs(c) = n
  <2>1. Cardinality(1 .. n) = n
    BY FS_Interval
  <2> QED BY <1>4, <1>5, <2>1 DEF Pairs
<1>7. ~ \E i \in 1 .. 2 * Pairs(c) : CharHex(c[i]) = 255
  <2>1. ASSUME NEW i \in 1 .. 2 * n
        PROVE  CharHex(c[i]) # 255
    <3>1. CharHex(c[i]) \in 0 .. 15
      BY <1>3
    <3> QED BY <3>1
  <2> QED BY <1>6, <2>1
<1>8. HexStrToArray(c)
        = [ i \in 1 .. n |-> 16 * CharHex(c[2 * i - 1]) + CharHex(c[2 * i]) ]
  BY <1>6, <1>7 DEF HexStrToArray
<1>9. ASSUME NEW i \in 1 .. n
      PROVE  16 * CharHex(c[2 * i - 1]) + CharHex(c[2 * i]) = b[i]
  <2>1. PICK x \in Byte : x = b[i]
    BY <1>2
  <2>2. x \div 16 \in 0 .. 15 /\ x % 16 \in 0 .. 15
    BY SMT DEF Byte
  <2>3. CharHex(c[2 * i - 1]) = x \div 16 /\ CharHex(c[2 * i]) = x % 16
    BY <1>3, <2>1, <2>2, HexCharBack
  <2>4. 16 * (x \div 16) + (x % 16) = x
    BY SMT DEF Byte
  <2> QED BY <2>1, <2>3, <2>4
<1>10. b = [i \in 1 .. n |-> b[i]]
  BY <1>2
<1> QED BY <1>1, <1>8, <1>9, <1>10

-----------------------------------------------------------------------------
(* The xdata segment. *)

(* r is h and t between two brackets. *)
Encloses(r, h, t) ==
  /\ r \in Seq(Byte)
  /\ Len(r) = Len(h) + Len(t) + 2
  /\ \A i \in 1 .. Len(h) : r[i + 1] = h[i]
  /\ \A i \in 1 .. Len(t) : r[Len(h) + 1 + i] = t[i]
  /\ r[Len(r)] = 93

LEMMA Concatenated ==
  ASSUME NEW x \in Seq(Byte), NEW y \in Seq(Byte)
  PROVE  /\ x \o y \in Seq(Byte)
         /\ Len(x) \in Nat /\ Len(y) \in Nat
         /\ Len(x \o y) = Len(x) + Len(y)
         /\ \A i \in 1 .. Len(x) : (x \o y)[i] = x[i]
         /\ \A i \in 1 .. Len(y) : (x \o y)[Len(x) + i] = y[i]
OBVIOUS

LEMMA BracketedShape ==
  ASSUME NEW h \in Seq(Byte), NEW t \in Seq(Byte)
  PROVE  Encloses(Bracketed(h, t), h, t)
<1>1. <<91>> \in Seq(Byte) /\ <<93>> \in Seq(Byte)
  BY DEF Byte
<1>2. Len(h) \in Nat /\ Len(t) \in Nat
  OBVIOUS
<1>3. PICK a : a = <<91>> \o h
  OBVIOUS
<1>4. /\ a \in Seq(Byte)
      /\ Len(a) = Len(h) + 1
      /\ \A i \in 1 .. Len(h) : a[i + 1] = h[i]
  BY <1>1, <1>3
<1>5. PICK b : b = a \o t
  OBVIOUS
<1>6. /\ b \in Seq(Byte)
      /\ Len(b) = Len(a) + Len(t)
      /\ \A i \in 1 .. Len(a) : b[i] = a[i]
      /\ \A i \in 1 .. Len(t) : b[Len(a) + i] = t[i]
  BY <1>4, <1>5, Concatenated
<1>7. ASSUME NEW i \in 1 .. Len(h)
      PROVE  b[i + 1] = h[i]
  <2>1. i + 1 \in 1 .. Len(a)
    BY <1>2, <1>4
  <2> QED BY <1>4, <1>6, <2>1
<1>8. PICK r : r = b \o <<93>>
  OBVIOUS
<1>9. /\ r \in Seq(Byte)
      /\ Len(r) = Len(b) + 1
      /\ \A i \in 1 .. Len(b) : r[i] = b[i]
      /\ r[Len(b) + 1] = 93
  <2>1. PICK c \in Seq(Byte) : c = <<93>>
    BY <1>1
  <2>2. Len(c) = 1 /\ c[1] = 93
    BY <2>1
  <2>3. r = b \o c
    BY <1>8, <2>1
  <2>4. /\ r \in Seq(Byte)
        /\ Len(r) = Len(b) + Len(c)
        /\ \A i \in 1 .. Len(b) : r[i] = b[i]
        /\ \A i \in 1 .. Len(c) : r[Len(b) + i] = c[i]
    BY <1>6, <2>3, Concatenated
  <2>5. r[Len(b) + 1] = c[1]
    BY <2>2, <2>4
  <2> QED BY <2>2, <2>4, <2>5
<1>10. Len(b) = Len(h) + 1 + Len(t)
  BY <1>4, <1>6
<1>11. ASSUME NEW i \in 1 .. Len(h)
       PROVE  r[i + 1] = h[i]
  <2>1. i + 1 \in 1 .. Len(b)
    BY <1>2, <1>10
  <2> QED BY <1>7, <1>9, <2>1
<1>12. ASSUME NEW i \in 1 .. Len(t)
       PROVE  r[Len(h) + 1 + i] = t[i]
  <2>1. Len(h) + 1 + i \in 1 .. Len(b)
    BY <1>2, <1>10
  <2>2. b[Len(h) + 1 + i] = t[i]
    BY <1>4, <1>6
  <2> QED BY <1>9, <2>1, <2>2
<1>13. Len(r) = Len(h) + Len(t) + 2 /\ r[Len(r)] = 93
  BY <1>2, <1>9, <1>10
<1>14. r = Bracketed(h, t)
  BY <1>3, <1>5, <1>8 DEF Bracketed
<1>15. Encloses(r, h, t)
  BY <1>9, <1>11, <1>12, <1>13 DEF Encloses
<1> QED BY <1>14, <1>15

(* What fits is short enough for its length to be written with one byte. *)
LEMMA FitsShort ==
  ASSUME NEW f, NEW t \in Seq(Byte), Fits(f, t)
  PROVE  /\ LenSize(f) \in {2, 4}
         /\ Len(t) \in Nat
         /\ Len(t) < 252
         /\ Len(t) + LenSize(f) + 2 < XdataMax
<1>1. LenSize(f) \in {2, 4}
  BY DEF LenSize
<1>2. XdataMax \in Nat /\ XdataMax <= 256
  BY FieldsAssumption
<1> QED BY <1>1, <1>2 DEF Fits

LEMMA LenBytesType ==
  ASSUME NEW f, NEW n \in Nat, n < 256
  PROVE  /\ LenBytes(f, n) \in Seq(Byte)
         /\ Len(LenBytes(f, n)) = LenSize(f)
         /\ f = TWO_HEX => LenBytes(f, n) = << 0, n >>
         /\ f # TWO_HEX =>
              \A i \in 1 .. 4 : LenBytes(f, n)[i] = HexChar(HexText(n, 4)[i])
<1>1. CASE f = TWO_HEX
  <2>1. n \div 256 = 0 /\ n % 256 = n /\ n \in Byte /\ 0 \in Byte
    BY SMT DEF Byte
  <2>2. LenBytes(f, n) = << 0, n >>
    BY <1>1, <2>1 DEF LenBytes
  <2>3. << 0, n >> \in Seq(Byte) /\ Len(<< 0, n >>) = 2
    BY <2>1
  <2> QED BY <1>1, <2>2, <2>3 DEF LenSize
<1>2. CASE f # TWO_HEX
  <2>1. HexText(n, 4) \in [1 .. 4 -> 0 .. 15]
    BY HexTextFourDigits
  <2>2. LenBytes(f, n) = [i \in 1 .. 4 |-> HexChar(HexText(n, 4)[i])]
    BY <1>2 DEF LenBytes
  <2>3. \A i \in 1 .. 4 : HexChar(HexText(n, 4)[i]) \in Byte
    BY <2>1, HexCharBack
  <2>4. LenBytes(f, n) \in [1 .. 4 -> Byte] /\ 4 \in Nat
    BY <2>2, <2>3
  <2>5. LenBytes(f, n) \in Seq(Byte) /\ Len(LenBytes(f, n)) = 4
    BY <2>4, FunctionIsSeq, Zenon
  <2> QED BY <1>2, <2>2, <2>5 DEF LenSize
<1> QED BY <1>1, <1>2

LEMMA SegmentShape ==
  ASSUME NEW f, NEW t \in Seq(Byte), Fits(f, t)
  PROVE  /\ Segment(f, t) \in Seq(Byte)
         /\ Len(Segment(f, t)) = LenSize(f) + Len(t) + 2
         /\ Len(Segment(f, t)) < XdataMax
         /\ \A i \in 1 .. LenSize(f) :
              Segment(f, t)[i + 1] = LenBytes(f, Len(t))[i]
         /\ \A i \in 1 .. Len(t) : Segment(f, t)[LenSize(f) + 1 + i] = t[i]
         /\ Segment(f, t)[Len(Segment(f, t))] = 93
<1>1. PICK h : h = LenBytes(f, Len(t))
  OBVIOUS
<1>2. Len(t) \in Nat /\ Len(t) < 256
  BY FitsShort
<1>3. h \in Seq(Byte) /\ Len(h) = LenSize(f)
  BY <1>1, <1>2, LenBytesType
<1>4. PICK r : r = Bracketed(h, t)
  OBVIOUS
<1>5. Encloses(r, h, t)
  BY <1>3, <1>4, BracketedShape
<1>6. Segment(f, t) = r
  BY <1>1, <1>4 DEF Segment
<1>7. LenSize(f) + Len(t) + 2 < XdataMax
  BY FitsShort, FieldsAssumption
<1> QED BY <1>1, <1>3, <1>5, <1>6, <1>7 DEF Encloses

(* A segment's content is what was put in. *)
LEMMA ContentOfSegment ==
  ASSUME NEW f \in Formats, NEW t \in Seq(Byte), Fits(f, t)
  PROVE  Content([format |-> f, raw |-> Segment(f, t)]) = t
<1>1. PICK r : r = Segment(f, t)
  OBVIOUS
<1>2. PICK k : k = LenSize(f)
  OBVIOUS
<1>3. PICK n : n = Len(t)
  OBVIOUS
<1>4. k \in {2, 4} /\ n \in Nat
  BY <1>2, <1>3, FitsShort
<1>5. /\ r \in Seq(Byte)
      /\ Len(r) = k + n + 2
      /\ \A i \in 1 .. n : r[k + 1 + i] = t[i]
  BY <1>1, <1>2, <1>3, SegmentShape
<1>6. PICK x : x = [format |-> f, raw |-> r]
  OBVIOUS
<1>7. ContentLen(x) = n
  BY <1>2, <1>4, <1>5, <1>6 DEF ContentLen
<1>8. Content(x) = SubSeq(r, k + 2, k + 1 + n)
  BY <1>2, <1>6, <1>7 DEF Content
<1>9. /\ SubSeq(r, k + 2, k + 1 + n) \in Seq(Byte)
      /\ Len(SubSeq(r, k + 2, k + 1 + n)) = n
      /\ \A i \in 1 .. n : SubSeq(r, k + 2, k + 1 + n)[i] = r[k + 1 + i]
  <2>1. \A i \in k + 2 .. k + 1 + n : i \in 1 .. Len(r)
    BY <1>4, <1>5
  <2>2. k + 2 \in Int /\ k + 1 + n \in Int /\ (k + 1 + n) - (k + 2) + 1 = n
    BY <1>4
  <2> QED BY <1>4, <1>5, <2>1, <2>2
<1>10. SubSeq(r, k + 2, k + 1 + n) = t
  <2>1. PICK s : s = SubSeq(r, k + 2, k + 1 + n)
    OBVIOUS
  <2>2. s \in Seq(Byte) /\ Len(s) = n /\ \A i \in 1 .. n : s[i] = t[i]
    BY <1>5, <1>9, <2>1
  <2>3. s = [i \in 1 .. n |-> s[i]] /\ t = [i \in 1 .. n |-> t[i]]
    BY <1>3, <2>2
  <2> QED BY <2>1, <2>2, <2>3
<1> QED BY <1>1, <1>6, <1>8, <1>10

(* The parser finds out which format a segment has. *)
LEMMA FormatOfSegment ==
  ASSUME NEW f \in Formats, NEW t \in Seq(Byte), Fits(f, t)
  PROVE  XdataFormat(Segment(f, t)) = f
<1>1. PICK r : r = Segment(f, t)
  OBVIOUS
<1>2. Len(t) \in Nat /\ Len(t) < 256
  BY FitsShort
<1>3. /\ Len(r) = LenSize(f) + Len(t) + 2
      /\ \A i \in 1 .. LenSize(f) : r[i + 1] = LenBytes(f, Len(t))[i]
  BY <1>1, SegmentShape
<1>4. CASE f = TWO_HEX
  <2>1. LenBytes(f, Len(t)) = << 0, Len(t) >>
    BY <1>2, <1>4, LenBytesType
  <2>2. r[2] = 0
    BY <1>3, <1>4, <2>1 DEF LenSize
  <2>3. CharHex(0) = 255
    BY DEF CharHex
  <2>4. ~ \A i \in 2 .. 5 : i <= Len(r) /\ CharHex(r[i]) # 255
    BY <2>2, <2>3
  <2> QED BY <1>1, <1>4, <2>4 DEF XdataFormat
<1>5. CASE f = FOUR_DECIMAL
  <2>1. f # TWO_HEX
    BY <1>5 DEF FOUR_DECIMAL, TWO_HEX
  <2>2. \A i \in 1 .. 4 : LenBytes(f, Len(t))[i] = HexChar(HexText(Len(t), 4)[i])
    BY <1>2, <2>1, LenBytesType
  <2>3. LenSize(f) = 4
    BY <2>1 DEF LenSize
  <2>4. HexText(Len(t), 4) \in [1 .. 4 -> 0 .. 15]
    BY <1>2, HexTextFourDigits
  <2>5. ASSUME NEW i \in 2 .. 5
        PROVE  i <= Len(r) /\ CharHex(r[i]) # 255
    <3>1. PICK j \in 1 .. 4 : i = j + 1
      OBVIOUS
    <3>2. PICK h \in 0 .. 15 : h = HexText(Len(t), 4)[j]
      BY <2>4
    <3>3. r[i] = HexChar(h)
      BY <1>3, <2>2, <2>3, <3>1, <3>2
    <3>4. CharHex(r[i]) = h
      BY <3>3, HexCharBack
    <3>5. Len(r) >= 6
      BY <1>2, <1>3, <2>3
    <3> QED BY <3>4, <3>5
  <2> QED BY <1>1, <1>5, <2>5 DEF XdataFormat
<1> QED BY <1>4, <1>5 DEF Formats

(* The parser accepts a segment. *)
LEMMA SegmentParses ==
  ASSUME NEW f \in Formats, NEW t \in Seq(Byte), Fits(f, t)
  PROVE  XdataParses(Segment(f, t))
<1>1. PICK r : r = Segment(f, t)
  OBVIOUS
<1>2. Len(t) \in Nat /\ Len(t) < 256
  BY FitsShort
<1>3. /\ Len(r) = LenSize(f) + Len(t) + 2
      /\ \A i \in 1 .. LenSize(f) : r[i + 1] = LenBytes(f, Len(t))[i]
      /\ r[Len(r)] = 93
  BY <1>1, SegmentShape
<1>4. XdataFormat(r) = f
  BY <1>1, FormatOfSegment
<1>5. LenSize(f) \in Int
  BY DEF LenSize
<1>6. XdataLen(r) = Len(t)
  <2>1. CASE f = TWO_HEX
    <3>1. LenBytes(f, Len(t)) = << 0, Len(t) >>
      BY <1>2, <2>1, LenBytesType
    <3>2. r[2] = 0 /\ r[3] = Len(t)
      BY <1>3, <2>1, <3>1 DEF LenSize
    <3> QED BY <1>2, <1>4, <2>1, <3>2 DEF XdataLen
  <2>2. CASE f = FOUR_DECIMAL
    <3>1. f # TWO_HEX
      BY <2>2 DEF FOUR_DECIMAL, TWO_HEX
    <3>2. \A i \in 1 .. 4 :
            LenBytes(f, Len(t))[i] = HexChar(HexText(Len(t), 4)[i])
      BY <1>2, <3>1, LenBytesType
    <3>3. LenSize(f) = 4
      BY <3>1 DEF LenSize
    <3>4. HexText(Len(t), 4) \in [1 .. 4 -> 0 .. 15]
      BY <1>2, HexTextFourDigits
    <3>5. ASSUME NEW i \in 1 .. 4
          PROVE  CharHex(r[i + 1]) = HexText(Len(t), 4)[i]
      <4>1. PICK h \in 0 .. 15 : h = HexText(Len(t), 4)[i]
        BY <3>4
      <4>2. r[i + 1] = HexChar(h)
        BY <1>3, <3>2, <3>3, <4>1
      <4> QED BY <4>1, <4>2, HexCharBack
    <3>6. [i \in 1 .. 4 |-> CharHex(r[i + 1])] = HexText(Len(t), 4)
      BY <3>4, <3>5
    <3>7. Len(t) < Two16
      BY SMT, <1>2 DEF Two16
    <3>8. HexValue(HexText(Len(t), 4)) = Len(t)
      BY <1>2, <3>7, HexValueFour
    <3>9. XdataLen(r) = HexValue([i \in 1 .. 4 |-> CharHex(r[i + 1])])
      BY <1>4, <3>1 DEF XdataLen
    <3> QED BY <3>6, <3>8, <3>9
  <2> QED BY <2>1, <2>2 DEF Formats
<1>7. Len(r) = XdataLen(r) + LenSize(XdataFormat(r)) + 2
  BY <1>2, <1>3, <1>4, <1>5, <1>6
<1> QED BY <1>1, <1>3, <1>7 DEF XdataParses

(* The content of any segment, even of one that claims the wrong format. *)
LEMMA ContentType ==
  ASSUME NEW x, x.raw \in Seq(Byte)
  PROVE  Content(x) \in Seq(Byte)
<1>1. PICK k \in {2, 4} : k = LenSize(x.format)
  BY DEF LenSize
<1>2. PICK n : n = ContentLen(x)
  OBVIOUS
<1>3. n \in Nat /\ (n = 0 \/ k + 1 + n < Len(x.raw))
  BY <1>1, <1>2 DEF ContentLen
<1>4. \A i \in k + 2 .. k + 1 + n : i \in 1 .. Len(x.raw)
  BY <1>1, <1>3
<1>5. k + 2 \in Int /\ k + 1 + n \in Int
  BY <1>1, <1>3
<1>6. \A r \in Seq(Byte), lo, hi \in Int :
        (\A i \in lo .. hi : i \in 1 .. Len(r)) => SubSeq(r, lo, hi) \in Seq(Byte)
  OBVIOUS
<1>7. SubSeq(x.raw, k + 2, k + 1 + n) \in Seq(Byte)
  BY <1>4, <1>5, <1>6, Zenon
<1> QED BY <1>1, <1>2, <1>7 DEF Content

-----------------------------------------------------------------------------
(* What becomes of xdata. *)
LEMMA SpellType ==
  ASSUME NEW f, NEW b \in Seq(Byte)
  PROVE  Spell(f, b) \in Seq(Byte) /\ Spell(f, <<>>) = <<>>
<1>1. HexArrayToStr(b) \in Seq(Byte)
  BY HexArrayToStrType
<1>2. ASSUME NEW e \in Seq(Byte), e = <<>>
      PROVE  HexArrayToStr(e) = <<>>
  <2>1. HexArrayToStr(e) \in Seq(Byte) /\ Len(HexArrayToStr(e)) = 2 * Len(e)
    BY HexArrayToStrType
  <2>2. Len(e) = 0
    BY <1>2
  <2> QED BY <2>1, <2>2
<1>3. <<>> \in Seq(Byte)
  OBVIOUS
<1>4. HexArrayToStr(<<>>) = <<>>
  BY <1>2, <1>3
<1> QED BY <1>1, <1>4 DEF Spell

LEMMA SegmentOrNoneType ==
  ASSUME NEW raw, SegmentOrNone(raw)
  PROVE  /\ raw \in Seq(Byte) /\ Len(raw) < XdataMax
         /\ raw # <<>> => XdataParses(raw)
<1>1. CASE raw = <<>>
  <2>1. raw \in Seq(Byte) /\ Len(raw) = 0 /\ XdataMax > 0
    BY <1>1, FieldsAssumption
  <2> QED BY <1>1, <2>1
<1>2. ASSUME NEW f \in Formats, NEW t \in Seq(Byte), Fits(f, t),
             raw = Segment(f, t)
      PROVE  raw \in Seq(Byte) /\ Len(raw) < XdataMax /\ XdataParses(raw)
  BY <1>2, SegmentShape, SegmentParses
<1> QED BY <1>1, <1>2 DEF SegmentOrNone

LEMMA SegmentSome ==
  ASSUME NEW f \in Formats, NEW t \in Seq(Byte), Fits(f, t)
  PROVE  Segment(f, t) # <<>> /\ SegmentOrNone(Segment(f, t))
<1>1. PICK r : r = Segment(f, t)
  OBVIOUS
<1>2. Len(r) = LenSize(f) + Len(t) + 2
  BY <1>1, SegmentShape
<1>3. LenSize(f) \in {2, 4} /\ Len(t) \in Nat
  BY FitsShort
<1>4. r # <<>>
  <2>1. ASSUME r = <<>>
        PROVE  FALSE
    <3>1. Len(r) = 0
      BY <2>1
    <3> QED BY <1>2, <1>3, <3>1
  <2> QED BY <2>1
<1> QED BY <1>1, <1>4 DEF SegmentOrNone

LEMMA XdataFormatType ==
  ASSUME NEW raw
  PROVE  XdataFormat(raw) \in Formats
BY DEF XdataFormat, Formats

(* Where xdata stands for bytes, its content is what they are written as. *)
LEMMA StandsContent ==
  ASSUME NEW x \in Xdata, NEW b \in Seq(Byte), Stands(x, b)
  PROVE  Content(x) = Spell(x.format, b)
<1>1. x.format \in Formats /\ x = [format |-> x.format, raw |-> x.raw]
  BY DEF Xdata
<1>2. Spell(x.format, b) \in Seq(Byte) /\ Spell(x.format, <<>>) = <<>>
  BY SpellType
<1>3. CASE x.raw = <<>> /\ b = <<>>
  <2>1. PICK k \in {2, 4} : k = LenSize(x.format)
    BY DEF LenSize
  <2>2. Len(<<>>) = 0
    OBVIOUS
  <2>3. ContentLen(x) = 0
    BY <1>3, <2>1, <2>2 DEF ContentLen
  <2>4. Content(x) = SubSeq(<<>>, k + 2, k + 1 + 0)
    BY <1>3, <2>1, <2>3 DEF Content
  <2>5. SubSeq(<<>>, k + 2, k + 1 + 0) = <<>>
    BY <2>1
  <2> QED BY <1>2, <1>3, <2>4, <2>5
<1>4. CASE /\ Fits(x.format, Spell(x.format, b))
           /\ x.raw = Segment(x.format, Spell(x.format, b))
  <2>1. Content([format |-> x.format,
                 raw |-> Segment(x.format, Spell(x.format, b))])
          = Spell(x.format, b)
    BY <1>1, <1>2, <1>4, ContentOfSegment
  <2> QED BY <1>1, <1>4, <2>1
<1> QED BY <1>3, <1>4 DEF Stands

(* A segment that claims its own format is read with that format. *)
LEMMA ReadKeeps ==
  ASSUME NEW x \in Xdata, NEW b \in Seq(Byte) \cup {Lost}, XdataOK(x, b)
  PROVE  XdataOK(Read(x.raw), b)
<1>1. SegmentOrNone(x.raw) /\ Read(x.raw).raw = x.raw
  BY DEF XdataOK, Read
<1>2. ASSUME b # Lost
      PROVE  Stands(Read(x.raw), b)
  <2>1. b \in Seq(Byte) /\ x.format \in Formats
    BY <1>2 DEF Xdata
  <2>2. Spell(x.format, b) \in Seq(Byte)
    BY <2>1, SpellType
  <2>3. CASE x.raw = <<>> /\ b = <<>>
    BY <1>1, <2>3 DEF Stands
  <2>4. CASE /\ Fits(x.format, Spell(x.format, b))
             /\ x.raw = Segment(x.format, Spell(x.format, b))
    <3>1. XdataFormat(x.raw) = x.format
      BY <2>1, <2>2, <2>4, FormatOfSegment
    <3>2. Read(x.raw).format = x.format
      BY <3>1 DEF Read
    <3> QED BY <1>1, <2>4, <3>2 DEF Stands
  <2> QED BY <1>2, <2>3, <2>4 DEF XdataOK, Stands
<1> QED BY <1>1, <1>2 DEF XdataOK

(* ademco_parse_packet keeps the meaning of the segment. *)
LEMMA ParsedXdataKeeps ==
  ASSUME NEW x \in Xdata, NEW raw, NEW b \in Seq(Byte) \cup {Lost},
         XdataOK(Read(raw), b)
  PROVE  /\ ParsedXdata(x, raw) \in Xdata
         /\ ParsedXdata(x, raw).raw = raw
         /\ XdataOK(ParsedXdata(x, raw), b)
<1>1. SegmentOrNone(raw)
  BY DEF XdataOK, Read
<1>2. raw \in Seq(Byte)
  BY <1>1, SegmentOrNoneType
<1>3. XdataFormat(raw) \in Formats
  BY XdataFormatType
<1>4. CASE raw # <<>>
  <2>1. ParsedXdata(x, raw) = Read(raw)
    BY <1>4 DEF ParsedXdata, Read
  <2>2. Read(raw) \in Xdata /\ Read(raw).raw = raw
    BY <1>2, <1>3 DEF Read, Xdata
  <2> QED BY <2>1, <2>2
<1>5. CASE raw = <<>>
  <2>1. ParsedXdata(x, raw) = [format |-> x.format, raw |-> raw]
    BY <1>5 DEF ParsedXdata
  <2>2. ParsedXdata(x, raw) \in Xdata /\ ParsedXdata(x, raw).raw = raw
    <3>1. x.format \in Formats
      BY DEF Xdata
    <3> QED BY <1>2, <2>1, <3>1 DEF Xdata
  <2>3. ASSUME b # Lost
        PROVE  b = <<>>
    <3>1. Stands(Read(raw), b) /\ b \in Seq(Byte)
      BY <2>3 DEF XdataOK
    <3>2. PICK f \in Formats : f = XdataFormat(raw)
      BY <1>3
    <3>3. Read(raw).raw = <<>> /\ Read(raw).format = f
      BY <1>5, <3>2 DEF Read
    <3>4. Spell(f, b) \in Seq(Byte)
      BY <3>1, SpellType
    <3>5. ~ (Fits(f, Spell(f, b)) /\ <<>> = Segment(f, Spell(f, b)))
      BY <3>4, SegmentSome
    <3> QED BY <3>1, <3>3, <3>5 DEF Stands
  <2>4. b # Lost => Stands(ParsedXdata(x, raw), b)
    BY <1>5, <2>2, <2>3 DEF Stands
  <2> QED BY <1>1, <2>2, <2>4 DEF XdataOK
<1> QED BY <1>4, <1>5

(* The outcomes of ademco_make_xdata: nothing changes, only the format     *)
(* does, or there is a new segment.                                        *)
LEMMA MakeXdataCases ==
  ASSUME NEW x, NEW f, NEW tr, NEW c,
         NEW text, text = IF tr = AS_IS THEN c ELSE HexArrayToStr(c)
  PROVE  \/ MakeXdata(x, f, tr, c) = x
         \/ MakeXdata(x, f, tr, c) = [format |-> f, raw |-> x.raw]
         \/ /\ MakeXdata(x, f, tr, c) = [format |-> f, raw |-> Segment(f, text)]
            /\ ~ (Len(text) + LenSize(f) + 2 >= XdataMax)
BY DEF MakeXdata, Segment, Bracketed

LEMMA NotTooLong ==
  ASSUME NEW f, NEW t \in Seq(Byte), ~ (Len(t) + LenSize(f) + 2 >= XdataMax)
  PROVE  Fits(f, t)
<1>1. LenSize(f) \in Int /\ Len(t) \in Int /\ XdataMax \in Int
  BY FieldsAssumption DEF LenSize
<1> QED BY <1>1 DEF Fits

(* What a caller makes of content stands for it. *)
LEMMA MadeXdataStands ==
  ASSUME NEW f \in Formats, NEW tr \in {AS_IS, TO_ASCII}, NEW c \in Seq(Byte),
         MakeXdata(NoXdata, f, tr, c).raw # <<>>
  PROVE  /\ MakeXdata(NoXdata, f, tr, c) \in Xdata
         /\ Meaning(f, tr, c) \in Seq(Byte) \cup {Lost}
         /\ XdataOK(MakeXdata(NoXdata, f, tr, c), Meaning(f, tr, c))
<1>1. PICK text : text = IF tr = AS_IS THEN c ELSE HexArrayToStr(c)
  OBVIOUS
<1>2. HexArrayToStr(c) \in Seq(Byte)
  BY HexArrayToStrType
<1>3. text \in Seq(Byte)
  BY <1>1, <1>2
<1>4. PICK x : x = MakeXdata(NoXdata, f, tr, c)
  OBVIOUS
<1>5. NoXdata.raw = <<>>
  BY DEF NoXdata
<1>6. /\ x = [format |-> f, raw |-> Segment(f, text)]
      /\ ~ (Len(text) + LenSize(f) + 2 >= XdataMax)
  BY <1>1, <1>4, <1>5, MakeXdataCases
<1>7. Fits(f, text)
  BY <1>3, <1>6, NotTooLong
<1>8. x.format = f /\ x.raw = Segment(f, text)
  BY <1>6
<1>9. Segment(f, text) \in Seq(Byte) /\ SegmentOrNone(Segment(f, text))
  BY <1>3, <1>7, SegmentShape, SegmentSome
<1>10. x \in Xdata
  BY <1>6, <1>9 DEF Xdata
<1>11. Meaning(f, tr, c) \in Seq(Byte) \cup {Lost}
  BY <1>2 DEF Meaning
<1>12. TO_ASCII # AS_IS /\ FOUR_DECIMAL # TWO_HEX
  BY DEF TO_ASCII, AS_IS, FOUR_DECIMAL, TWO_HEX
<1>13. Meaning(f, tr, c) # Lost => text = Spell(f, Meaning(f, tr, c))
  BY <1>1, <1>12 DEF Meaning, Spell, Formats
<1>14. Meaning(f, tr, c) # Lost => Stands(x, Meaning(f, tr, c))
  BY <1>7, <1>8, <1>13 DEF Stands
<1> QED BY <1>4, <1>8, <1>9, <1>10, <1>11, <1>14 DEF XdataOK

(* ademco_xdata_convert keeps the meaning, or loses it where it changes    *)
(* the format and not the bytes.                                           *)
LEMMA ConvertKeeps ==
  ASSUME NEW x \in Xdata, NEW b \in Seq(Byte) \cup {Lost}, XdataOK(x, b),
         NEW f \in Formats,
         NEW y, y = Convert(x, f),
         NEW d, d = IF y.format # x.format /\ y.raw = x.raw THEN Lost ELSE b
  PROVE  y \in Xdata /\ d \in Seq(Byte) \cup {Lost} /\ XdataOK(y, d)
<1>1. x.format \in Formats /\ x.raw \in Seq(Byte) /\ SegmentOrNone(x.raw)
  BY DEF Xdata, XdataOK
<1>2. d \in Seq(Byte) \cup {Lost}
  OBVIOUS
<1>3. CASE y = x
  BY <1>3
<1>4. CASE y = [format |-> f, raw |-> x.raw] /\ f # x.format
  <2>1. y.format = f /\ y.raw = x.raw
    BY <1>4
  <2>2. d = Lost
    BY <1>4, <2>1
  <2>3. y \in Xdata
    BY <1>1, <1>4 DEF Xdata
  <2> QED BY <1>1, <1>2, <2>1, <2>2, <2>3 DEF XdataOK
<1>5. ASSUME NEW t \in Seq(Byte), Fits(f, t),
             y = [format |-> f, raw |-> Segment(f, t)],
             b # Lost => t = Spell(f, b)
      PROVE  y \in Xdata /\ XdataOK(y, d)
  <2>1. Segment(f, t) \in Seq(Byte) /\ SegmentOrNone(Segment(f, t))
    BY <1>5, SegmentShape, SegmentSome
  <2>2. y.format = f /\ y.raw = Segment(f, t)
    BY <1>5
  <2>3. d # Lost => d = b /\ b # Lost
    OBVIOUS
  <2>4. d # Lost => Stands(y, d)
    BY <1>5, <2>2, <2>3 DEF Stands
  <2>5. y \in Xdata
    BY <1>5, <2>1 DEF Xdata
  <2> QED BY <2>1, <2>2, <2>4, <2>5 DEF XdataOK
<1>6. ASSUME b # Lost
      PROVE  b \in Seq(Byte) /\ Content(x) = Spell(x.format, b)
  <2>1. b \in Seq(Byte) /\ Stands(x, b)
    BY <1>6 DEF XdataOK
  <2> QED BY <2>1, StandsContent
<1>7. Content(x) \in Seq(Byte)
  BY <1>1, ContentType
<1>8. CASE x.format # f /\ f = TWO_HEX /\ ~ (ContentLen(x) + 6 > XdataMax)
  <2>1. PICK t : t = HexStrToArray(Content(x))
    OBVIOUS
  <2>2. t \in Seq(Byte)
    BY <1>7, <2>1, HexStrToArrayType
  <2>3. y = MakeXdata(x, TWO_HEX, AS_IS, t)
    BY <1>8, <2>1 DEF Convert
  <2>4. b # Lost => t = Spell(f, b)
    <3>1. x.format # TWO_HEX
      BY <1>8
    <3>2. ASSUME b # Lost
          PROVE  t = b
      <4>1. b \in Seq(Byte) /\ Content(x) = HexArrayToStr(b)
        BY <1>6, <3>1, <3>2 DEF Spell
      <4> QED BY <2>1, <4>1, HexArrayBack
    <3> QED BY <1>8, <3>2 DEF Spell
  <2>5. \/ y = x
        \/ y = [format |-> f, raw |-> x.raw]
        \/ /\ y = [format |-> f, raw |-> Segment(f, t)]
           /\ ~ (Len(t) + LenSize(f) + 2 >= XdataMax)
    BY <1>8, <2>3, MakeXdataCases
  <2> QED BY <1>2, <1>3, <1>4, <1>5, <1>8, <2>2, <2>4, <2>5, NotTooLong
<1>9. CASE x.format # f /\ f # TWO_HEX
  <2>1. PICK t : t = HexArrayToStr(Content(x))
    OBVIOUS
  <2>2. t \in Seq(Byte)
    BY <1>7, <2>1, HexArrayToStrType
  <2>3. f = FOUR_DECIMAL /\ x.format = TWO_HEX
    BY <1>1, <1>9 DEF Formats
  <2>4. y = MakeXdata(x, f, TO_ASCII, Content(x))
    BY <1>9, <2>3 DEF Convert
  <2>5. b # Lost => t = Spell(f, b)
    BY <1>6, <1>9, <2>1, <2>3 DEF Spell
  <2>6. TO_ASCII # AS_IS
    BY DEF TO_ASCII, AS_IS
  <2>7. \/ y = x
        \/ y = [format |-> f, raw |-> x.raw]
        \/ /\ y = [format |-> f, raw |-> Segment(f, t)]
           /\ ~ (Len(t) + LenSize(f) + 2 >= XdataMax)
    BY <2>1, <2>4, <2>6, MakeXdataCases
  <2> QED BY <1>2, <1>3, <1>4, <1>5, <1>9, <2>2, <2>5, <2>7, NotTooLong
<1>10. CASE x.format = f \/ (f = TWO_HEX /\ ContentLen(x) + 6 > XdataMax)
  <2>1. y = x
    BY <1>10 DEF Convert
  <2> QED BY <1>2, <1>3, <2>1
<1> QED BY <1>8, <1>9, <1>10

-----------------------------------------------------------------------------
(* What the packet is, given what it was asked to say. *)

LEMMA WordIsNat == Word \subseteq Nat
<1>1. WordMax \in Nat
  BY DEF WordMax
<1> QED BY <1>1 DEF Word

(* The sequence number as it is written *)
LEMMA SeqTextType ==
  ASSUME NEW s \in Word
  PROVE  /\ SeqText(s) \in Seq(0 .. 65)
         /\ s % 10000 \in Word
         /\ s <= 9999 => s % 10000 = s
<1>1. s \in Nat /\ s <= WordMax
  BY DEF Word, WordMax
<1>2. s \div 1000 \in 0 .. 65
  BY SMT, <1>1 DEF WordMax
<1>3. /\ (s % 1000) \div 100 \in 0 .. 65
      /\ (s % 100) \div 10 \in 0 .. 65
      /\ s % 10 \in 0 .. 65
  BY SMT, <1>1
<1>4. SeqText(s) \in Seq(0 .. 65)
  BY <1>2, <1>3 DEF SeqText
<1>5. s % 10000 \in Nat /\ s % 10000 <= s /\ (s <= 9999 => s % 10000 = s)
  BY SMT, <1>1
<1>6. WordMax \in Nat
  BY DEF WordMax
<1> QED BY SMT, <1>1, <1>4, <1>5, <1>6 DEF Word

(* The data segment of a request, with its bracket or without *)
LEMMA StoredType ==
  ASSUME NEW dat \in Dat, NEW closed \in BOOLEAN
  PROVE  /\ Stored(dat, closed) \in Dat
         /\ Stored(dat, closed).acct = dat.acct
         /\ Stored(dat, closed).event = dat.event
         /\ Stored(dat, closed).closed = closed
         /\ dat.closed /\ closed => Stored(dat, closed) = dat
BY DEF Stored, Dat

RequestOK(r) == r \in Request /\ LongEnough(r.acct)

LEMMA RequestTypes ==
  ASSUME NEW r, RequestOK(r)
  PROVE  /\ r.seq \in Word /\ r.acct \in Acct /\ r.ademco_id \in Nat
         /\ r.event \in Event /\ r.gg \in Byte /\ r.zone \in Word
         /\ LongEnough(r.acct)
BY DEF RequestOK, Request

LEMMA CallersRequests ==
  ASSUME NEW r \in Requests
  PROVE  RequestOK(r)
BY PacketAssumption DEF RequestOK, LongEnough

DataOf(r) == Data(r.acct, r.ademco_id, r.event, r.gg, r.zone)

(* The data segment of a request is empty or has an account that is long   *)
(* enough and not too long. *)
LEMMA DataOfType ==
  ASSUME NEW r, RequestOK(r)
  PROVE  /\ DataOf(r) \in Dat
         /\ DataOf(r).closed
         /\ r.event = EVENT_INVALID_EVENT => DataOf(r) = EmptyData
         /\ r.event # EVENT_INVALID_EVENT =>
              /\ DataOf(r).acct = DataAcct(r.acct, r.ademco_id)
              /\ DataOf(r).event = r.event
              /\ DataOf(r).gg = GGText(r.gg)
              /\ DataOf(r).zone = r.zone % ADEMCO_ZONE_SENTINEL
              /\ Len(DataOf(r).acct) \in AcctMin .. AcctMax
<1>1. /\ r.acct \in Acct /\ r.ademco_id \in Nat /\ r.event \in Event
      /\ r.gg \in Byte /\ r.zone \in Word /\ LongEnough(r.acct)
  BY RequestTypes
<1>2. PICK d : d = Data(r.acct, r.ademco_id, r.event, r.gg, r.zone)
  OBVIOUS
<1>3. /\ d \in Dat
      /\ d.closed
      /\ r.event = EVENT_INVALID_EVENT => d = EmptyData
      /\ r.event # EVENT_INVALID_EVENT =>
           /\ d.acct = DataAcct(r.acct, r.ademco_id)
           /\ d.event = r.event
           /\ d.gg = GGText(r.gg)
           /\ d.zone = r.zone % ADEMCO_ZONE_SENTINEL
  BY <1>1, <1>2, DataType
<1>4. Len(DataAcct(r.acct, r.ademco_id)) \in AcctMin .. AcctMax
  BY <1>1, DataAcctType
<1> QED BY <1>2, <1>3, <1>4 DEF DataOf

(* The cases of a packet's data segment *)
LEMMA WireData ==
  ASSUME NEW w, NEW a, w \in Wire, a \in Asked, LongEnough(a.request.acct),
         WireSays(w, a)
  PROVE  \/ w.dat = EmptyData
         \/ /\ a.id \in DataIds
            /\ a.request.event # EVENT_INVALID_EVENT
            /\ w.dat = DataOf(a.request)
         \/ /\ ~ w.dat.closed
            /\ DataLen(w.dat) > DataMax
<1>1. a.request \in Request /\ a.id \in EmptyIds \cup DataIds
  BY DEF Asked
<1>2. PICK r : r = a.request
  OBVIOUS
<1>3. RequestOK(r)
  BY <1>1, <1>2 DEF RequestOK
<1>4. CASE a.id \in EmptyIds
  BY <1>4 DEF WireSays
<1>5. CASE a.id \in DataIds
  <2>1. PICK dat : dat = DataOf(r)
    OBVIOUS
  <2>2. PICK closed \in BOOLEAN :
          w.dat = Stored(dat, closed) /\ (DataLen(dat) <= DataMax => closed)
    BY <1>2, <1>5, <2>1 DEF WireSays, DataOf
  <2>3. dat \in Dat /\ dat.closed
    BY <1>3, <2>1, DataOfType
  <2>4. CASE closed
    <3>1. w.dat = dat
      BY <2>2, <2>3, <2>4, StoredType
    <3>2. r.event = EVENT_INVALID_EVENT => dat = EmptyData
      BY <1>3, <2>1, DataOfType
    <3> QED BY <1>2, <1>5, <2>1, <3>1, <3>2
  <2>5. CASE ~ closed
    <3>1. ~ w.dat.closed /\ w.dat.acct = dat.acct
      BY <2>2, <2>3, <2>5, StoredType
    <3>2. ~ (DataLen(dat) <= DataMax)
      BY <2>2, <2>5
    <3>3. dat # EmptyData
      BY <3>2, EmptyDataType DEF DataMax
    <3>4. w.dat # EmptyData
      BY <3>1 DEF EmptyData
    <3>5. DataLen(w.dat) = DataLen(dat)
      BY <3>1, <3>3, <3>4 DEF DataLen
    <3>6. Len(dat.acct) \in Nat
      BY <2>3 DEF Dat, Acct
    <3>7. DataLen(dat) > DataMax
      BY <3>2, <3>3, <3>6 DEF DataLen, DataMax
    <3> QED BY <3>1, <3>5, <3>7
  <2> QED BY <2>4, <2>5
<1> QED BY <1>1, <1>4, <1>5

(* Every packet fits: the lengths of its parts added up. *)
LEMMA PacketLenBound ==
  ASSUME NEW w, w.acct \in Acct, Len(w.acct) <= AcctMax,
         w.dat.acct \in Acct, Len(w.dat.acct) <= AcctMax,
         w.xdata \in Seq(Byte), Len(w.xdata) < XdataMax
  PROVE  PacketLen(w) < PacketMax
<1>1. IdLen(w.id) \in 5 .. 9
  BY DEF IdLen
<1>2. DataLen(w.dat) \in 2 .. AcctMax + 15
  <2>1. Len(w.dat.acct) \in 0 .. AcctMax
    BY AcctMaxNat DEF Acct
  <2> QED BY <2>1, AcctMaxNat DEF DataLen
<1>3. Len(w.acct) \in 0 .. AcctMax
  BY AcctMaxNat DEF Acct
<1>4. Len(w.xdata) \in 0 .. XdataMax - 1
  BY FieldsAssumption
<1>5. PacketMax >= XdataMax + 109 /\ PacketMax \in Nat /\ XdataMax \in Nat
  <2>1. XdataMax \in Nat
    BY FieldsAssumption
  <2> QED BY <2>1, PacketAssumption
<1>6. \A i \in 5 .. 9, d \in 2 .. 33, a \in 0 .. 18, x \in 0 .. XdataMax - 1 :
        9 + i + 4 + 7 + 7 + 1 + a + d + x + 20 + 1 < PacketMax
  BY <1>5
<1>7. AcctMax = 18 /\ AcctMax + 15 = 33
  BY DEF AcctMax
<1> QED
  BY <1>1, <1>2, <1>3, <1>4, <1>6, <1>7, Zenon DEF PacketLen

(* What the invariant says of a packet's parts *)
LEMMA InvFits == IInv => MadePacketFits
<1> SUFFICES ASSUME IInv
             PROVE  PacketLen(wire) < PacketMax
  BY DEF MadePacketFits
<1>1. wire \in Wire /\ asked \in Asked
  BY DEF IInv, TypeOK
<1>2. PICK r : r = asked.request
  OBVIOUS
<1>3. RequestOK(r)
  BY <1>1, <1>2 DEF IInv, RequestOK, Asked
<1>4. wire.acct \in Acct /\ Len(wire.acct) <= AcctMax
  <2>1. r.acct \in Acct /\ LongEnough(r.acct) /\ r.ademco_id \in Nat
    BY <1>3, RequestTypes
  <2>2. /\ HeadAcct(r.acct, r.ademco_id) \in Acct
        /\ Len(HeadAcct(r.acct, r.ademco_id)) \in AcctMin .. AcctMax
    BY <2>1, HeadAcctType
  <2>3. wire.acct = HeadAcct(r.acct, r.ademco_id)
    BY <1>2 DEF IInv, WireSays
  <2> QED BY <2>2, <2>3, AcctMaxNat
<1>5. wire.dat.acct \in Acct /\ Len(wire.dat.acct) <= AcctMax
  <2>1. EmptyData.acct \in Acct /\ Len(EmptyData.acct) <= AcctMax
    <3>1. EmptyData.acct = <<>>
      BY DEF EmptyData
    <3>2. <<>> \in Seq(0 .. 15) /\ Len(<<>>) = 0 /\ 0 <= AcctMax
      BY AcctMaxNat
    <3> QED BY <3>1, <3>2 DEF Acct
  <2>2. DataOf(r).acct \in Acct /\ Len(DataOf(r).acct) <= AcctMax
    <3>1. DataOf(r) \in Dat
      BY <1>3, DataOfType
    <3>2. CASE r.event = EVENT_INVALID_EVENT
      BY <1>3, <2>1, <3>2, DataOfType
    <3>3. CASE r.event # EVENT_INVALID_EVENT
      <4>1. Len(DataOf(r).acct) \in AcctMin .. AcctMax
        BY <1>3, <3>3, DataOfType
      <4> QED BY <3>1, <4>1, AcctMaxNat DEF Dat
    <3> QED BY <3>2, <3>3
  <2>3. CASE asked.id \in EmptyIds
    BY <2>1, <2>3 DEF IInv, WireSays
  <2>4. CASE asked.id \in DataIds
    <3>1. PICK closed \in BOOLEAN : wire.dat = Stored(DataOf(r), closed)
      BY <1>2, <2>4 DEF IInv, WireSays, DataOf
    <3>2. wire.dat.acct = DataOf(r).acct
      BY <3>1 DEF Stored
    <3> QED BY <2>2, <3>2
  <2> QED BY <1>1, <2>3, <2>4 DEF Asked
<1>6. wire.xdata \in Seq(Byte) /\ Len(wire.xdata) < XdataMax
  <2>1. SegmentOrNone(wire.xdata)
    BY DEF IInv, XdataOK, Read
  <2> QED BY <2>1, SegmentOrNoneType
<1> QED BY <1>4, <1>5, <1>6, PacketLenBound

(* ademco_parse_packet accepts every packet but the one that is excepted. *)
LEMMA InvParses == IInv => MadePacketParses
<1> SUFFICES ASSUME IInv
             PROVE  MadePacketParses
  OBVIOUS
<1>1. PacketLen(wire) < PacketMax
  BY InvFits DEF MadePacketFits
<1>2. wire.xdata # <<>> => XdataParses(wire.xdata)
  <2>1. SegmentOrNone(wire.xdata)
    BY DEF IInv, XdataOK, Read
  <2> QED BY <2>1, SegmentOrNoneType
<1>3. DataParses(wire.dat) \/ (~ wire.dat.closed /\ DataLen(wire.dat) > DataMax)
  <2>1. /\ wire \in Wire /\ asked \in Asked
        /\ LongEnough(asked.request.acct) /\ WireSays(wire, asked)
    BY DEF IInv, TypeOK
  <2>2. CASE wire.dat = EmptyData
    <3>1. EmptyData.closed
      BY DEF EmptyData
    <3> QED BY <2>2, <3>1 DEF DataParses
  <2>3. CASE /\ asked.request.event # EVENT_INVALID_EVENT
             /\ wire.dat = DataOf(asked.request)
    <3>1. RequestOK(asked.request)
      BY <2>1 DEF RequestOK, Asked
    <3>2. /\ DataOf(asked.request).closed
          /\ Len(DataOf(asked.request).acct) \in AcctMin .. AcctMax
      BY <2>3, <3>1, DataOfType
    <3> QED BY <2>3, <3>2 DEF DataParses
  <2> QED BY <2>1, <2>2, <2>3, WireData
<1> QED BY <1>1, <1>2, <1>3 DEF MadePacketParses, Parses

(* xdata has the meaning the history says. *)
LEMMA InvKept == IInv => XdataKept
<1> SUFFICES ASSUME IInv, payload # Lost
             PROVE  Content(pkt.xdata) = Spell(pkt.xdata.format, payload)
  BY DEF XdataKept, Spell
<1>1. pkt.xdata \in Xdata /\ payload \in Seq(Byte)
  BY DEF IInv, TypeOK, Packet
<1>2. Stands(pkt.xdata, payload)
  BY DEF IInv, XdataOK
<1> QED BY <1>1, <1>2, StandsContent

-----------------------------------------------------------------------------
(* The steps. *)

(* The invariant of the next state, part by part *)
LEMMA Assembled ==
  ASSUME pkt' \in Packet, wire' \in Wire, asked' \in Asked,
         payload' \in Seq(Byte) \cup {Lost}, parsed' \in BOOLEAN,
         LongEnough(pkt'.acct), LongEnough(asked'.request.acct),
         WireSays(wire', asked'), XdataOK(pkt'.xdata, payload'),
         XdataOK(Read(wire'.xdata), asked'.payload),
         parsed' => Says(pkt', asked')
  PROVE  IInv'
<1>1. Len(pkt'.xdata.raw) < XdataMax
  <2>1. SegmentOrNone(pkt'.xdata.raw)
    BY DEF XdataOK
  <2> QED BY <2>1, SegmentOrNoneType
<1>2. TypeOK'
  BY <1>1 DEF TypeOK
<1> QED BY <1>2 DEF IInv, RoundTrip

(* A packet made from these parts says what it was asked to say. *)
LEMMA HeadSays ==
  ASSUME NEW id, NEW r, RequestOK(r), NEW x \in Seq(Byte), NEW b, NEW w,
         w.id = id, SaysSeq(w, r),
         w.acct = HeadAcct(r.acct, r.ademco_id), w.xdata = x,
         \/ id \notin DataIds /\ w.dat = EmptyData
         \/ id \notin EmptyIds /\ w.dat = DataOf(r)
  PROVE  WireSays(w, Ask(id, r, x, b))
<1>1. PICK a : a = Ask(id, r, x, b)
  OBVIOUS
<1>2. a.id = id /\ a.request = r /\ a.xdata = x
  BY <1>1 DEF Ask
<1>3. PICK d \in Dat : d = DataOf(r) /\ d.closed
  BY DataOfType
<1>4. d = Stored(d, TRUE)
  BY <1>3 DEF Stored, Dat
<1>5. CASE id \notin DataIds /\ w.dat = EmptyData
  BY <1>1, <1>2, <1>5 DEF WireSays
<1>6. CASE id \notin EmptyIds /\ w.dat = DataOf(r)
  <2>1. w.dat = Stored(d, TRUE)
    BY <1>3, <1>4, <1>6
  <2>2. \E closed \in BOOLEAN : /\ w.dat = Stored(d, closed)
                                /\ DataLen(d) <= DataMax => closed
    BY <2>1
  <2>3. d = Data(a.request.acct, a.request.ademco_id, a.request.event,
                 a.request.gg, a.request.zone)
    BY <1>2, <1>3 DEF DataOf
  <2>4. /\ w.id = a.id
        /\ SaysSeq(w, a.request)
        /\ w.acct = HeadAcct(a.request.acct, a.request.ademco_id)
        /\ w.xdata = a.xdata
        /\ a.id \notin EmptyIds
    BY <1>2, <1>6
  <2>5. a.id \in EmptyIds => w.dat = EmptyData
    BY <2>4
  <2>6. WireSays(w, a)
    BY <2>2, <2>3, <2>4, <2>5 DEF WireSays
  <2> QED BY <1>1, <2>6
<1> QED BY <1>5, <1>6

LEMMA NothingStands ==
  XdataOK(Read(<<>>), <<>>) /\ NoXdata \in Xdata /\ XdataOK(NoXdata, <<>>)
<1>1. NoXdata \in Xdata /\ NoXdata.raw = <<>>
  BY DEF NoXdata, Xdata, Formats
<1>2. Read(<<>>).raw = <<>>
  BY DEF Read
<1> QED BY <1>1, <1>2 DEF XdataOK, Stands, SegmentOrNone

LEMMA EmptyBytes == <<>> \in Seq(Byte)
OBVIOUS

(* The parts of a made packet are of their types. *)
LEMMA WireType ==
  ASSUME NEW id \in EmptyIds \cup DataIds, NEW r, RequestOK(r),
         NEW dat \in Dat, NEW x \in Seq(Byte), NEW s \in Word
  PROVE  [ id |-> id, seq |-> SeqText(s),
           acct |-> HeadAcct(r.acct, r.ademco_id), dat |-> dat, xdata |-> x ]
           \in Wire
<1>1. HeadAcct(r.acct, r.ademco_id) \in Acct
  BY RequestTypes, HeadAcctType
<1>2. SeqText(s) \in Seq(0 .. 65)
  BY SeqTextType
<1> QED BY <1>1, <1>2 DEF Wire, Dat

LEMMA AskedType ==
  ASSUME NEW id \in EmptyIds \cup DataIds, NEW r, RequestOK(r),
         NEW x \in Seq(Byte), NEW b \in Seq(Byte) \cup {Lost}
  PROVE  /\ Ask(id, r, x, b) \in Asked
         /\ Ask(id, r, x, b).request = r
         /\ Ask(id, r, x, b).payload = b
BY DEF Ask, Asked, RequestOK

LEMMA EmptyPreserves ==
  ASSUME IInv, NEW id \in EmptyIds, NEW r \in Requests, MakeEmpty(id, r)
  PROVE  IInv'
<1>1. RequestOK(r)
  BY CallersRequests
<1>2. /\ r.seq \in Word /\ r.acct \in Acct /\ r.ademco_id \in Nat
      /\ LongEnough(r.acct)
  BY <1>1, RequestTypes
<1>3. Clip(r.acct) \in Acct /\ LongEnough(Clip(r.acct))
  BY <1>2, ClipKeeps
<1>4. pkt \in Packet /\ payload \in Seq(Byte) \cup {Lost}
  BY DEF IInv, TypeOK
<1>5. pkt' = [ pkt EXCEPT !.id = id, !.seq = r.seq, !.acct = Clip(r.acct),
                         !.ademco_id = r.ademco_id ]
  BY DEF MakeEmpty
<1>6. pkt' \in Packet /\ pkt'.acct = Clip(r.acct) /\ pkt'.xdata = pkt.xdata
  BY <1>2, <1>3, <1>4, <1>5 DEF Packet
<1>7. PICK e \in Seq(Byte) : e = <<>>
  BY EmptyBytes
<1>8. wire' = [ id |-> id, seq |-> SeqText(r.seq % 10000),
                acct |-> HeadAcct(r.acct, r.ademco_id),
                dat |-> EmptyData, xdata |-> e ]
  BY <1>7 DEF MakeEmpty
<1>9. wire' \in Wire /\ wire'.xdata = e
  <2>1. r.seq % 10000 \in Word
    BY <1>2, SeqTextType
  <2> QED BY <1>1, <1>8, <2>1, WireType, EmptyDataType
<1>10. asked' = Ask(id, r, e, e)
  BY <1>7 DEF MakeEmpty
<1>11. asked' \in Asked /\ asked'.request = r /\ asked'.payload = e
  BY <1>1, <1>10, AskedType
<1>12. WireSays(wire', asked')
  <2>1. id \notin DataIds
    BY DEF EmptyIds, DataIds
  <2>2. SaysSeq(wire', r)
    BY <1>2, <1>8, SeqTextType DEF SaysSeq
  <2>3. /\ wire'.id = id
        /\ wire'.acct = HeadAcct(r.acct, r.ademco_id) /\ wire'.xdata = e
        /\ wire'.dat = EmptyData
    BY <1>8
  <2> QED BY <1>1, <1>10, <2>1, <2>2, <2>3, HeadSays
<1>13. XdataOK(Read(wire'.xdata), asked'.payload)
  BY <1>7, <1>9, <1>11, NothingStands
<1>14. payload' = payload /\ parsed' = FALSE
  BY DEF MakeEmpty
<1>15. XdataOK(pkt'.xdata, payload')
  BY <1>6, <1>14 DEF IInv
<1>16. LongEnough(pkt'.acct) /\ LongEnough(asked'.request.acct)
  BY <1>2, <1>3, <1>6, <1>11
<1> QED
  BY <1>4, <1>6, <1>9, <1>11, <1>12, <1>13, <1>14, <1>15, <1>16, Assembled

LEMMA WithPreserves ==
  ASSUME NEW id \in DataIds, NEW r \in Requests, NEW x \in Xdata,
         NEW b \in Seq(Byte) \cup {Lost}, XdataOK(x, b),
         MakeWith(id, r, x, b)
  PROVE  IInv'
<1>1. RequestOK(r)
  BY CallersRequests
<1>2. /\ r.seq \in Word /\ r.acct \in Acct /\ r.ademco_id \in Nat
      /\ r.event \in Event /\ r.gg \in Byte /\ r.zone \in Word
      /\ LongEnough(r.acct)
  BY <1>1, RequestTypes
<1>3. Clip(r.acct) \in Acct /\ LongEnough(Clip(r.acct))
  BY <1>2, ClipKeeps
<1>4. pkt' = [ id |-> id, seq |-> r.seq, acct |-> Clip(r.acct),
               ademco_id |-> r.ademco_id, event |-> r.event, gg |-> r.gg,
               zone |-> r.zone, xdata |-> x ]
  BY DEF MakeWith
<1>5. pkt' \in Packet /\ pkt'.acct = Clip(r.acct) /\ pkt'.xdata = x
  BY <1>2, <1>3, <1>4 DEF Packet
<1>6. wire' = [ id |-> id, seq |-> SeqText(r.seq % 10000),
                acct |-> HeadAcct(r.acct, r.ademco_id),
                dat |-> DataOf(r), xdata |-> x.raw ]
  BY DEF MakeWith, DataOf
<1>7. x.raw \in Seq(Byte)
  BY DEF Xdata
<1>8. wire' \in Wire /\ wire'.xdata = x.raw
  <2>1. r.seq % 10000 \in Word
    BY <1>2, SeqTextType
  <2>2. DataOf(r) \in Dat
    BY <1>1, DataOfType
  <2> QED BY <1>1, <1>6, <1>7, <2>1, <2>2, WireType
<1>9. asked' = Ask(id, r, x.raw, b)
  BY DEF MakeWith
<1>10. asked' \in Asked /\ asked'.request = r /\ asked'.payload = b
  BY <1>1, <1>7, <1>9, AskedType
<1>11. WireSays(wire', asked')
  <2>1. id \notin EmptyIds
    BY DEF EmptyIds, DataIds
  <2>2. SaysSeq(wire', r)
    BY <1>2, <1>6, SeqTextType DEF SaysSeq
  <2>3. /\ wire'.id = id
        /\ wire'.acct = HeadAcct(r.acct, r.ademco_id) /\ wire'.xdata = x.raw
        /\ wire'.dat = DataOf(r)
    BY <1>6
  <2> QED BY <1>1, <1>7, <1>9, <2>1, <2>2, <2>3, HeadSays
<1>12. XdataOK(Read(wire'.xdata), asked'.payload)
  BY <1>8, <1>10, ReadKeeps
<1>13. payload' = b /\ parsed' = FALSE
  BY DEF MakeWith
<1>14. XdataOK(pkt'.xdata, payload')
  BY <1>5, <1>13
<1>15. LongEnough(pkt'.acct) /\ LongEnough(asked'.request.acct)
  BY <1>2, <1>3, <1>5, <1>10
<1> QED BY <1>5, <1>8, <1>10, <1>11, <1>12, <1>13, <1>14, <1>15, Assembled

LEMMA DataXdataPreserves ==
  ASSUME NEW id \in DataIds, NEW r \in Requests, NEW f \in Formats,
         NEW t \in {AS_IS, TO_ASCII}, NEW c \in Contents,
         MakeDataXdata(id, r, f, t, c)
  PROVE  IInv'
<1>1. c \in Seq(Byte)
  BY PacketAssumption, Zenon
<1>2. PICK x : x = MakeXdata(NoXdata, f, t, c)
  OBVIOUS
<1>3. x.raw # <<>> /\ MakeWith(id, r, x, Meaning(f, t, c))
  BY <1>2 DEF MakeDataXdata
<1>4. /\ x \in Xdata
      /\ Meaning(f, t, c) \in Seq(Byte) \cup {Lost}
      /\ XdataOK(x, Meaning(f, t, c))
  BY <1>1, <1>2, <1>3, MadeXdataStands
<1> QED BY <1>3, <1>4, WithPreserves

LEMMA InPlacePreserves ==
  ASSUME IInv, MakeInPlace
  PROVE  IInv'
<1>1. /\ pkt \in Packet /\ payload \in Seq(Byte) \cup {Lost}
      /\ LongEnough(pkt.acct) /\ XdataOK(pkt.xdata, payload)
  BY DEF IInv, TypeOK
<1>2. PICK r : r = Held
  OBVIOUS
<1>3. /\ r.seq = pkt.seq /\ r.acct = pkt.acct /\ r.ademco_id = pkt.ademco_id
      /\ r.event = pkt.event /\ r.gg = pkt.gg /\ r.zone = pkt.zone
  BY <1>2 DEF Held
<1>4. RequestOK(r)
  <2>1. r \in Request
    BY <1>1, <1>2 DEF Held, Packet, Request
  <2> QED BY <1>1, <1>3, <2>1 DEF RequestOK
<1>5. pkt.xdata \in Xdata /\ pkt.xdata.raw \in Seq(Byte) /\ pkt.seq \in Word
  BY <1>1 DEF Packet, Xdata
<1>6. PICK x : x = pkt.xdata.raw
  OBVIOUS
<1>7. PICK closed \in BOOLEAN :
        /\ DataLen(DataOf(r)) <= DataMax => closed
        /\ wire' = [ id |-> "HB", seq |-> SeqText(pkt.seq),
                     acct |-> HeadAcct(r.acct, r.ademco_id),
                     dat |-> Stored(DataOf(r), closed), xdata |-> x ]
  BY <1>3, <1>6 DEF MakeInPlace, DataOf
<1>8. "HB" \in DataIds /\ "HB" \notin EmptyIds
  BY DEF DataIds, EmptyIds
<1>9. Stored(DataOf(r), closed) \in Dat
  BY <1>4, DataOfType, StoredType
<1>10. wire' \in Wire /\ wire'.xdata = x
  BY <1>4, <1>5, <1>6, <1>7, <1>8, <1>9, WireType
<1>11. asked' = Ask("HB", r, x, payload)
  BY <1>2, <1>6 DEF MakeInPlace
<1>12. asked' \in Asked /\ asked'.request = r /\ asked'.payload = payload
  BY <1>1, <1>4, <1>5, <1>6, <1>8, <1>11, AskedType
<1>13. WireSays(wire', asked')
  <2>1. /\ wire'.id = "HB" /\ wire'.seq = SeqText(r.seq)
        /\ wire'.acct = HeadAcct(r.acct, r.ademco_id) /\ wire'.xdata = x
        /\ wire'.dat = Stored(DataOf(r), closed)
    BY <1>3, <1>7
  <2>2. asked'.id = "HB" /\ asked'.request = r /\ asked'.xdata = x
    BY <1>11 DEF Ask
  <2>3. SaysSeq(wire', r)
    BY <2>1 DEF SaysSeq
  <2> QED BY <1>7, <1>8, <2>1, <2>2, <2>3 DEF WireSays, DataOf
<1>14. XdataOK(Read(wire'.xdata), asked'.payload)
  BY <1>1, <1>5, <1>6, <1>10, <1>12, ReadKeeps
<1>15. payload' = payload /\ parsed' = FALSE
  BY DEF MakeInPlace
<1>16. pkt' \in Packet /\ pkt'.acct = pkt.acct /\ pkt'.xdata = pkt.xdata
  <2>1. CASE pkt' = pkt
    BY <1>1, <2>1
  <2>2. CASE pkt' = [ pkt EXCEPT !.ademco_id = @ % ADEMCO_ID_SENTINEL,
                                 !.zone = @ % ADEMCO_ZONE_SENTINEL ]
    <3>1. pkt.ademco_id \in Nat /\ pkt.zone \in Word
      BY <1>1 DEF Packet
    <3>2. pkt.ademco_id % ADEMCO_ID_SENTINEL \in Nat
      BY SMT, <3>1 DEF ADEMCO_ID_SENTINEL
    <3>3. pkt.zone % ADEMCO_ZONE_SENTINEL \in Word
      <4>1. \A z \in Nat : z % ADEMCO_ZONE_SENTINEL \in Nat
                           /\ z % ADEMCO_ZONE_SENTINEL <= z
        BY SMT DEF ADEMCO_ZONE_SENTINEL
      <4>2. WordMax \in Nat
        BY DEF WordMax
      <4> QED BY <3>1, <4>1, <4>2 DEF Word
    <3> QED BY <1>1, <2>2, <3>2, <3>3 DEF Packet
  <2> QED BY <2>1, <2>2 DEF MakeInPlace
<1>17. XdataOK(pkt'.xdata, payload')
  BY <1>1, <1>15, <1>16
<1>18. LongEnough(pkt'.acct) /\ LongEnough(asked'.request.acct)
  BY <1>1, <1>3, <1>12, <1>16
<1> QED
  BY <1>1, <1>10, <1>12, <1>13, <1>14, <1>15, <1>16, <1>17, <1>18, Assembled

LEMMA ConvertPreserves ==
  ASSUME IInv, NEW f \in Formats, ConvertXdata(f)
  PROVE  IInv'
<1>1. /\ pkt \in Packet /\ wire \in Wire /\ asked \in Asked
      /\ payload \in Seq(Byte) \cup {Lost} /\ XdataOK(pkt.xdata, payload)
  BY DEF IInv, TypeOK
<1>2. PICK y : y = Convert(pkt.xdata, f)
  OBVIOUS
<1>3. PICK d : d = IF y.format # pkt.xdata.format /\ y.raw = pkt.xdata.raw
                   THEN Lost ELSE payload
  OBVIOUS
<1>4. pkt.xdata \in Xdata
  BY <1>1 DEF Packet
<1>5. y \in Xdata /\ d \in Seq(Byte) \cup {Lost} /\ XdataOK(y, d)
  BY <1>1, <1>2, <1>3, <1>4, ConvertKeeps
<1>6. /\ pkt' = [pkt EXCEPT !.xdata = y] /\ payload' = d
      /\ parsed' = FALSE /\ wire' = wire /\ asked' = asked
  BY <1>2, <1>3 DEF ConvertXdata
<1>7. pkt' \in Packet /\ pkt'.acct = pkt.acct /\ pkt'.xdata = y
  BY <1>1, <1>5, <1>6 DEF Packet
<1>8. /\ LongEnough(pkt'.acct) /\ LongEnough(asked'.request.acct)
      /\ WireSays(wire', asked') /\ XdataOK(Read(wire'.xdata), asked'.payload)
  BY <1>6, <1>7 DEF IInv
<1> QED BY <1>1, <1>5, <1>6, <1>7, <1>8, Assembled

(* What parsing a packet leaves in the structure *)
LEMMA ParsedType ==
  ASSUME NEW p \in Packet, NEW dat \in Dat, GGValue(dat.gg) \in Byte,
         NEW q, q = ParsedData(p, dat)
  PROVE  /\ q \in Packet
         /\ q.id = p.id /\ q.seq = p.seq /\ q.acct = p.acct /\ q.xdata = p.xdata
         /\ dat = EmptyData => q.event = EVENT_INVALID_EVENT
         /\ dat # EmptyData =>
              /\ q.event = dat.event
              /\ q.zone = dat.zone
              /\ q.gg = GGValue(dat.gg)
              /\ q.ademco_id = DataId(dat.acct)
<1>1. 0 \in Byte /\ 0 \in Word /\ 0 \in Nat /\ EVENT_INVALID_EVENT \in Event
  BY DEF Byte, Word, WordMax, EVENT_INVALID_EVENT, Event, EventMax
<1>2. CASE dat = EmptyData
  <2>1. q = [ p EXCEPT !.ademco_id = 0, !.event = EVENT_INVALID_EVENT,
                       !.gg = 0, !.zone = 0 ]
    BY <1>2 DEF ParsedData
  <2> QED BY <1>1, <1>2, <2>1 DEF Packet
<1>3. CASE dat # EmptyData
  <2>1. q = [ p EXCEPT !.ademco_id = DataId(dat.acct), !.event = dat.event,
                       !.gg = GGValue(dat.gg), !.zone = dat.zone ]
    BY <1>3 DEF ParsedData
  <2>2. dat.event \in Event /\ dat.zone \in 0 .. ADEMCO_ZONE_SENTINEL - 1
    BY DEF Dat
  <2>3. dat.zone \in Word
    <3>1. /\ ADEMCO_ZONE_SENTINEL \in Nat /\ WordMax \in Nat
          /\ ADEMCO_ZONE_SENTINEL - 1 <= WordMax
      BY SMT DEF ADEMCO_ZONE_SENTINEL, WordMax
    <3> QED BY <2>2, <3>1 DEF Word
  <2>4. DataId(dat.acct) \in Nat
    BY DataIdNat
  <2> QED BY <1>3, <2>1, <2>2, <2>3, <2>4 DEF Packet
<1> QED BY <1>2, <1>3

(* The id of a request is read back, or it had none to read. *)
LEMMA IdBack ==
  ASSUME NEW r, RequestOK(r)
  PROVE  /\ r.ademco_id \in 1 .. ADEMCO_ID_SENTINEL - 1 =>
              DataId(DataAcct(r.acct, r.ademco_id)) = r.ademco_id
         /\ r.ademco_id = 0 /\ r.acct = <<>> =>
              DataId(DataAcct(r.acct, r.ademco_id)) = 0
<1>1. PICK v \in Nat : v = r.ademco_id
  BY RequestTypes
<1>2. ADEMCO_ID_SENTINEL \in Nat /\ ADEMCO_ID_SENTINEL > 0
  BY SMT DEF ADEMCO_ID_SENTINEL
<1>3. v < ADEMCO_ID_SENTINEL => v % ADEMCO_ID_SENTINEL = v
  BY SMT, <1>2
<1>4. v < ADEMCO_ID_SENTINEL => DataId(HexText(v, 6)) = v
  BY DataIdBack
<1>5. ASSUME v \in 1 .. ADEMCO_ID_SENTINEL - 1
      PROVE  DataId(DataAcct(r.acct, v)) = v
  <2>1. v < ADEMCO_ID_SENTINEL /\ v # 0
    BY <1>2, <1>5
  <2>2. DataAcct(r.acct, v) = HexText(v, 6)
    BY <1>3, <2>1 DEF DataAcct
  <2> QED BY <1>4, <2>1, <2>2
<1>6. ASSUME v = 0, r.acct = <<>>
      PROVE  DataId(DataAcct(r.acct, v)) = 0
  <2>1. DataAcct(r.acct, v) = HexText(v, 6)
    BY <1>2, <1>3, <1>6 DEF DataAcct
  <2> QED BY <1>2, <1>4, <1>6, <2>1
<1> QED BY <1>1, <1>5, <1>6

LEMMA ParsePreserves ==
  ASSUME IInv, Parse
  PROVE  IInv'
<1>1. /\ pkt \in Packet /\ wire \in Wire /\ asked \in Asked
      /\ LongEnough(asked.request.acct) /\ WireSays(wire, asked)
      /\ XdataOK(Read(wire.xdata), asked.payload)
  BY DEF IInv, TypeOK
<1>2. PICK r : r = asked.request
  OBVIOUS
<1>3. RequestOK(r)
  BY <1>1, <1>2 DEF RequestOK, Asked
<1>4. asked.payload \in Seq(Byte) \cup {Lost} /\ pkt.xdata \in Xdata
  BY <1>1 DEF Asked, Packet
<1>5. PICK x : x = ParsedXdata(pkt.xdata, wire.xdata)
  OBVIOUS
<1>6. x \in Xdata /\ x.raw = wire.xdata /\ XdataOK(x, asked.payload)
  BY <1>1, <1>4, <1>5, ParsedXdataKeeps
<1>7. PICK p : p = [ pkt EXCEPT !.id = wire.id, !.seq = SeqValue(wire.seq),
                               !.acct = wire.acct, !.xdata = x ]
  OBVIOUS
<1>8. /\ p \in Packet /\ p.id = wire.id /\ p.seq = SeqValue(wire.seq)
      /\ p.acct = wire.acct /\ p.xdata = x
  <2>1. wire.id \in EmptyIds \cup DataIds /\ wire.acct \in Acct
    BY <1>1 DEF Wire
  <2>2. SeqValue(wire.seq) \in Word
    BY SeqValueRange
  <2> QED BY <1>1, <1>6, <1>7, <2>1, <2>2 DEF Packet
<1>9. pkt' = ParsedData(p, wire.dat)
  <2>1. pkt' = ParsedData(
                 [ pkt EXCEPT !.id = wire.id, !.seq = SeqValue(wire.seq),
                              !.acct = wire.acct,
                              !.xdata = ParsedXdata(pkt.xdata, wire.xdata) ],
                 wire.dat)
    BY <1>1 DEF Parse, Packet
  <2> QED BY <1>5, <1>7, <2>1
<1>10. wire.dat \in Dat /\ wire.dat.closed
  <2>1. wire.dat.closed
    BY DEF Parse, Parses, DataParses
  <2> QED BY <1>1, <2>1 DEF Wire, Dat
<1>11. \/ wire.dat = EmptyData
       \/ /\ asked.id \in DataIds
          /\ r.event # EVENT_INVALID_EVENT
          /\ wire.dat = DataOf(r)
  BY <1>1, <1>2, <1>10, WireData
<1>12. GGValue(wire.dat.gg) \in Byte
  <2>1. CASE wire.dat = EmptyData
    <3>1. EmptyData.gg = << 0, 0 >>
      BY DEF EmptyData
    <3>2. << 0, 0 >> # << 21, 21 >> /\ << 0, 0 >> # << 19, 19 >>
      OBVIOUS
    <3>3. GGValue(<< 0, 0 >>) = (10 * 0 + 0) % 256
      BY <3>2 DEF GGValue
    <3> QED BY <2>1, <3>1, <3>3 DEF Byte
  <2>2. CASE r.event # EVENT_INVALID_EVENT /\ wire.dat = DataOf(r)
    <3>1. wire.dat.gg = GGText(r.gg) /\ r.gg \in Byte
      BY <1>3, <2>2, DataOfType, RequestTypes
    <3> QED BY <3>1, GGType
  <2> QED BY <1>11, <2>1, <2>2
<1>13. /\ pkt' \in Packet
       /\ pkt'.id = wire.id /\ pkt'.seq = SeqValue(wire.seq)
       /\ pkt'.acct = wire.acct /\ pkt'.xdata = x
       /\ wire.dat = EmptyData => pkt'.event = EVENT_INVALID_EVENT
       /\ wire.dat # EmptyData =>
            /\ pkt'.event = wire.dat.event
            /\ pkt'.zone = wire.dat.zone
            /\ pkt'.gg = GGValue(wire.dat.gg)
            /\ pkt'.ademco_id = DataId(wire.dat.acct)
  BY <1>8, <1>9, <1>10, <1>12, ParsedType
<1>14. /\ wire' = wire /\ asked' = asked /\ payload' = asked.payload
       /\ parsed' = TRUE
  BY DEF Parse
<1>15. wire.acct = HeadAcct(r.acct, r.ademco_id)
  BY <1>1, <1>2 DEF WireSays
<1>16. LongEnough(pkt'.acct) /\ LongEnough(asked'.request.acct)
  <2>1. Len(wire.acct) \in AcctMin .. AcctMax
    BY <1>3, <1>15, RequestTypes, HeadAcctType
  <2> QED BY <1>1, <1>13, <1>14, <2>1, AcctMaxNat DEF LongEnough
<1>17. Says(pkt', asked)
  <2>1. pkt'.id = asked.id /\ pkt'.xdata.raw = asked.xdata
    BY <1>1, <1>6, <1>13 DEF WireSays
  <2>2. r.seq <= 9999 => pkt'.seq = r.seq
    <3>1. r.seq \in Nat
      BY <1>3, RequestTypes, WordIsNat
    <3>2. r.seq <= 9999 => SeqValue(SeqText(r.seq)) = r.seq
      BY <3>1, SeqBack
    <3>3. r.seq <= 9999 => wire.seq = SeqText(r.seq)
      <4>1. SaysSeq(wire, r)
        BY <1>1, <1>2 DEF WireSays
      <4> QED BY <4>1 DEF SaysSeq
    <3> QED BY <1>13, <3>2, <3>3
  <2>3. pkt'.acct = IF r.acct = <<>> THEN HexText(r.ademco_id, 6)
                    ELSE Clip(r.acct)
    BY <1>13, <1>15 DEF HeadAcct
  <2>4. asked.id \in EmptyIds => pkt'.event = EVENT_INVALID_EVENT
    BY <1>1, <1>13 DEF WireSays
  <2>5. ASSUME asked.id \in DataIds, r.event # EVENT_INVALID_EVENT
        PROVE  /\ pkt'.event = r.event
               /\ r.zone <= 999 => pkt'.zone = r.zone
               /\ r.gg \in 0 .. 99 \cup {204, 238} => pkt'.gg = r.gg
               /\ r.ademco_id \in 1 .. ADEMCO_ID_SENTINEL - 1 =>
                    pkt'.ademco_id = r.ademco_id
               /\ r.ademco_id = 0 /\ r.acct = <<>> => pkt'.ademco_id = 0
    <3>1. PICK closed \in BOOLEAN : wire.dat = Stored(DataOf(r), closed)
      BY <1>1, <1>2, <2>5 DEF WireSays, DataOf
    <3>2. /\ DataOf(r) \in Dat /\ DataOf(r).closed
          /\ DataOf(r).event = r.event
          /\ DataOf(r).acct = DataAcct(r.acct, r.ademco_id)
          /\ DataOf(r).gg = GGText(r.gg)
          /\ DataOf(r).zone = r.zone % ADEMCO_ZONE_SENTINEL
      BY <1>3, <2>5, DataOfType
    <3>3. wire.dat = DataOf(r)
      <4>1. closed
        BY <1>10, <3>1, <3>2, StoredType
      <4> QED BY <3>1, <3>2, <4>1, StoredType
    <3>4. wire.dat # EmptyData
      <4>1. EmptyData.event = EVENT_INVALID_EVENT
        BY DEF EmptyData, EVENT_INVALID_EVENT
      <4> QED BY <2>5, <3>2, <3>3, <4>1
    <3>5. r.zone <= 999 => r.zone % ADEMCO_ZONE_SENTINEL = r.zone
      <4>1. r.zone \in Nat
        BY <1>3, RequestTypes, WordIsNat
      <4> QED BY SMT, <4>1 DEF ADEMCO_ZONE_SENTINEL
    <3>6. r.gg \in 0 .. 99 \cup {204, 238} => GGValue(GGText(r.gg)) = r.gg
      BY GGBack
    <3>7. /\ r.ademco_id \in 1 .. ADEMCO_ID_SENTINEL - 1 =>
               DataId(DataAcct(r.acct, r.ademco_id)) = r.ademco_id
          /\ r.ademco_id = 0 /\ r.acct = <<>> =>
               DataId(DataAcct(r.acct, r.ademco_id)) = 0
      BY <1>3, IdBack
    <3> QED BY <1>13, <3>2, <3>3, <3>4, <3>5, <3>6, <3>7
  <2> QED BY <1>2, <2>1, <2>2, <2>3, <2>4, <2>5 DEF Says
<1>18. WireSays(wire', asked') /\ XdataOK(Read(wire'.xdata), asked'.payload)
  BY <1>1, <1>14
<1>19. XdataOK(pkt'.xdata, payload')
  BY <1>6, <1>13, <1>14
<1>20. parsed' => Says(pkt', asked')
  BY <1>14, <1>17
<1> QED
  BY <1>1, <1>4, <1>13, <1>14, <1>16, <1>18, <1>19, <1>20, Assembled

(* The structure set to zero and the packet NULL *)
LEMMA InitInv == Init => IInv
<1> SUFFICES ASSUME Init
             PROVE  IInv
  OBVIOUS
<1>1. PICK r : r = NoRequest
  OBVIOUS
<1>2. 0 \in Byte /\ 0 \in Word /\ 0 \in Nat /\ 0 \in Event
  BY DEF Byte, Word, WordMax, Event, EventMax
<1>3. PICK e \in Seq(Byte) : e = <<>>
  BY EmptyBytes
<1>4. <<>> \in Acct /\ LongEnough(<<>>)
  BY DEF Acct, LongEnough
<1>5. RequestOK(r) /\ r.seq = 0 /\ r.acct = <<>> /\ r.ademco_id = 0
  BY <1>1, <1>2, <1>4 DEF NoRequest, RequestOK, Request
<1>6. "NULL" \in EmptyIds /\ "NULL" \notin DataIds
  BY DEF EmptyIds, DataIds
<1>7. pkt \in Packet /\ pkt.acct = <<>> /\ pkt.xdata = NoXdata
  BY <1>2, <1>4, <1>6, NothingStands DEF Init, Packet
<1>8. wire = [ id |-> "NULL", seq |-> SeqText(0), acct |-> HeadAcct(r.acct, 0),
               dat |-> EmptyData, xdata |-> e ]
  BY <1>3, <1>5 DEF Init, HeadAcct
<1>9. wire \in Wire /\ wire.xdata = e
  BY <1>2, <1>5, <1>6, <1>8, EmptyDataType, WireType
<1>10. asked = Ask("NULL", r, e, e)
  BY <1>1, <1>3 DEF Init
<1>11. asked \in Asked /\ asked.request = r /\ asked.payload = e
  BY <1>5, <1>6, <1>10, AskedType
<1>12. WireSays(wire, asked)
  <2>2. /\ wire.id = "NULL" /\ SaysSeq(wire, r)
        /\ wire.acct = HeadAcct(r.acct, r.ademco_id) /\ wire.xdata = e
        /\ wire.dat = EmptyData
    BY <1>5, <1>8 DEF SaysSeq
  <2> QED BY <1>5, <1>6, <1>10, <2>2, HeadSays
<1>13. payload = e /\ parsed = FALSE
  BY <1>3 DEF Init
<1>14. XdataOK(pkt.xdata, payload) /\ XdataOK(Read(wire.xdata), asked.payload)
  BY <1>3, <1>7, <1>9, <1>11, <1>13, NothingStands
<1>15. Len(pkt.xdata.raw) < XdataMax
  <2>1. SegmentOrNone(pkt.xdata.raw)
    BY <1>14 DEF XdataOK
  <2> QED BY <2>1, SegmentOrNoneType
<1>16. TypeOK
  BY <1>7, <1>9, <1>13, <1>15 DEF TypeOK
<1>17. LongEnough(pkt.acct) /\ LongEnough(asked.request.acct)
  BY <1>4, <1>5, <1>7, <1>11
<1> QED BY <1>11, <1>12, <1>13, <1>14, <1>16, <1>17 DEF IInv, RoundTrip

(* Every action keeps the invariant. *)
LEMMA NextInv == IInv /\ [Next]_vars => IInv'
<1> SUFFICES ASSUME IInv, [Next]_vars
             PROVE  IInv'
  OBVIOUS
<1>1. ASSUME NEW id \in EmptyIds, NEW r \in Requests, MakeEmpty(id, r)
      PROVE  IInv'
  BY <1>1, EmptyPreserves
<1>2. ASSUME NEW id \in DataIds, NEW r \in Requests, MakeData(id, r)
      PROVE  IInv'
  <2>1. PICK e \in Seq(Byte) : e = <<>>
    BY EmptyBytes
  <2>2. MakeWith(id, r, NoXdata, e)
    BY <1>2, <2>1 DEF MakeData
  <2> QED BY <2>1, <2>2, WithPreserves, NothingStands
<1>3. ASSUME NEW id \in DataIds, NEW r \in Requests, NEW f \in Formats,
             NEW t \in {AS_IS, TO_ASCII}, NEW c \in Contents,
             MakeDataXdata(id, r, f, t, c)
      PROVE  IInv'
  BY <1>3, DataXdataPreserves
<1>4. CASE MakeInPlace
  BY <1>4, InPlacePreserves
<1>5. ASSUME NEW f \in Formats, ConvertXdata(f)
      PROVE  IInv'
  BY <1>5, ConvertPreserves
<1>6. CASE Parse
  BY <1>6, ParsePreserves
<1>7. CASE UNCHANGED vars
  BY <1>7 DEF vars, IInv, TypeOK, RoundTrip
<1> QED BY <1>1, <1>2, <1>3, <1>4, <1>5, <1>6, <1>7 DEF Next

-----------------------------------------------------------------------------
(* The theorems. *)

(* The invariant holds in every behaviour. *)
LEMMA Invariance == Spec => []IInv
BY InitInv, NextInv, PTL DEF Spec

(* The structure and the packet keep their types, and xdata stays shorter  *)
(* than the array that holds it. *)
THEOREM TypesKept == Spec => []TypeOK
<1>1. IInv => TypeOK
  BY DEF IInv
<1> QED BY <1>1, Invariance, PTL

(* No order of making, parsing and converting puts together a packet that  *)
(* is longer than the buffer ademco_make_*_packet writes it to.            *)
THEOREM PacketsFit == Spec => []MadePacketFits
BY InvFits, Invariance, PTL

(* ademco_parse_packet accepts every packet that is made, but one whose    *)
(* data segment was longer than its array.                                 *)
THEOREM PacketsParse == Spec => []MadePacketParses
BY InvParses, Invariance, PTL

(* A packet that is parsed says what it was asked to say, whatever was in  *)
(* the structure before.                                                   *)
THEOREM PacketsSay == Spec => []RoundTrip
<1>1. IInv => RoundTrip
  BY DEF IInv
<1> QED BY <1>1, Invariance, PTL

(* xdata stands for the same bytes however often it is sent, parsed and    *)
(* converted.                                                              *)
THEOREM XdataMeaningKept == Spec => []XdataKept
BY InvKept, Invariance, PTL
=============================================================================
