-------------------------- MODULE UvTcpServer_proofs --------------------------
(***************************************************************************)
(* Proofs about UvTcpServer, for every set of streams, every checksum and  *)
(* every field parser: FrameAssumption says of the offsets at which field  *)
(* parsers give up only that they are integers.                            *)
(***************************************************************************)
EXTENDS UvTcpServer, TLAPS

(* Between two reads the buffer begins at the first byte not consumed.     *)
LoopStart == pc = "loop" => start = rpos

(* The inductive invariant *)
IInv == TypeOK /\ LoopStart /\ OverrunByFields /\ NoFrameSkipped /\ DeliveredDisjoint

-----------------------------------------------------------------------------
(* Four bytes read as digits give a natural number. *)
LEMMA HexFieldNat ==
  ASSUME NEW s \in Seq(Byte), NEW q \in Nat, q + 4 <= Len(s)
  PROVE  HexField(s, q) \in Nat
<1>1. \A c \in Byte : Char2Hex(c) \in Nat
  BY DEF Char2Hex, Byte
<1>2. /\ At(s, q) \in Byte
      /\ At(s, q + 1) \in Byte
      /\ At(s, q + 2) \in Byte
      /\ At(s, q + 3) \in Byte
  BY DEF At
<1> DEFINE a == Char2Hex(At(s, q))
           b == Char2Hex(At(s, q + 1))
           c == Char2Hex(At(s, q + 2))
           d == Char2Hex(At(s, q + 3))
<1>3. a \in Nat /\ b \in Nat /\ c \in Nat /\ d \in Nat
  BY <1>1, <1>2
<1>4. HexField(s, q) = 4096 * a + 256 * b + 16 * c + d
  BY DEF HexField
<1> HIDE DEF a, b, c, d
<1> QED
  BY <1>3, <1>4

(* A frame is at least ten bytes long (LF, eight digits, CR).              *)
LEMMA FrameLenNat ==
  ASSUME NEW s \in Seq(Byte), NEW o \in Nat, o + 9 <= Len(s)
  PROVE  FrameLen(s, o) \in Nat /\ FrameLen(s, o) >= 10
<1> DEFINE q == o + 5
<1>1. q \in Nat /\ q + 4 <= Len(s)
  OBVIOUS
<1>2. LenField(s, o) = HexField(s, q)
  BY DEF LenField
<1>3. HexField(s, q) \in Nat
  <2> HIDE DEF q
  <2> QED
    BY <1>1, HexFieldNat
<1> QED
  BY <1>2, <1>3 DEF FrameLen

(* The members of an interval that begins at 0 *)
LEMMA Below ==
  ASSUME NEW r \in Nat, NEW o \in 0 .. r - 1
  PROVE  o \in Nat /\ o < r
OBVIOUS

(* LF is not a hexadecimal digit. *)
LEMMA LFNotHex == ~ IsHex(LF)
  BY DEF IsHex, Char2Hex, LF

(* What the parser accepts in a buffer is a frame of the stream. *)
LEMMA AcceptsIsFrame ==
  ASSUME NEW s \in Seq(Byte), NEW o \in Nat, NEW len \in Nat,
         o + len <= Len(s), Accepts(s, o, len)
  PROVE  /\ IsFrame(s, o)
         /\ FrameLen(s, o) \in Nat
         /\ FrameLen(s, o) >= 10
         /\ o + FrameLen(s, o) <= o + len
<1>1. len >= 9 /\ len >= FrameLen(s, o)
  BY DEF Accepts
<1>2. o + 9 <= Len(s)
  BY <1>1
<1>3. FrameLen(s, o) \in Nat /\ FrameLen(s, o) >= 10
  BY <1>2, FrameLenNat
<1>4. Len(s) - o >= FrameLen(s, o) /\ Len(s) - o >= 9
  BY <1>1, <1>2, <1>3
<1> QED
  BY <1>1, <1>2, <1>3, <1>4 DEF IsFrame, Accepts

(* What the parser discards is noise, at none of whose bytes a frame       *)
(* starts, or the beginning of a CRC-correct frame with an unreadable body.*)
LEMMA DiscardsNoFrame ==
  ASSUME NEW s \in Seq(Byte), NEW o \in Nat, NEW len \in Nat,
         NEW k \in ErrorCommits(s, o, len), o + len <= Len(s)
  PROVE  IF IsBadBody(s, o)
         THEN k \in BodyErrors(Body(s, o))
         ELSE k \in 1 .. len /\ \A p \in o .. o + k - 1 : ~ IsFrame(s, p)
<1>1. len >= 9 /\ o + 9 <= Len(s)
  BY DEF ErrorCommits
<1>2. ASSUME NEW p \in Nat, IsFrame(s, p)
      PROVE  At(s, p) = LF /\ Header(s, p)
  BY <1>2 DEF IsFrame, Accepts, Header
<1>3. ASSUME k \in 1 .. len, DiscardsJunk(s, o, len, k)
      PROVE  ~ IsBadBody(s, o) /\ \A p \in o .. o + k - 1 : ~ IsFrame(s, p)
  <2>1. At(s, o) # LF
    BY <1>3 DEF DiscardsJunk
  <2>2. ~ IsBadBody(s, o)
    BY <2>1 DEF IsBadBody, Header
  <2>3. ASSUME NEW p \in o .. o + k - 1
        PROVE  ~ IsFrame(s, p)
    <3>1. p - o \in 0 .. k - 1 /\ o + (p - o) = p /\ p \in Nat
      BY <1>3
    <3>2. At(s, p) # LF
      BY <1>3, <3>1 DEF DiscardsJunk
    <3> QED
      BY <1>2, <3>1, <3>2
  <2> QED
    BY <2>2, <2>3
<1>4. ASSUME k \in 1 .. 9, ~ IsFrame(s, o),
             \A i \in 1 .. k - 1 : IsHex(At(s, o + i))
      PROVE  \A p \in o .. o + k - 1 : ~ IsFrame(s, p)
  <2>1. SUFFICES ASSUME NEW p \in o .. o + k - 1, p # o
                 PROVE  ~ IsFrame(s, p)
    BY <1>4
  <2>2. p - o \in 1 .. k - 1 /\ o + (p - o) = p /\ p \in Nat
    BY <1>4, <2>1
  <2>3. IsHex(At(s, p))
    BY <1>4, <2>2
  <2> QED
    BY <1>2, <2>2, <2>3, LFNotHex
<1>5. ASSUME DiscardsHeader(s, o, k)
      PROVE  ~ IsBadBody(s, o) /\ \A p \in o .. o + k - 1 : ~ IsFrame(s, p)
  <2>1. ~ Header(s, o)
    BY <1>5 DEF DiscardsHeader, Header
  <2>2. ~ IsFrame(s, o) /\ ~ IsBadBody(s, o)
    BY <2>1, <1>2 DEF IsBadBody
  <2> QED
    BY <1>4, <1>5, <2>2 DEF DiscardsHeader
<1>6. ASSUME DiscardsUnframed(s, o, len, k)
      PROVE  ~ IsBadBody(s, o) /\ \A p \in o .. o + k - 1 : ~ IsFrame(s, p)
  <2>1. ~ IsFrame(s, o) /\ ~ IsBadBody(s, o)
    BY <1>6 DEF DiscardsUnframed, IsFrame, Accepts, IsBadBody
  <2>2. k = 9 /\ Header(s, o)
    BY <1>6 DEF DiscardsUnframed
  <2>3. \A i \in 1 .. k - 1 : IsHex(At(s, o + i))
    BY <2>2 DEF Header
  <2> QED
    BY <1>4, <2>1, <2>2, <2>3
<1>7. ASSUME k \in BodyCommits(s, o, len)
      PROVE  IsBadBody(s, o) /\ k \in BodyErrors(Body(s, o))
  <2>1. /\ Header(s, o) /\ Framed(s, o) /\ len >= FrameLen(s, o)
        /\ k \in BodyErrors(Body(s, o))
    BY <1>7 DEF BodyCommits
  <2>2. FrameLen(s, o) \in Nat
    BY <1>1, FrameLenNat
  <2>3. o + FrameLen(s, o) <= Len(s)
    BY <2>1, <2>2
  <2> QED
    BY <1>1, <2>1, <2>3 DEF IsBadBody
<1>8. \/ /\ k \in 1 .. len
         /\ \/ DiscardsJunk(s, o, len, k)
            \/ DiscardsHeader(s, o, k)
            \/ DiscardsUnframed(s, o, len, k)
      \/ k \in BodyCommits(s, o, len)
  BY <1>1 DEF ErrorCommits
<1> QED
  BY <1>3, <1>5, <1>6, <1>7, <1>8

-----------------------------------------------------------------------------
(* Facts about the parser at rpos in a state that satisfies the invariant  *)
LEMMA ParserAtRpos ==
  ASSUME TypeOK
  PROVE  /\ stream \in Seq(Byte)
         /\ rpos \in Nat /\ wpos \in Nat /\ total \in Nat
         /\ rpos + total = wpos /\ wpos <= Len(stream) /\ Len(stream) \in Nat
  BY FrameAssumption DEF TypeOK, total

LEMMA InitIInv == Init => IInv
<1> SUFFICES ASSUME Init
             PROVE  IInv
  OBVIOUS
<1>1. stream \in Seq(Byte) /\ Len(stream) \in Nat
  BY FrameAssumption DEF Init
<1>2. TypeOK
  BY <1>1 DEF Init, TypeOK
<1> QED
  BY <1>2 DEF Init, IInv, LoopStart, OverrunByFields, NoFrameSkipped, DeliveredDisjoint

(* ParseOk delivers a frame that begins where the last one ended or later. *)
LEMMA ParseOkIInv == IInv /\ ParseOk => IInv'
<1> SUFFICES ASSUME IInv, ParseOk
             PROVE  IInv'
  OBVIOUS
<1> DEFINE n == FrameLen(stream, rpos)
<1>0. TypeOK /\ LoopStart /\ OverrunByFields /\ NoFrameSkipped /\ DeliveredDisjoint
  BY DEF IInv
<1>1. /\ stream \in Seq(Byte) /\ rpos \in Nat /\ wpos \in Nat /\ total \in Nat
      /\ rpos + total = wpos /\ wpos <= Len(stream) /\ Len(stream) \in Nat
  BY <1>0, ParserAtRpos
<1>2. IsFrame(stream, rpos) /\ n \in Nat /\ n >= 10 /\ rpos + n <= wpos
  BY <1>1, AcceptsIsFrame DEF ParseOk
<1>3. /\ rpos' = rpos + n /\ delivered' = delivered \cup {rpos}
      /\ UNCHANGED <<stream, conn, wpos, refused>>
      /\ pc = "parse"
      /\ \/ rpos' < wpos /\ UNCHANGED <<pc, start>>
         \/ pc' = "loop" /\ start' = rpos'
  BY DEF ParseOk, Return
<1> HIDE DEF n
<1>4. TypeOK'
  BY <1>0, <1>1, <1>2, <1>3 DEF TypeOK
<1>5. LoopStart'
  BY <1>0, <1>3 DEF LoopStart
<1>7. DeliveredDisjoint'
  <2>1. SUFFICES ASSUME NEW i \in delivered'
                 PROVE  /\ IsFrame(stream, i)
                        /\ i + FrameLen(stream, i) <= rpos + n \/ Rewound(i + FrameLen(stream, i))
                        /\ \A j \in delivered' :
                             i < j => \/ i + FrameLen(stream, i) <= j
                                      \/ Rewound(i + FrameLen(stream, i))
                                      \/ Rewound(j + FrameLen(stream, j))
    <3>1. stream' = stream /\ rpos' = rpos + n /\ refused' = refused
      BY <1>3
    <3> QED
      BY <3>1, Zenon DEF DeliveredDisjoint, Rewound
  <2>2. \A j \in delivered :
          /\ j + FrameLen(stream, j) <= rpos \/ Rewound(j + FrameLen(stream, j))
          /\ IsFrame(stream, j)
    BY <1>0 DEF DeliveredDisjoint
  <2>3. \A j \in delivered : j \in Nat /\ FrameLen(stream, j) \in Nat /\ FrameLen(stream, j) >= 10
    BY <1>0, <1>1, <2>2, FrameLenNat DEF TypeOK, IsFrame
  <2>4. CASE i = rpos
    BY <1>1, <1>2, <1>3, <2>2, <2>3, <2>4 DEF n
  <2>5. CASE i \in delivered
    BY <1>0, <1>1, <1>2, <1>3, <2>2, <2>3, <2>5 DEF DeliveredDisjoint
  <2> QED
    BY <1>3, <2>4, <2>5
<1>8. NoFrameSkipped'
  <2>1. SUFFICES ASSUME NEW o \in 0 .. rpos' - 1, IsFrame(stream, o)
                 PROVE  \/ o \in delivered'
                        \/ \E i \in delivered' : i < o /\ o < i + FrameLen(stream, i)
                        \/ \E r \in refused' : r[1] < o /\ o < r[2]
    <3>1. stream' = stream
      BY <1>3
    <3> QED
      BY <3>1, Zenon DEF NoFrameSkipped
  <2>2. CASE o < rpos
    BY <1>0, <1>1, <1>2, <1>3, <2>1, <2>2 DEF NoFrameSkipped
  <2>3. CASE o = rpos
    BY <1>3, <2>3
  <2>4. CASE o > rpos
    BY <1>1, <1>2, <1>3, <2>1, <2>4 DEF n
  <2> QED
    BY <1>1, <2>2, <2>3, <2>4
<1>9. OverrunByFields'
  BY <1>3 DEF OverrunByFields
<1> QED
  BY <1>4, <1>5, <1>7, <1>8, <1>9 DEF IInv

(* What ParseError does to the position: noise is passed, or a CRC-correct *)
(* frame is recorded as refused, with the place where parsing goes on.     *)
LEMMA ParseErrorStep ==
  ASSUME TypeOK, ParseError
  PROVE  IF IsBadBody(stream, rpos)
         THEN /\ \E k \in BodyErrors(Body(stream, rpos)) : rpos' = rpos + k
              /\ refused' = refused \cup {<<rpos, rpos'>>}
         ELSE /\ \E k \in 1 .. total :
                   /\ rpos' = rpos + k
                   /\ \A p \in rpos .. rpos + k - 1 : ~ IsFrame(stream, p)
              /\ refused' = refused
<1>1. /\ stream \in Seq(Byte) /\ rpos \in Nat /\ total \in Nat
      /\ rpos + total <= Len(stream) /\ Len(stream) \in Nat
  BY ParserAtRpos
<1>2. PICK k \in ErrorCommits(stream, rpos, total) : rpos' = rpos + k
  BY DEF ParseError
<1>3. IF IsBadBody(stream, rpos)
      THEN k \in BodyErrors(Body(stream, rpos))
      ELSE k \in 1 .. total /\ \A p \in rpos .. rpos + k - 1 : ~ IsFrame(stream, p)
  BY <1>1, DiscardsNoFrame
<1>4. refused' = IF IsBadBody(stream, rpos) THEN refused \cup {<<rpos, rpos'>>} ELSE refused
  BY DEF ParseError
<1>5. CASE IsBadBody(stream, rpos)
  <2>1. \E j \in BodyErrors(Body(stream, rpos)) : rpos' = rpos + j
    BY <1>2, <1>3, <1>5
  <2> QED
    BY <1>4, <1>5, <2>1
<1>6. CASE ~ IsBadBody(stream, rpos)
  <2>1. k \in 1 .. total /\ \A p \in rpos .. rpos + k - 1 : ~ IsFrame(stream, p)
    BY <1>3, <1>6
  <2> QED
    BY <1>2, <1>4, <1>6, <2>1
<1> QED
  BY <1>5, <1>6

(* ParseError never moves rpos over a frame it has not accounted for.      *)
LEMMA ParseErrorIInv == IInv /\ ParseError => IInv'
<1> SUFFICES ASSUME IInv, ParseError
             PROVE  IInv'
  OBVIOUS
<1>0. TypeOK /\ LoopStart /\ OverrunByFields /\ NoFrameSkipped /\ DeliveredDisjoint
  BY DEF IInv
<1>1. /\ stream \in Seq(Byte) /\ rpos \in Nat /\ wpos \in Nat /\ total \in Nat
      /\ rpos + total = wpos /\ wpos <= Len(stream) /\ Len(stream) \in Nat
  BY <1>0, ParserAtRpos
<1>2. IF IsBadBody(stream, rpos)
      THEN refused' = refused \cup {<<rpos, rpos'>>}
      ELSE /\ \E k \in 1 .. total :
                /\ rpos' = rpos + k
                /\ \A p \in rpos .. rpos + k - 1 : ~ IsFrame(stream, p)
           /\ refused' = refused
  BY <1>0, ParseErrorStep
<1>3. /\ UNCHANGED <<stream, conn, wpos, delivered>>
      /\ pc' = "loop" /\ start' = rpos' /\ rpos' \in start .. wpos
  BY DEF ParseError, Return
<1>4. rpos' \in 0 .. wpos /\ rpos' \in Nat
  BY <1>0, <1>1, <1>3 DEF TypeOK
<1>5. TypeOK'
  <2>1. refused' \subseteq refused \cup {<<rpos, rpos'>>}
    BY <1>2
  <2>2. rpos \in 0 .. Len(stream) /\ rpos' \in 0 .. Len(stream)
    BY <1>0, <1>1, <1>4 DEF TypeOK
  <2>3. refused' \subseteq (0 .. Len(stream)) \X (0 .. Len(stream))
    BY <1>0, <2>1, <2>2 DEF TypeOK
  <2> QED
    BY <1>0, <1>1, <1>3, <1>4, <2>3 DEF TypeOK
<1>6. LoopStart'
  BY <1>3 DEF LoopStart
<1> DEFINE Back(e) == \E r \in refused' : r[2] < e /\ e <= r[1]
<1>7. \A e : Rewound(e) => Back(e)
  BY <1>2 DEF Rewound
<1>8. DeliveredDisjoint'
  <2>1. ASSUME NEW i \in delivered
        PROVE  i + FrameLen(stream, i) <= rpos' \/ Back(i + FrameLen(stream, i))
    <3> DEFINE end == i + FrameLen(stream, i)
    <3>2. /\ IsFrame(stream, i) /\ i \in Nat
          /\ end <= rpos \/ Rewound(end)
      BY <1>0, <1>1 DEF DeliveredDisjoint, TypeOK
    <3>3. FrameLen(stream, i) \in Nat
      BY <1>1, <3>2, FrameLenNat DEF IsFrame
    <3>4. end \in Nat
      BY <3>2, <3>3
    <3> HIDE DEF end
    <3>5. CASE Rewound(end)
      BY <1>7, <3>5 DEF end
    <3>6. CASE end <= rpos /\ IsBadBody(stream, rpos)
      <4>1. <<rpos, rpos'>> \in refused'
        BY <1>2, <3>6
      <4>2. rpos' < end => Back(end)
        BY <3>6, <4>1
      <4> QED
        BY <1>4, <3>4, <4>2 DEF end
    <3>7. CASE end <= rpos /\ ~ IsBadBody(stream, rpos)
      <4>1. rpos < rpos'
        BY <1>1, <1>2, <3>7
      <4> QED
        BY <1>1, <1>4, <3>4, <3>7, <4>1 DEF end
    <3> QED
      BY <3>2, <3>5, <3>6, <3>7
  <2>2. ASSUME NEW i \in delivered
        PROVE  /\ IsFrame(stream, i)
               /\ \A j \in delivered :
                    i < j => \/ i + FrameLen(stream, i) <= j
                             \/ Back(i + FrameLen(stream, i))
                             \/ Back(j + FrameLen(stream, j))
    BY <1>0, <1>7 DEF DeliveredDisjoint
  <2>3. stream' = stream /\ delivered' = delivered
    BY <1>3
  <2> QED
    BY <2>1, <2>2, <2>3, Zenon DEF DeliveredDisjoint, Rewound
<1>9. NoFrameSkipped'
  <2>1. SUFFICES ASSUME NEW o \in 0 .. rpos' - 1, IsFrame(stream, o)
                 PROVE  \/ o \in delivered'
                        \/ \E i \in delivered' : i < o /\ o < i + FrameLen(stream, i)
                        \/ \E r \in refused' : r[1] < o /\ o < r[2]
    <3>1. stream' = stream
      BY <1>3
    <3> QED
      BY <3>1, Zenon DEF NoFrameSkipped
  <2>2. o \in Nat /\ o < rpos'
    BY <1>4, Below, Zenon
  <2>3. CASE o < rpos
    <3>1. o \in 0 .. rpos - 1
      BY <1>1, <2>2, <2>3
    <3>2. refused \subseteq refused' /\ delivered' = delivered
      BY <1>2, <1>3
    <3> QED
      BY <1>0, <2>1, <3>1, <3>2, Zenon DEF NoFrameSkipped
  <2>4. CASE o >= rpos /\ IsBadBody(stream, rpos)
    <3>1. ~ IsFrame(stream, rpos)
      BY <2>4 DEF IsBadBody, IsFrame, Accepts
    <3>2. o # rpos
      BY <2>1, <3>1
    <3>3. rpos < o /\ o < rpos'
      BY <1>1, <2>2, <2>4, <3>2
    <3>4. <<rpos, rpos'>> \in refused'
      BY <1>2, <2>4
    <3> QED
      BY <3>3, <3>4
  <2>5. CASE o >= rpos /\ ~ IsBadBody(stream, rpos)
    <3>1. PICK k \in 1 .. total :
            /\ rpos' = rpos + k
            /\ \A p \in rpos .. rpos + k - 1 : ~ IsFrame(stream, p)
      BY <1>2, <2>5
    <3>2. o \in rpos .. rpos + k - 1
      BY <1>1, <2>2, <2>5, <3>1
    <3> QED
      BY <2>1, <3>1, <3>2
  <2> QED
    BY <1>1, <2>2, <2>4, <2>5, <2>3
<1>10. OverrunByFields'
  BY <1>3 DEF OverrunByFields
<1> QED
  BY <1>5, <1>6, <1>8, <1>9, <1>10 DEF IInv

(* The other actions move no byte past rpos. *)
LEMMA OtherIInv ==
  IInv /\ (Read \/ ParseNotEnough \/ Overrun \/ CloseClient \/ ReadEof \/ OnClose \/ UNCHANGED tcpVars)
    => IInv' /\ UNCHANGED <<stream, rpos, delivered, refused>>
<1> SUFFICES ASSUME IInv,
                    Read \/ ParseNotEnough \/ Overrun \/ CloseClient \/ ReadEof \/ OnClose \/ UNCHANGED tcpVars
             PROVE  IInv' /\ UNCHANGED <<stream, rpos, delivered, refused>>
  OBVIOUS
<1>0. TypeOK /\ LoopStart /\ OverrunByFields /\ NoFrameSkipped /\ DeliveredDisjoint
  BY DEF IInv
<1>1. /\ stream \in Seq(Byte) /\ rpos \in Nat /\ wpos \in Nat
      /\ rpos <= wpos /\ wpos <= Len(stream) /\ Len(stream) \in Nat
  BY <1>0, ParserAtRpos DEF TypeOK
<1>2. UNCHANGED <<stream, rpos, delivered, refused>>
  BY <1>0 DEF LoopStart, Read, ParseNotEnough, Overrun, CloseClient, ReadEof, OnClose, tcpVars
<1>3. TypeOK'
  <2>1. CASE Read
    BY <1>0, <1>1, <2>1 DEF Read, TypeOK
  <2>2. CASE ParseNotEnough
    BY <1>0, <1>1, <2>2 DEF ParseNotEnough, Return, TypeOK
  <2>3. CASE Overrun \/ CloseClient \/ ReadEof \/ OnClose
    BY <1>0, <2>3 DEF Overrun, CloseClient, ReadEof, OnClose, TypeOK
  <2>4. CASE UNCHANGED tcpVars
    BY <1>0, <2>4 DEF tcpVars, TypeOK
  <2> QED
    BY <2>1, <2>2, <2>3, <2>4
<1>4. LoopStart'
  BY <1>0 DEF LoopStart, Read, ParseNotEnough, Overrun, Return, CloseClient, ReadEof, OnClose, tcpVars
<1>5. NoFrameSkipped' /\ DeliveredDisjoint'
  BY <1>0, <1>2 DEF NoFrameSkipped, DeliveredDisjoint, Rewound
<1>6. OverrunByFields'
  <2>1. CASE Overrun
    <3>1. PICK k \in ErrorCommits(stream, rpos, total) : rpos + k \notin start .. wpos
      BY <2>1 DEF Overrun
    <3>2. total \in Nat /\ rpos + total = wpos /\ start \in Nat /\ start <= rpos
      BY <1>0, ParserAtRpos DEF TypeOK
    <3>3. k \notin 1 .. total
      BY <1>1, <3>1, <3>2
    <3>4. IsBadBody(stream, rpos)
      BY <1>1, <3>2, <3>3, DiscardsNoFrame
    <3> QED
      BY <1>2, <3>4 DEF OverrunByFields
  <2>2. CASE UNCHANGED <<pc, stream, rpos>>
    BY <1>0, <2>2 DEF OverrunByFields
  <2>3. CASE Read \/ ParseNotEnough
    BY <2>3 DEF Read, ParseNotEnough, Return, OverrunByFields
  <2> QED
    BY <2>1, <2>2, <2>3 DEF CloseClient, ReadEof, OnClose, tcpVars
<1> QED
  BY <1>2, <1>3, <1>4, <1>5, <1>6 DEF IInv

LEMMA StepIInv == IInv /\ [Next]_tcpVars => IInv'
  BY ParseOkIInv, ParseErrorIInv, OtherIInv DEF Next

(* IInv is an invariant of the connection. *)
LEMMA Invariance == Spec => []IInv
<1> QED
  BY InitIInv, StepIInv, PTL DEF Spec

-----------------------------------------------------------------------------
(* As long as on_read goes on, its cursors stay in order and inside what   *)
(* was received; and it leaves its buffer only at a CRC-correct frame with *)
(* an unreadable body, never by the length of a packet or by an error      *)
(* commit of the checks before the fields.                                 *)
THEOREM CursorsStayInside == Spec => [](TypeOK /\ OverrunByFields)
<1>1. IInv => TypeOK /\ OverrunByFields
  BY DEF IInv
<1> QED
  BY <1>1, Invariance, PTL

(* No discard of ademco_parse_packet or on_read jumps over a frame, for    *)
(* every stream and every way TCP cuts it, but the commit of a field       *)
(* parser, and then over nothing outside that commit.                      *)
THEOREM NeverSkipsFrame == Spec => []NoFrameSkipped
<1>1. IInv => NoFrameSkipped
  BY DEF IInv
<1> QED
  BY <1>1, Invariance, PTL

(* on_parse is never given a byte of the stream as part of two packets,    *)
(* unless the commit of a field parser went back over it.                  *)
THEOREM NeverOverlaps == Spec => []DeliveredDisjoint
<1>1. IInv => DeliveredDisjoint
  BY DEF IInv
<1> QED
  BY <1>1, Invariance, PTL

(* The abstract reader speaks of the same frames as the parser. *)
LEMMA SameFrames ==
  ASSUME NEW s, NEW o
  PROVE  /\ Scan!FrameLen(s, o) = FrameLen(s, o)
         /\ Scan!Body(s, o) = Body(s, o)
         /\ Scan!IsFrame(s, o) <=> IsFrame(s, o)
         /\ Scan!IsBadBody(s, o) <=> IsBadBody(s, o)
<1>1. /\ Scan!FrameLen(s, o) = FrameLen(s, o)
      /\ Scan!Body(s, o) = Body(s, o)
      /\ Scan!Header(s, o) <=> Header(s, o)
      /\ Scan!CrcField(s, o) = CrcField(s, o)
  BY DEF Scan!FrameLen, FrameLen, Scan!Body, Body, Scan!Header, Header,
         Scan!CrcField, CrcField, Scan!LenField, LenField, Scan!HexField, HexField,
         Scan!At, At, Scan!IsHex, IsHex, Scan!Char2Hex, Char2Hex, Scan!LF, LF
<1>2. Scan!Framed(s, o) <=> Framed(s, o)
  BY <1>1 DEF Scan!Framed, Framed, Scan!At, At, Scan!CR, CR
<1> QED
  BY <1>1, <1>2 DEF Scan!IsFrame, IsFrame, Scan!Accepts, Accepts, Scan!IsBadBody, IsBadBody

(* The connection implements the abstract reader: on_read's iterations     *)
(* deliver, refuse or skip as FrameScan allows, all else is a stutter.     *)
THEOREM RefinesFrameScan == Spec => ImplementsScan
<1>1. Init => Scan!Init
  BY DEF Init, Scan!Init
<1>2. IInv /\ [Next]_tcpVars => [Scan!Next]_(Scan!scanVars)
  <2> SUFFICES ASSUME IInv, [Next]_tcpVars
               PROVE  [Scan!Next]_(Scan!scanVars)
    OBVIOUS
  <2>0. TypeOK
    BY DEF IInv
  <2>1. /\ stream \in Seq(Byte) /\ rpos \in Nat /\ total \in Nat
        /\ rpos + total = wpos /\ wpos <= Len(stream) /\ Len(stream) \in Nat
    BY <2>0, ParserAtRpos
  <2>2. CASE ParseOk
    <3>1. IsFrame(stream, rpos)
      BY <2>1, <2>2, AcceptsIsFrame DEF ParseOk
    <3>2. Scan!Deliver
      BY <2>2, <3>1, SameFrames DEF ParseOk, Scan!Deliver
    <3> QED
      BY <3>2 DEF Scan!Next
  <2>3. CASE ParseError
    <3>1. /\ UNCHANGED <<stream, delivered>>
          /\ rpos' \in 0 .. Len(stream)
      BY <2>0, <2>1, <2>3 DEF ParseError, TypeOK
    <3>2. CASE IsBadBody(stream, rpos)
      <4>1. /\ \E k \in BodyErrors(Body(stream, rpos)) : rpos' = rpos + k
            /\ refused' = refused \cup {<<rpos, rpos'>>}
        BY <2>0, <2>3, <3>2, ParseErrorStep
      <4> QED
        BY <3>1, <3>2, <4>1, SameFrames DEF Scan!Refuse, Scan!Next
    <3>3. CASE ~ IsBadBody(stream, rpos)
      <4>1. PICK k \in 1 .. total :
              /\ rpos' = rpos + k
              /\ \A p \in rpos .. rpos + k - 1 : ~ IsFrame(stream, p)
        BY <2>0, <2>3, <3>3, ParseErrorStep
      <4>2. refused' = refused
        BY <2>0, <2>3, <3>3, ParseErrorStep
      <4>3. k \in 1 .. Len(stream) - rpos
        BY <2>1
      <4>4. Scan!Skip
        BY <3>1, <4>1, <4>2, <4>3, SameFrames DEF Scan!Skip
      <4> QED
        BY <4>4 DEF Scan!Next
    <3> QED
      BY <3>2, <3>3
  <2>4. CASE Read \/ ParseNotEnough \/ Overrun \/ CloseClient \/ ReadEof \/ OnClose \/ UNCHANGED tcpVars
    BY <2>4, OtherIInv DEF Scan!scanVars
  <2> QED
    BY <2>2, <2>3, <2>4 DEF Next
<1> QED
  BY <1>1, <1>2, Invariance, PTL DEF Spec, ImplementsScan, Scan!Spec
=============================================================================
