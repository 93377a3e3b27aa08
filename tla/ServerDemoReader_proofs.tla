------------------------ MODULE ServerDemoReader_proofs ------------------------
(***************************************************************************)
(* Proofs about ServerDemoReader, for every set of streams, every checksum *)
(* and every field parser that satisfy FrameAssumption, and every buffer   *)
(* in which a packet has room.                                             *)
(*                                                                         *)
(* A client is given up for lack of room only when a whole buffer of bytes *)
(* is still not enough, because the loop has moved what was left to the    *)
(* front (FullAtFront); then the header announces more than a packet.      *)
(***************************************************************************)
EXTENDS ServerDemoReader, TLAPS

(* Without a client the buffer is empty and the worker is at select. *)
Idle == clientSock = "invalid" => pc = "select" /\ rpos = 0 /\ wpos = 0

(* At select a full buffer holds what is left from its front on. *)
FullAtFront ==
  clientSock = "connected" /\ pc = "select" /\ wpos = BuffSize => rpos = 0

(* The inductive invariant *)
IInv ==
  /\ TypeOK
  /\ Idle
  /\ FullAtFront
  /\ OwnBytesOnly
  /\ NothingLeftBehind
  /\ DeliveredDisjoint
  /\ RoomForPackets

-----------------------------------------------------------------------------
(* Four bytes read as digits give a natural number. *)
LEMMA HexFieldNat ==
  ASSUME NEW s \in Seq(Byte), NEW q \in Nat, q + 4 <= Len(s)
  PROVE  HexField(s, q) \in Nat
<1>1. \A b \in Byte : Char2Hex(b) \in Nat
  BY DEF Char2Hex, Byte
<1>2. \A i \in 0 .. 3 : At(s, q + i) \in Byte
  BY DEF At
<1>3. \A i \in 0 .. 3 : Char2Hex(At(s, q + i)) \in Nat
  BY <1>1, <1>2
<1> DEFINE h(i) == Char2Hex(At(s, q + i))
<1>4. h(0) \in Nat /\ h(1) \in Nat /\ h(2) \in Nat /\ h(3) \in Nat
  BY <1>3
<1>5. HexField(s, q) = 4096 * h(0) + 256 * h(1) + 16 * h(2) + h(3)
  BY DEF HexField
<1> HIDE DEF h
<1> QED BY <1>4, <1>5

(* A frame that is accepted lies in the bytes that were offered. *)
LEMMA FrameLenNat ==
  ASSUME NEW s \in Seq(Byte), NEW o \in Nat, o + 9 <= Len(s)
  PROVE  FrameLen(s, o) \in Nat /\ FrameLen(s, o) >= 10
<1> DEFINE q == o + 5
<1>1. q \in Nat /\ q + 4 <= Len(s) /\ LenField(s, o) = HexField(s, q)
  BY DEF LenField
<1> HIDE DEF q
<1>2. HexField(s, q) \in Nat
  BY <1>1, HexFieldNat
<1> QED BY <1>1, <1>2 DEF FrameLen

LEMMA AcceptsIsFrame ==
  ASSUME NEW s \in Seq(Byte), NEW o \in Nat, NEW len \in Nat,
         o + len <= Len(s), Accepts(s, o, len)
  PROVE  /\ IsFrame(s, o)
         /\ FrameLen(s, o) \in Nat /\ FrameLen(s, o) >= 10
         /\ FrameLen(s, o) <= len
<1>1. len >= 9 /\ len >= FrameLen(s, o) /\ o + 9 <= Len(s)
  BY DEF Accepts
<1>2. FrameLen(s, o) \in Nat /\ FrameLen(s, o) >= 10
  BY <1>1, FrameLenNat
<1>3. Len(s) - o >= FrameLen(s, o) /\ Len(s) - o >= 9
  BY <1>1, <1>2
<1> QED BY <1>1, <1>2, <1>3 DEF IsFrame, Accepts

(* The parser's NOT_ENOUGH excludes its other results. *)
LEMMA WaitsAlone ==
  ASSUME NEW s \in Seq(Byte), NEW o \in Nat, NEW len \in Nat,
         o + len <= Len(s), Waits(s, o, len)
  PROVE  ~ Accepts(s, o, len) /\ ErrorCommits(s, o, len) = {}
<1>1. CASE len < 9
  BY <1>1 DEF Accepts, ErrorCommits
<1>2. CASE len >= 9
  <2>1. Header(s, o) /\ len < FrameLen(s, o) /\ o + 9 <= Len(s)
    BY <1>2 DEF Waits
  <2>2. FrameLen(s, o) \in Nat
    BY <2>1, FrameLenNat
  <2>3. ~ len >= FrameLen(s, o)
    BY <2>1, <2>2
  <2>4. At(s, o) = LF /\ o + 0 = o
    BY <2>1 DEF Header
  <2>5. ASSUME NEW k \in 1 .. len
        PROVE  /\ ~ DiscardsJunk(s, o, len, k)
               /\ ~ DiscardsHeader(s, o, k)
               /\ ~ DiscardsUnframed(s, o, len, k)
    <3>1. 0 \in 0 .. k - 1
      OBVIOUS
    <3>2. ~ DiscardsJunk(s, o, len, k)
      BY <2>4, <3>1 DEF DiscardsJunk
    <3>3. ~ DiscardsHeader(s, o, k)
      BY <2>1 DEF DiscardsHeader, Header
    <3>4. ~ DiscardsUnframed(s, o, len, k)
      BY <2>3 DEF DiscardsUnframed
    <3> QED BY <3>2, <3>3, <3>4
  <2>6. BodyCommits(s, o, len) = {}
    BY <2>3 DEF BodyCommits
  <2> QED BY <2>3, <2>5, <2>6 DEF Accepts, ErrorCommits
<1> QED
  BY <1>1, <1>2

-----------------------------------------------------------------------------
(* Where the buffer lies in the stream *)
LEMMA AtCur ==
  ASSUME TypeOK, OwnBytesOnly, clientSock = "connected"
  PROVE  /\ stream \in Seq(Byte) /\ Len(stream) \in Nat
         /\ got \in Nat /\ got <= Len(stream)
         /\ rpos \in Nat /\ wpos \in Nat /\ rpos <= wpos /\ wpos <= got /\ wpos <= BuffSize
         /\ cur \in Nat /\ pending \in Nat
         /\ cur + pending = got /\ pending = wpos - rpos /\ cur = got - wpos + rpos
         /\ BuffSize \in Nat
<1>1. stream \in Seq(Byte)
  BY FrameAssumption DEF TypeOK
<1>2. /\ got \in Nat /\ got <= Len(stream) /\ Len(stream) \in Nat
      /\ wpos \in Nat /\ wpos <= BuffSize /\ BuffSize \in Nat
      /\ rpos \in Nat /\ rpos <= wpos /\ wpos <= got
  BY <1>1, BuffSizeAssumption DEF TypeOK, OwnBytesOnly
<1> QED BY <1>1, <1>2 DEF cur, pending

(* What do_handle does to the buffer and to what was delivered *)
LEMMA Handled ==
  ASSUME IInv, clientSock = "connected", UNCHANGED <<clientSock, stream, got>>,
         NEW r \in Nat, NEW w \in Nat, w - r = pending, w <= wpos, r <= w,
         DoHandle(r, w)
  PROVE  /\ wpos' \in 0 .. BuffSize /\ rpos' \in 0 .. wpos' /\ wpos' <= got
         /\ delivered' \subseteq 0 .. Len(stream)
         /\ DeliveredDisjoint'
         /\ Waits(stream, cur, pending) => rpos' = r /\ wpos' = w
<1>0. TypeOK /\ OwnBytesOnly /\ DeliveredDisjoint
  BY DEF IInv
<1>1. /\ stream \in Seq(Byte) /\ Len(stream) \in Nat
      /\ got \in Nat /\ got <= Len(stream)
      /\ rpos \in Nat /\ wpos \in Nat /\ rpos <= wpos /\ wpos <= got /\ wpos <= BuffSize
      /\ cur \in Nat /\ pending \in Nat
      /\ cur + pending = got /\ pending = wpos - rpos
      /\ BuffSize \in Nat
  BY <1>0, AtCur
<1>2. /\ delivered \subseteq 0 .. Len(stream)
      /\ \A i \in delivered :
           /\ IsFrame(stream, i)
           /\ i + FrameLen(stream, i) <= cur
           /\ \A j \in delivered : i < j => i + FrameLen(stream, i) <= j
  BY <1>0 DEF TypeOK, DeliveredDisjoint
<1>3. \A i \in delivered : FrameLen(stream, i) \in Nat /\ FrameLen(stream, i) >= 10
                           /\ i \in Nat
  BY <1>1, <1>2, FrameLenNat DEF IsFrame
<1>4. cur' = got - wpos' + rpos'
  BY DEF cur
<1>5. CASE /\ Accepts(stream, cur, pending)
           /\ delivered' = delivered \cup {cur}
           /\ rpos' = r + Cb
           /\ wpos' = w
  <2> DEFINE n == FrameLen(stream, cur)
  <2>1. IsFrame(stream, cur) /\ n \in Nat /\ n >= 10 /\ n <= pending
    BY <1>1, <1>5, AcceptsIsFrame
  <2>2. rpos' = r + n /\ wpos' = w
    BY <1>5 DEF Cb
  <2> HIDE DEF n
  <2>3. /\ wpos' \in 0 .. BuffSize /\ rpos' \in 0 .. wpos' /\ wpos' <= got
        /\ cur' = cur + n
    BY <1>1, <1>4, <2>1, <2>2
  <2>4. delivered' \subseteq 0 .. Len(stream)
    BY <1>1, <1>2, <1>5
  <2>5. ASSUME NEW i \in delivered'
        PROVE  /\ IsFrame(stream, i)
               /\ i + FrameLen(stream, i) <= cur'
               /\ \A j \in delivered' : i < j => i + FrameLen(stream, i) <= j
    <3>1. CASE i = cur
      <4>1. i + FrameLen(stream, i) <= cur'
        BY <2>3, <3>1, <1>1, <2>1 DEF n
      <4>2. \A j \in delivered : ~ i < j
        BY <1>1, <1>2, <1>3, <3>1
      <4> QED BY <1>1, <1>5, <2>1, <3>1, <4>1, <4>2
    <3>2. CASE i \in delivered
      <4>1. i + FrameLen(stream, i) <= cur'
        BY <1>1, <1>2, <1>3, <2>1, <2>3, <3>2
      <4> QED BY <1>2, <1>5, <3>2, <4>1
    <3> QED BY <1>5, <3>1, <3>2
  <2>6. DeliveredDisjoint'
    <3>1. stream' = stream
      OBVIOUS
    <3> QED BY <2>5, <3>1 DEF DeliveredDisjoint
  <2> QED BY <1>1, <1>5, <2>3, <2>4, <2>6, WaitsAlone
<1>6. CASE /\ Waits(stream, cur, pending)
           /\ rpos' = r
           /\ wpos' = w
           /\ UNCHANGED delivered
  <2>1. cur' = cur
    BY <1>1, <1>4, <1>6
  <2>2. DeliveredDisjoint'
    <3>1. stream' = stream /\ delivered' = delivered
      BY <1>6
    <3> QED BY <1>2, <2>1, <3>1 DEF DeliveredDisjoint
  <2>3. wpos' \in 0 .. BuffSize /\ rpos' \in 0 .. wpos' /\ wpos' <= got
    BY <1>1, <1>6
  <2> QED BY <1>2, <1>6, <2>2, <2>3
<1>7. CASE /\ ErrorCommits(stream, cur, pending) # {}
           /\ Clear
           /\ UNCHANGED delivered
  <2>1. rpos' = 0 /\ wpos' = 0 /\ delivered' = delivered /\ stream' = stream
    BY <1>7 DEF Clear
  <2>2. cur' = got /\ cur <= got
    BY <1>1, <1>4, <2>1
  <2>3. \A i \in delivered : i + FrameLen(stream, i) <= got
    BY <1>1, <1>2, <1>3, <2>2
  <2>4. DeliveredDisjoint'
    BY <1>2, <2>1, <2>2, <2>3 DEF DeliveredDisjoint
  <2>5. ~ Waits(stream, cur, pending)
    BY <1>1, <1>7, WaitsAlone
  <2> QED BY <1>1, <1>2, <2>1, <2>4, <2>5
<1> QED BY <1>5, <1>6, <1>7 DEF DoHandle

-----------------------------------------------------------------------------
LEMMA InitIInv == Init => IInv
<1> SUFFICES ASSUME Init PROVE IInv
  OBVIOUS
<1>1. stream \in Seq(Byte) /\ Len(stream) \in Nat
  BY FrameAssumption DEF Init
<1>2. TypeOK
  <2>1. got \in 0 .. Len(stream) /\ wpos \in 0 .. BuffSize /\ rpos \in 0 .. wpos
    BY <1>1, BuffSizeAssumption DEF Init
  <2> QED BY <2>1 DEF Init, TypeOK
<1> QED
  BY <1>2 DEF Init, IInv, Idle, FullAtFront, OwnBytesOnly, NothingLeftBehind,
     DeliveredDisjoint, RoomForPackets

LEMMA AcceptStep ==
  ASSUME IInv, Accept
  PROVE  IInv'
<1>0. TypeOK /\ Idle
  BY DEF IInv
<1>1. /\ clientSock' = "connected" /\ stream' \in Streams /\ got' = 0
      /\ delivered' = {} /\ dropped' = FALSE
      /\ pc' = "select" /\ rpos' = 0 /\ wpos' = 0
  BY <1>0 DEF Accept, Idle
<1>2. stream' \in Seq(Byte) /\ Len(stream') \in Nat
  BY <1>1, FrameAssumption
<1>3. TypeOK'
  <2>1. got' \in 0 .. Len(stream') /\ wpos' \in 0 .. BuffSize /\ rpos' \in 0 .. wpos'
    BY <1>1, <1>2, BuffSizeAssumption
  <2> QED BY <1>1, <2>1 DEF TypeOK
<1>4. Idle' /\ FullAtFront' /\ OwnBytesOnly'
  BY <1>1 DEF Idle, FullAtFront, OwnBytesOnly
<1>5. NothingLeftBehind'
  BY <1>1 DEF NothingLeftBehind, pending
<1>6. DeliveredDisjoint' /\ RoomForPackets'
  BY <1>1 DEF DeliveredDisjoint, RoomForPackets
<1> QED BY <1>3, <1>4, <1>5, <1>6 DEF IInv

LEMMA RecvStep ==
  ASSUME IInv, Recv
  PROVE  IInv'
<1>0. TypeOK /\ OwnBytesOnly /\ DeliveredDisjoint /\ RoomForPackets
      /\ clientSock = "connected"
  BY DEF IInv, Recv
<1>1. /\ got \in Nat /\ rpos \in Nat /\ wpos \in Nat /\ rpos <= wpos /\ wpos <= got
      /\ wpos <= BuffSize /\ Len(stream) \in Nat /\ BuffSize \in Nat
  BY <1>0, AtCur
<1>2. PICK n \in 1 .. BuffSize - wpos :
        got + n <= Len(stream) /\ got' = got + n /\ wpos' = wpos + n
  BY DEF Recv, LenToRead
<1>3. pc' = "first" /\ UNCHANGED <<clientSock, stream, rpos, delivered, dropped>>
  BY DEF Recv
<1>4. TypeOK'
  BY <1>0, <1>1, <1>2, <1>3 DEF TypeOK
<1>5. cur' = cur
  BY <1>1, <1>2, <1>3 DEF cur
<1>6. OwnBytesOnly'
  BY <1>1, <1>2 DEF OwnBytesOnly
<1>7. Idle' /\ FullAtFront' /\ NothingLeftBehind'
  BY <1>0, <1>3 DEF Idle, FullAtFront, NothingLeftBehind
<1>8. DeliveredDisjoint' /\ RoomForPackets'
  BY <1>0, <1>3, <1>5 DEF DeliveredDisjoint, RoomForPackets
<1> QED BY <1>4, <1>6, <1>7, <1>8 DEF IInv

(* A client is given up: with a full buffer only behind a long header.     *)
LEMMA OfflineStep ==
  ASSUME IInv, ClientGone \/ NoRoom
  PROVE  IInv'
<1>0. TypeOK /\ FullAtFront /\ OwnBytesOnly /\ NothingLeftBehind /\ DeliveredDisjoint
      /\ RoomForPackets
  BY DEF IInv
<1>1. /\ clientSock = "connected" /\ pc = "select" /\ clientSock' = "invalid"
      /\ rpos' = 0 /\ wpos' = 0 /\ UNCHANGED <<pc, stream, got, delivered>>
  BY DEF ClientGone, NoRoom, Offline, Clear
<1>2. dropped' \in BOOLEAN
  BY <1>0 DEF TypeOK, ClientGone, NoRoom
<1>3. TypeOK'
  BY <1>0, <1>1, <1>2, BuffSizeAssumption DEF TypeOK
<1>4. Idle' /\ FullAtFront' /\ OwnBytesOnly' /\ NothingLeftBehind'
  BY <1>1 DEF Idle, FullAtFront, OwnBytesOnly, NothingLeftBehind
<1>5. DeliveredDisjoint'
  BY <1>0, <1>1 DEF DeliveredDisjoint
<1>6. RoomForPackets'
  <2>1. CASE dropped' = dropped
    BY <1>0, <1>1, <2>1 DEF RoomForPackets
  <2>2. CASE NoRoom
    <3>1. /\ stream \in Seq(Byte) /\ Len(stream) \in Nat
          /\ got \in Nat /\ got <= Len(stream) /\ wpos \in Nat
          /\ cur \in Nat /\ pending \in Nat /\ cur + pending = got
          /\ pending = wpos - rpos /\ BuffSize \in Nat
      BY <1>0, <1>1, AtCur
    <3>2. wpos = BuffSize
      BY <2>2, <3>1 DEF NoRoom, LenToRead
    <3>3. pending = BuffSize /\ pending > 0 /\ pending >= 9
      BY <1>0, <1>1, <3>1, <3>2, BuffSizeAssumption DEF FullAtFront
    <3>4. Waits(stream, cur, pending)
      BY <1>0, <1>1, <3>3 DEF NothingLeftBehind
    <3>5. cur + 9 <= Len(stream) /\ cur \in 0 .. Len(stream)
      BY <3>1, <3>3
    <3>6. FrameLen(stream, cur) \in Nat
      BY <3>1, <3>5, FrameLenNat
    <3>7. Header(stream, cur) /\ pending < FrameLen(stream, cur)
      BY <3>1, <3>3, <3>4 DEF Waits
    <3>8. FrameLen(stream, cur) >= MaxLen
      BY <3>1, <3>3, <3>6, <3>7, BuffSizeAssumption, FrameAssumption
    <3>9. LongHeader(stream, cur)
      BY <3>5, <3>7, <3>8 DEF LongHeader
    <3> QED BY <1>1, <3>5, <3>9 DEF RoomForPackets
  <2> QED BY <2>1, <2>2 DEF ClientGone
<1> QED BY <1>3, <1>4, <1>5, <1>6 DEF IInv

LEMMA FirstHandleStep ==
  ASSUME IInv, FirstHandle
  PROVE  IInv'
<1>0. TypeOK /\ Idle /\ OwnBytesOnly /\ RoomForPackets
  BY DEF IInv
<1>1. /\ clientSock = "connected" /\ pc' = "loop" /\ DoHandle(rpos, wpos)
      /\ UNCHANGED <<clientSock, stream, got, dropped>>
  BY <1>0 DEF FirstHandle, Idle, TypeOK
<1>2. /\ rpos \in Nat /\ wpos \in Nat /\ wpos - rpos = pending /\ rpos <= wpos
  BY <1>0, <1>1, AtCur
<1>3. /\ wpos' \in 0 .. BuffSize /\ rpos' \in 0 .. wpos' /\ wpos' <= got
      /\ delivered' \subseteq 0 .. Len(stream)
      /\ DeliveredDisjoint'
  BY <1>1, <1>2, Handled
<1>4. TypeOK'
  BY <1>0, <1>1, <1>3 DEF TypeOK
<1>5. Idle' /\ FullAtFront' /\ OwnBytesOnly' /\ NothingLeftBehind' /\ RoomForPackets'
  BY <1>0, <1>1, <1>3 DEF Idle, FullAtFront, OwnBytesOnly, NothingLeftBehind,
     RoomForPackets
<1> QED BY <1>3, <1>4, <1>5 DEF IInv

LEMMA LoopHandleStep ==
  ASSUME IInv, LoopHandle
  PROVE  IInv'
<1>0. TypeOK /\ Idle /\ OwnBytesOnly /\ RoomForPackets
  BY DEF IInv
<1>1. /\ clientSock = "connected" /\ pc = "loop" /\ pending > 0 /\ pc' = Break
      /\ UNCHANGED <<clientSock, stream, got, dropped>>
      /\ IF wpos = BuffSize THEN DoHandle(0, pending) ELSE DoHandle(rpos, wpos)
  BY <1>0 DEF LoopHandle, Idle, TypeOK
<1>2. /\ rpos \in Nat /\ wpos \in Nat /\ rpos <= wpos /\ pending \in Nat
      /\ pending = wpos - rpos /\ cur = got - wpos + rpos /\ wpos <= BuffSize
      /\ got \in Nat /\ BuffSize \in Nat
  BY <1>0, <1>1, AtCur
<1>3. PICK r \in Nat, w \in Nat :
        /\ w - r = pending /\ r <= w /\ w <= wpos /\ DoHandle(r, w)
        /\ w = BuffSize => r = 0
  <2>1. CASE wpos = BuffSize
    BY <1>1, <1>2, <2>1
  <2>2. CASE wpos # BuffSize
    BY <1>1, <1>2, <2>2
  <2> QED BY <2>1, <2>2
<1>4. /\ wpos' \in 0 .. BuffSize /\ rpos' \in 0 .. wpos' /\ wpos' <= got
      /\ delivered' \subseteq 0 .. Len(stream)
      /\ DeliveredDisjoint'
      /\ Waits(stream, cur, pending) => rpos' = r /\ wpos' = w
  BY <1>1, <1>3, Handled
<1>5. TypeOK'
  BY <1>0, <1>1, <1>4 DEF TypeOK, Break
<1>6. Idle' /\ OwnBytesOnly' /\ RoomForPackets'
  BY <1>0, <1>1, <1>4 DEF Idle, OwnBytesOnly, RoomForPackets
<1>7. FullAtFront' /\ NothingLeftBehind'
  <2> SUFFICES ASSUME pc' = "select"
               PROVE  FullAtFront' /\ NothingLeftBehind'
    BY DEF FullAtFront, NothingLeftBehind
  <2>1. Waits(stream, cur, pending) /\ rpos' = r /\ wpos' = w
    BY <1>1, <1>4 DEF Break
  <2>2. cur' = cur /\ pending' = pending
    BY <1>1, <1>2, <1>3, <2>1 DEF cur, pending
  <2>3. FullAtFront'
    BY <1>3, <2>1 DEF FullAtFront
  <2>4. NothingLeftBehind'
    BY <1>1, <2>1, <2>2 DEF NothingLeftBehind
  <2> QED BY <2>3, <2>4
<1> QED BY <1>4, <1>5, <1>6, <1>7 DEF IInv

LEMMA LoopEndStep ==
  ASSUME IInv, LoopEnd
  PROVE  IInv'
<1>0. TypeOK /\ Idle /\ OwnBytesOnly /\ DeliveredDisjoint /\ RoomForPackets
  BY DEF IInv
<1>1. /\ clientSock = "connected" /\ pending = 0 /\ pc' = "select"
      /\ UNCHANGED <<clientSock, stream, got, delivered, dropped>>
      /\ \/ wpos = BuffSize /\ rpos' = 0 /\ wpos' = 0
         \/ wpos # BuffSize /\ rpos' = rpos /\ wpos' = wpos
  BY <1>0 DEF LoopEnd, Clear, Idle, TypeOK
<1>2. /\ rpos \in Nat /\ wpos \in Nat /\ rpos <= wpos /\ wpos <= BuffSize /\ wpos <= got
      /\ pending = wpos - rpos /\ cur = got - wpos + rpos
      /\ got \in Nat /\ BuffSize \in Nat
  BY <1>0, <1>1, AtCur
<1>3. rpos = wpos
  BY <1>1, <1>2
<1>4. cur' = cur /\ pending' = 0
  BY <1>1, <1>2, <1>3 DEF cur, pending
<1>5. TypeOK'
  BY <1>0, <1>1, <1>2 DEF TypeOK
<1>6. OwnBytesOnly' /\ FullAtFront'
  BY <1>0, <1>1, <1>2, BuffSizeAssumption DEF OwnBytesOnly, FullAtFront
<1>7. Idle' /\ NothingLeftBehind' /\ DeliveredDisjoint' /\ RoomForPackets'
  BY <1>0, <1>1, <1>4 DEF Idle, NothingLeftBehind, DeliveredDisjoint, RoomForPackets
<1> QED BY <1>5, <1>6, <1>7 DEF IInv

LEMMA StepIInv == IInv /\ [Next]_readerVars => IInv'
<1> SUFFICES ASSUME IInv, [Next]_readerVars PROVE IInv'
  OBVIOUS
<1>1. CASE UNCHANGED readerVars
  BY <1>1 DEF readerVars, IInv, TypeOK, Idle, FullAtFront, OwnBytesOnly,
     NothingLeftBehind, DeliveredDisjoint, RoomForPackets, cur, pending
<1> QED
  BY <1>1, AcceptStep, RecvStep, OfflineStep, FirstHandleStep, LoopHandleStep,
     LoopEndStep DEF Next

LEMMA Invariance == Spec => []IInv
BY InitIInv, StepIInv, PTL DEF Spec

-----------------------------------------------------------------------------
(* rpos and wpos stay inside the buffer and in order, whatever arrives     *)
(* (do_read's memmove and clear, do_handle's rpos += cb).                  *)
THEOREM TypeCorrect == Spec => []TypeOK
BY Invariance, PTL DEF IInv

(* The buffer never holds a byte of an earlier client (do_read).           *)
THEOREM OnlyOwnBytes == Spec => []OwnBytesOnly
BY Invariance, PTL DEF IInv

(* At select the buffer holds no complete packet: the loop of do_read ends *)
(* only when nothing more can be handled.                                  *)
THEOREM NoPacketLeft == Spec => []NothingLeftBehind
BY Invariance, PTL DEF IInv

(* Packets taken by do_handle are frames of the stream and share no byte.  *)
THEOREM NeverOverlaps == Spec => []DeliveredDisjoint
BY Invariance, PTL DEF IInv

(* A client is given up for want of room only behind a header that         *)
(* announces more than a packet may have (do_read moves a full buffer).    *)
THEOREM AlwaysRoom == Spec => []RoomForPackets
BY Invariance, PTL DEF IInv
=============================================================================
