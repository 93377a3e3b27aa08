------------------------------ MODULE FrameScan ------------------------------
(***************************************************************************)
(* What a reader of the byte stream of one connection owes the             *)
(* application, whatever its buffers and however TCP cuts the stream up:   *)
(* it moves over the stream from left to right; it never moves over the    *)
(* first byte of a frame without handing that frame over or being inside   *)
(* one; and it hands over nothing that is not a frame.  One thing breaks   *)
(* this order: behind a CRC-correct frame with an unreadable body it goes  *)
(* on wherever the field parser gave up, ahead or back, over whatever lies *)
(* between.                                                                *)
(***************************************************************************)
EXTENDS AdemcoFrame

VARIABLES
  stream,      \* the bytes of the connection, all of them
  pos,         \* how many of them have been dealt with
  delivered,   \* offsets of the frames handed to the application
  refused      \* for each CRC-correct frame with an unreadable body, its
               \* offset and the offset from which the reader went on

scanVars == <<stream, pos, delivered, refused>>

Init ==
  /\ stream \in Streams
  /\ pos = 0
  /\ delivered = {}
  /\ refused = {}

Deliver ==
  /\ IsFrame(stream, pos)
  /\ pos' = pos + FrameLen(stream, pos)
  /\ delivered' = delivered \cup {pos}
  /\ UNCHANGED <<stream, refused>>

Refuse ==
  /\ IsBadBody(stream, pos)
  /\ \E k \in BodyErrors(Body(stream, pos)) : pos' = pos + k
  /\ pos' \in 0 .. Len(stream)
  /\ refused' = refused \cup {<<pos, pos'>>}
  /\ UNCHANGED <<stream, delivered>>

(* Noise: bytes at none of which a frame starts. *)
Skip ==
  /\ \E k \in 1 .. Len(stream) - pos :
       /\ pos' = pos + k
       /\ \A o \in pos .. pos + k - 1 : ~ IsFrame(stream, o)
  /\ UNCHANGED <<stream, delivered, refused>>

Next == Deliver \/ Refuse \/ Skip

Spec == Init /\ [][Next]_scanVars
=============================================================================
