----------------------------- MODULE UvTcpServer -----------------------------
(***************************************************************************)
(* One accepted connection of uvlib's TCP server                           *)
(* (src/examples/httprelay/uvlib/uv_tcpserver.c) with ademco_parse_packet  *)
(* behind its on_parse callback, as httprelay uses it.                     *)
(*                                                                         *)
(* libuv runs the callbacks on one thread; between two of them the peer    *)
(* and TCP may do anything.  on_read is entered by Read, does one          *)
(* iteration of its parse loop per Parse... action, and returns to the     *)
(* event loop when pc is "loop" again.                                     *)
(*                                                                         *)
(* cli->buf holds the bytes of the stream from offset start to wpos, and   *)
(* on_read's local p points at rpos, so total is wpos - rpos.  How mybuf   *)
(* stores these bytes is left out: on_alloc makes room before every read.  *)
(*                                                                         *)
(* on_read does not compare what on_parse reports as consumed with total.  *)
(* A commit that leaves the buffer is the end of the model: total wraps    *)
(* around or p lies before the block, mybuf_clear_append copies from       *)
(* outside it, and nothing is defined from there on.                       *)
(***************************************************************************)
EXTENDS AdemcoFrame

VARIABLES
  stream,      \* the bytes the peer sends while the connection lives
  conn,        \* "open", "closing" (uv_close called) or "closed" (on_close ran)
  pc,          \* "loop": in the event loop, "parse": in on_read's parse loop,
               \* "overrun": on_read has left the buffer
  start,       \* offset of cli->buf.buf[0] in the stream
  rpos,        \* offset of p
  wpos,        \* offset of the end of cli->buf
  delivered,   \* offsets of the frames on_parse returned ok for
  refused      \* for each CRC-correct frame with an unreadable body, its
               \* offset and the offset from which parsing went on

tcpVars == <<stream, conn, pc, start, rpos, wpos, delivered, refused>>

total == wpos - rpos

TypeOK ==
  /\ stream \in Streams
  /\ conn \in {"open", "closing", "closed"}
  /\ pc \in {"loop", "parse", "overrun"}
  /\ wpos \in 0 .. Len(stream)
  /\ rpos \in 0 .. wpos
  /\ start \in 0 .. rpos
  /\ delivered \subseteq 0 .. Len(stream)
  /\ refused \subseteq (0 .. Len(stream)) \X (0 .. Len(stream))

-----------------------------------------------------------------------------
(* on_connection: the buffer is empty and reading has started. *)
Init ==
  /\ stream \in Streams
  /\ conn = "open"
  /\ pc = "loop"
  /\ start = 0 /\ rpos = 0 /\ wpos = 0
  /\ delivered = {} /\ refused = {}

(* on_alloc, the kernel's read of n bytes, and the entry of on_read, which *)
(* parses the buffer from its beginning                                    *)
Read ==
  /\ conn = "open"
  /\ pc = "loop"
  /\ \E n \in 1 .. Len(stream) - wpos : wpos' = wpos + n
  /\ rpos' = start
  /\ pc' = "parse"
  /\ UNCHANGED <<stream, conn, start, delivered, refused>>

ReturnKeepsConsumed ==   \* mutant: the consumed bytes stay in the buffer
  /\ pc' = "loop"
  /\ UNCHANGED start

(* The end of on_read: mybuf_clear or mybuf_clear_append drops what was    *)
(* consumed, so the buffer starts at the new rpos.                         *)
Return ==
  /\ pc' = "loop"
  /\ start' = rpos'

ParseOkOnce ==   \* mutant: one packet per read
  /\ pc = "parse"
  /\ Accepts(stream, rpos, total)
  /\ delivered' = delivered \cup {rpos}
  /\ rpos' = rpos + FrameLen(stream, rpos)
  /\ Return
  /\ UNCHANGED <<stream, conn, wpos, refused>>

ParseOkDropsRest ==   \* mutant: a packet is taken for all there is
  /\ pc = "parse"
  /\ Accepts(stream, rpos, total)
  /\ delivered' = delivered \cup {rpos}
  /\ rpos' = wpos
  /\ Return
  /\ UNCHANGED <<stream, conn, wpos, refused>>

(* on_parse returned ok: the loop goes on while bytes are left. *)
ParseOk ==
  /\ pc = "parse"
  /\ Accepts(stream, rpos, total)
  /\ delivered' = delivered \cup {rpos}
  /\ rpos' = rpos + FrameLen(stream, rpos)
  /\ IF rpos' < wpos THEN UNCHANGED <<pc, start>> ELSE Return
  /\ UNCHANGED <<stream, conn, wpos, refused>>

(* on_parse returned not_enough: the loop ends and the bytes are kept. *)
ParseNotEnough ==
  /\ pc = "parse"
  /\ Waits(stream, rpos, total)
  /\ UNCHANGED rpos
  /\ Return
  /\ UNCHANGED <<stream, conn, wpos, delivered, refused>>

(* on_parse returned error: what it consumed is dropped and the loop ends, *)
(* whatever the rest of the buffer holds.  A commit may also take p back   *)
(* to bytes that were parsed before: they are kept, and parsed again.      *)
ParseError ==
  /\ pc = "parse"
  /\ \E k \in ErrorCommits(stream, rpos, total) : rpos' = rpos + k
  /\ rpos' \in start .. wpos
  /\ refused' = IF IsBadBody(stream, rpos)
                THEN refused \cup {<<rpos, rpos'>>}
                ELSE refused
  /\ Return
  /\ UNCHANGED <<stream, conn, wpos, delivered>>

(* on_parse returned error with a commit that is not in the buffer.        *)
Overrun ==
  /\ pc = "parse"
  /\ \E k \in ErrorCommits(stream, rpos, total) : rpos + k \notin start .. wpos
  /\ pc' = "overrun"
  /\ UNCHANGED <<stream, conn, start, rpos, wpos, delivered, refused>>

(* uv_tcpserver_close_cli, called by the application from a callback *)
CloseClient ==
  /\ conn = "open"
  /\ pc # "overrun"
  /\ conn' = "closing"
  /\ UNCHANGED <<stream, pc, start, rpos, wpos, delivered, refused>>

(* on_read with nread < 0: the peer has closed or the connection broke. *)
ReadEof ==
  /\ conn = "open"
  /\ pc = "loop"
  /\ conn' = "closing"
  /\ UNCHANGED <<stream, pc, start, rpos, wpos, delivered, refused>>

(* on_close, which libuv runs in a later phase of the event loop *)
OnClose ==
  /\ conn = "closing"
  /\ pc = "loop"
  /\ conn' = "closed"
  /\ UNCHANGED <<stream, pc, start, rpos, wpos, delivered, refused>>

Next ==
  \/ Read \/ ParseOk \/ ParseNotEnough \/ ParseError \/ Overrun
  \/ CloseClient \/ ReadEof \/ OnClose

Spec == Init /\ [][Next]_tcpVars

(* The event loop runs callbacks that are due, on_read returns, and TCP    *)
(* brings what the peer sent.                                              *)
FairSpec ==
  /\ Spec
  /\ WF_tcpVars(Read)
  /\ WF_tcpVars(ParseOk \/ ParseNotEnough \/ ParseError \/ Overrun)
  /\ WF_tcpVars(OnClose)

-----------------------------------------------------------------------------
(* The abstract reader this connection implements: stream positions are    *)
(* the positions of on_read's p.                                           *)
Scan == INSTANCE FrameScan WITH pos <- rpos

(* Every step of the parse loop is a step of the abstract reader: frames   *)
(* are delivered in order, wherever TCP cut the stream, and resynchron-    *)
(* isation after noise never jumps over a frame; only behind a refused     *)
(* body does the reader go where the field parser stopped (on_read and the *)
(* error commits of ademco_parse_packet).                                  *)
ImplementsScan == Scan!Spec

(* A frame the parse loop has moved past was delivered, or begins inside   *)
(* one that was, or in the bytes that a field parser committed of a        *)
(* refused body: the checks before the fields never commit past the first  *)
(* byte of a frame, and the field parsers are the only ones that do        *)
(* (ademco_parse_packet, on_read).                                         *)
NoFrameSkipped ==
  \A o \in 0 .. rpos - 1 :
    IsFrame(stream, o) =>
      \/ o \in delivered
      \/ \E i \in delivered : i < o /\ o < i + FrameLen(stream, i)
      \/ \E r \in refused : r[1] < o /\ o < r[2]

(* Only the offset of a field parser takes on_read out of its buffer: the  *)
(* other error commits and the packet lengths stay within total.           *)
OverrunByFields == pc = "overrun" => IsBadBody(stream, rpos)

(* The end of a frame lies in what a refused body sent the reader back     *)
(* over.                                                                   *)
Rewound(end) == \E r \in refused : r[2] < end /\ end <= r[1]

(* Frames handed to on_parse as ok are frames of the stream, they are      *)
(* behind the reader, so none is handed over again, and they do not        *)
(* overlap: no byte is interpreted twice, except where a refused body sent *)
(* the reader back over a frame.                                           *)
DeliveredDisjoint ==
  \A i \in delivered :
    LET end == i + FrameLen(stream, i)
    IN  /\ IsFrame(stream, i)
        /\ end <= rpos \/ Rewound(end)
        /\ \A j \in delivered :
             i < j => \/ end <= j
                      \/ Rewound(end)
                      \/ Rewound(j + FrameLen(stream, j))

-----------------------------------------------------------------------------
(* The streams that are nothing but frames *)
FramesOnly ==
  {s \in Streams :
     \E S \in SUBSET {o \in 0 .. Len(s) - 1 : IsFrame(s, o)} :
       /\ 0 \in S
       /\ \A o \in S : LET end == o + FrameLen(s, o)
                       IN  end = Len(s) \/ end \in S}

(* A peer that sends only frames has every one of them delivered, however  *)
(* they are cut or run together by TCP, unless the connection is closed    *)
(* (the parse loop of on_read must not stop while frames are left).        *)
FramesDelivered ==
  (stream \in FramesOnly) ~> (conn # "open" \/ rpos = Len(stream))

=============================================================================
