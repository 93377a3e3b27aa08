--------------------------- MODULE ServerDemoReader ---------------------------
(***************************************************************************)
(* How the worker thread of server_demo                                    *)
(* (src/examples/server_demo/server_demo.cpp) reads its one client:        *)
(* do_accept, do_read and the buffer handling of do_handle.                *)
(*                                                                         *)
(* clientBuffer holds the last wpos of the got bytes received from the     *)
(* client, so buff[rpos] is the byte at offset cur of the client's stream. *)
(* What do_handle does with a packet is in ServerDemoCommands and          *)
(* SwitchAlarms; here a packet is only recorded as delivered.              *)
(***************************************************************************)
EXTENDS AdemcoFrame

CONSTANT BuffSize    \* BUFF_SIZE, 4096

(* A packet that the parser accepts fits into the buffer.                  *)
ASSUME BuffSizeAssumption ==
  /\ BuffSize \in Nat
  /\ BuffSize >= 9
  /\ BuffSize >= MaxLen

VARIABLES
  clientSock,  \* "invalid" or "connected"
  pc,          \* "select": before select; "first", "loop": in do_read
  stream,      \* the bytes the current client sends
  got,         \* how many of them recv has returned
  rpos, wpos,  \* clientBuffer.rpos, clientBuffer.wpos
  delivered,   \* offsets of the frames do_handle took
  dropped      \* recv asked for no bytes and the client was given up

readerVars == <<clientSock, pc, stream, got, rpos, wpos, delivered, dropped>>

(* offset in the stream of buff[rpos], and bytes_not_commited *)
cur == got - wpos + rpos
pending == wpos - rpos

TypeOK ==
  /\ clientSock \in {"invalid", "connected"}
  /\ pc \in {"select", "first", "loop"}
  /\ stream \in Streams
  /\ got \in 0 .. Len(stream)
  /\ wpos \in 0 .. BuffSize
  /\ rpos \in 0 .. wpos
  /\ delivered \subseteq 0 .. Len(stream)
  /\ dropped \in BOOLEAN

Init ==
  /\ clientSock = "invalid"
  /\ pc = "select"
  /\ stream \in Streams
  /\ got = 0 /\ rpos = 0 /\ wpos = 0
  /\ delivered = {}
  /\ dropped = FALSE

-----------------------------------------------------------------------------
(* do_accept: the next client *)
Accept ==
  /\ clientSock = "invalid"
  /\ clientSock' = "connected"
  /\ stream' \in Streams
  /\ got' = 0
  /\ delivered' = {}
  /\ dropped' = FALSE
  /\ UNCHANGED <<pc, rpos, wpos>>

(* dwLenToRead *)
LenToRead == BuffSize - wpos

(* recv returns n bytes, at most what is free behind wpos. *)
Recv ==
  /\ clientSock = "connected"
  /\ pc = "select"
  /\ \E n \in 1 .. LenToRead :
       /\ got + n <= Len(stream)
       /\ got' = got + n
       /\ wpos' = wpos + n
  /\ pc' = "first"
  /\ UNCHANGED <<clientSock, stream, rpos, delivered, dropped>>

KeepBuffer == UNCHANGED <<rpos, wpos>>   \* mutant: nothing is cleared

(* Buffer::clear *)
Clear == rpos' = 0 /\ wpos' = 0

(* recv returns nothing: the client is offline. *)
Offline ==
  /\ clientSock = "connected"
  /\ pc = "select"
  /\ clientSock' = "invalid"
  /\ Clear
  /\ UNCHANGED <<pc, stream, got, delivered>>

(* recv returns 0 or an error because the client has gone, ...             *)
ClientGone ==
  /\ Offline
  /\ UNCHANGED dropped

(* ... or it returns 0 because it was asked for 0 bytes.                   *)
NoRoom ==
  /\ LenToRead = 0
  /\ got < Len(stream)
  /\ Offline
  /\ dropped' = TRUE

NoCb == 0   \* mutant: rpos is not moved

(* cb of a packet that parses *)
Cb == FrameLen(stream, cur)

(* do_handle on the buffer with cursors r and w; after an error it clears  *)
(* the buffer, whatever cb says                                            *)
DoHandle(r, w) ==
  \/ /\ Accepts(stream, cur, pending)
     /\ delivered' = delivered \cup {cur}
     /\ rpos' = r + Cb
     /\ wpos' = w
  \/ /\ Waits(stream, cur, pending)
     /\ rpos' = r
     /\ wpos' = w
     /\ UNCHANGED delivered
  \/ /\ ErrorCommits(stream, cur, pending) # {}
     /\ Clear
     /\ UNCHANGED delivered

FirstHandleOnly ==   \* mutant: no loop after it
  /\ pc = "first"
  /\ DoHandle(rpos, wpos)
  /\ pc' = "select"
  /\ UNCHANGED <<clientSock, stream, got, dropped>>

(* the do_handle before the loop, whose result only the loop looks at *)
FirstHandle ==
  /\ pc = "first"
  /\ DoHandle(rpos, wpos)
  /\ pc' = "loop"
  /\ UNCHANGED <<clientSock, stream, got, dropped>>

BreakAlways == "select"   \* mutant: the loop ends whatever the result

(* the loop ends on NOT_ENOUGH *)
Break == IF Waits(stream, cur, pending) THEN "select" ELSE "loop"

LoopHandleNoMove ==   \* mutant: a full buffer is not moved to the front
  /\ pc = "loop"
  /\ pending > 0
  /\ DoHandle(rpos, wpos)
  /\ pc' = Break
  /\ UNCHANGED <<clientSock, stream, got, dropped>>

(* One round of while(1): a full buffer is first moved to the front. *)
LoopHandle ==
  /\ pc = "loop"
  /\ pending > 0
  /\ IF wpos = BuffSize THEN DoHandle(0, pending) ELSE DoHandle(rpos, wpos)
  /\ pc' = Break
  /\ UNCHANGED <<clientSock, stream, got, dropped>>

LoopEnd ==
  /\ pc = "loop"
  /\ pending = 0
  /\ IF wpos = BuffSize THEN Clear ELSE UNCHANGED <<rpos, wpos>>
  /\ pc' = "select"
  /\ UNCHANGED <<clientSock, stream, got, delivered, dropped>>

Next ==
  \/ Accept \/ Recv \/ ClientGone \/ NoRoom
  \/ FirstHandle \/ LoopHandle \/ LoopEnd

Spec == Init /\ [][Next]_readerVars

(* The worker thread runs, and TCP brings what the client sent. *)
FairSpec ==
  /\ Spec
  /\ WF_readerVars(Accept)
  /\ WF_readerVars(Recv \/ NoRoom)
  /\ WF_readerVars(FirstHandle \/ LoopHandle \/ LoopEnd)

-----------------------------------------------------------------------------
(* The buffer never holds a byte of an earlier client (do_read clears it   *)
(* when it gives a client up, and memmove keeps exactly what is pending).  *)
OwnBytesOnly == clientSock = "connected" => wpos <= got

(* Whenever the worker goes back to select, the buffer holds no complete   *)
(* packet: the loop of do_read ends only when nothing more can be handled. *)
NothingLeftBehind ==
  clientSock = "connected" /\ pc = "select" /\ pending > 0
    => Waits(stream, cur, pending)

(* Packets taken by do_handle are frames of the stream and share no byte.  *)
DeliveredDisjoint ==
  \A i \in delivered :
    /\ IsFrame(stream, i)
    /\ clientSock = "connected" => i + FrameLen(stream, i) <= cur
    /\ \A j \in delivered : i < j => i + FrameLen(stream, i) <= j

(* A header that announces more than a packet may have *)
LongHeader(s, o) ==
  /\ o + 9 <= Len(s)
  /\ Header(s, o)
  /\ FrameLen(s, o) >= MaxLen

(* While no header announces a packet that cannot be, there is always room *)
(* to read on, however packets lie in the buffer (do_read moves what is    *)
(* left to the front as soon as the buffer is full).                       *)
RoomForPackets ==
  dropped => \E o \in 0 .. Len(stream) : LongHeader(stream, o)

(* The streams that are nothing but frames *)
FramesOnly ==
  {s \in Streams :
     \E S \in SUBSET {o \in 0 .. Len(s) - 1 : IsFrame(s, o)} :
       /\ 0 \in S
       /\ \A o \in S : LET end == o + FrameLen(s, o)
                       IN  end = Len(s) \/ end \in S}

(* A client that sends only frames, however cut by TCP and however often   *)
(* the buffer wraps, has all of them handled, unless it goes offline.      *)
FramesDelivered ==
  (clientSock = "connected" /\ stream \in FramesOnly)
    ~> (clientSock = "invalid" \/ cur = Len(stream))

=============================================================================
