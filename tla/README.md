# Verification of ademco_hb

TLA+ models of the alarm protocol library libademco and of the two servers in
this repository that speak the protocol, `examples/server_demo` and
`examples/httprelay`, with `uvlib`, the layer of TCP and HTTP clients and
servers under it. TLC checks the models on small instances; TLAPS proves their
safety properties, all but those that are violated, for every instance.

## The system

Alarm hosts connect to a center over TCP and send packets

    LF crc(4 hex) len(4 hex) "id" seq R.. L.. #acct [data] [*xdata] _timestamp CR

The center answers every packet but DUH and ACK with an ACK of the same seq;
a host repeats what is not acknowledged (docs/README.md, 23-27 and 43).

| component | source | state | operations |
|---|---|---|---|
| packet framing | `src/libademco/ademco.c` 1279-1582 | none (pure) | `ademco_parse_packet`: OK, NOT_ENOUGH or ERROR, and how many bytes to drop |
| packet codec | `src/libademco/ademco.c` | `ademco_packet_t`, which callers reuse | data and xdata segments, packet assembly and parsing, xdata conversion, CRC, event tables, hexadecimal and BCD conversions |
| libhb, libhbiot | `src/libhb`, `src/libhbiot` | none (pure) | tables of machine types and states, RF codes |
| uvlib TCP server | `examples/httprelay/uvlib/uv_tcpserver.c` | per connection: libuv handle, growing buffer | accept, read, parse loop, send, close |
| uvlib mybuf | `uvlib/mybuf.c` | array or heap block, size, capacity | reserve, append, printf, clear, clear and append |
| uvlib TCP client | `uvlib/uv_tcpclient.c` | handle, reconnect timer, buffer, flags | start, stop, send, free; look-up, connect, read, write, close and timer callbacks |
| uvlib HTTP server | `uvlib/uv_httpd.c` | per connection: handle, parser, the request so far | accept, read, llhttp callbacks, answer, keep alive or close |
| uvlib HTTP client | `uvlib/uv_httpc.c` | handle, parser, the post, the response so far | post, stop, look-up, connect, read, llhttp callbacks, close |
| httprelay | `examples/httprelay/httprelay.c` | per connection: account of the host | ONLINE, relay of each event by HTTP, ACK, OFFLINE |
| server_demo | `examples/server_demo/server_demo.cpp` | one client socket, its 4096-byte buffer, command queue, password, account, switch alarm cache | worker thread: accept, read, handle, time out, send; console thread: commands |

How they interact: `on_read` (uvlib) calls `on_parse` (httprelay), which calls
`ademco_parse_packet`; httprelay sends with `uv_tcpserver_send_to_cli` and
blocks in libcurl. In server_demo the worker calls `ademco_parse_packet` and
`send`; console and worker share a queue under a mutex, and three variables
under none. In uvlib everything runs on one libuv loop: what may happen between
two callbacks is decided by the order in which the loop runs timers, polling
and close callbacks, and by what the application calls from its own. The HTTP
client and server hand what they read to llhttp, which calls back into them.

What is hard, and what would make it correct:

* **The byte stream.** TCP cuts packets anywhere, lines are noisy, and a packet
  may contain LF and even another packet. Each packet must be handed over once,
  in order; after noise the reader must find the next packet and not jump over
  it.
* **Fixed buffers.** server_demo compacts its buffer only when it is full, in
  the middle of a packet, and reuses it for the next client.
* **Narrow fields.** Numbers are cut to four, three or two digits, ids to 24 or
  32 bits, accounts to eighteen digits; packets are put together in a fixed
  buffer before their length is looked at, and one structure is parsed into,
  converted and made into a packet again.
* **Two threads.** One check of the queue is made without the mutex; password
  and account are read long after they were set.
* **Time.** Suppression and automatic recovery of alarms use whole seconds, in
  a loop that may block for two.
* **Connections that overlap.** A host reconnects before the relay has noticed
  that its old connection is dead; requests fail; packets are repeated.
* **Callbacks of one loop.** A handle is closed while it connects, a timer's
  close callback meets the next connection's, a post or a stop comes between
  any two callbacks. Every handle must be closed once, and the client must come
  up again or say that it is closed.
* **Messages in pieces.** llhttp calls back for every piece of a URL, of a
  header's name or value, or of a body that a read brings; what is made of the
  pieces must not depend on where the reads cut, and where it does one wants to
  know exactly how.

PROJECT.json lists these hazards with their lines, the property that covers
each, and, where none does, the reason.

## The modules

`AdemcoFrame` holds the decisions of `ademco_parse_packet` as predicates on a
stream `s`, an offset `o` and the number `len` of bytes there: `Waits`
(NOT_ENOUGH), `Accepts` (OK) and `ErrorCommits` (ERROR: the values that
`*cb_commited` may have). Everything up to the CRC is modelled byte for byte. Of
the body only this is kept: at which offsets from the LF a field parser may give
up (`BodyErrors`, empty when the fields parse). Such an offset may be any
integer, because the code's may: `p` is moved by the length that a field of
xdata announces before it is compared with the end of the body (`ademco.c`
1495-1504), backwards if a `char` of that length is negative (1497), and the
four digits of seq are read behind an id that ends the body (1392). The
checksum, the field parsers and the limit on the length are constants.

`FrameScan` is the abstract reader: it moves over a stream from left to right
and delivers a frame, refuses a CRC-correct frame with an unreadable body, going
on wherever the field parser gave up, or skips bytes at none of which a frame
begins. `refused` has, for each frame refused, where it lies and from where the
reader went on.

`UvTcpServer` is one connection of the TCP server: `Read` is `on_alloc`, the
kernel's read and the entry of `on_read`; each iteration of its loop is
`ParseOk`, `ParseNotEnough`, `ParseError` or `Overrun`; `ReadEof`, `CloseClient`
and `OnClose` end the connection. `Overrun` is an error whose commit is not in
the buffer: `total -= cb` (`uv_tcpserver.c` 53) is not checked and wraps around,
and the bytes that are then copied are not the buffer's; the model ends there.
Offsets into the stream stand for pointers: the buffer is the stream between
`start` and `wpos`, and `p` points at `rpos`. `Scan` maps `rpos` to the position
of `FrameScan`.

`ServerDemoReader` is the reading half of server_demo's worker, with the real
cursors `rpos` and `wpos` of `clientBuffer`: `FirstHandle` and `LoopHandle` are
the two places `do_read` calls `do_handle` from.

`ServerDemoCommands` has the two threads of server_demo, each with its program
counter. A step is what happens between two accesses to shared state: the
unlocked `empty()`, taking the mutex, each `send`, the end of the loop,
`clear()`. What `do_read` does is reduced to: nothing, a report, end of
connection.

`SwitchAlarms` is the alarm filter, which the worker runs too; its definitions
bear its name where `ServerDemoCommands` has one of the same (`SwitchNext`), for
`ServerDemo_proofs` is about both. Time passes in ticks, several to a second;
`Second` is `time(nullptr)`. `checked` bounds how long the worker loop may take
between two calls of `switch_check_timeout`. `last` and `heard` record what was
reported and received, for the properties. Hosts come (`HostComes`, `do_accept`)
and go (`HostGoes`, `do_read`), and the cache stays as it is.

`HttpRelay` has the hosts, the network and the relay. One step of the relay is
one callback, blocking HTTP requests included. A host has one event
outstanding and sends the next when it hears the ACK of the last; it may lose
its connection at any time and make another before the relay reads the end of
the first. Events are numbered; the number stands for the seq too. Every packet
of a host bears its account, so the check for an empty one (`httprelay.c` 158)
never fails; `ToPost` has it all the same.

`AdemcoFields` has the fields of a packet as operators: how each is written,
cut and read (`HexText`, `Clip`, `Data`, `DataId`, `SeqText`, `GGValue`,
`MakeXdata`, `Convert`, ...). Text is a sequence of characters counted from '0';
xdata is a sequence of bytes.

`AdemcoPacket` is one `ademco_packet_t` (`pkt`) and the packet last made from it
(`wire`): the `ademco_make_*_packet2` functions, `ademco_make_hb_packet3`, which
makes a packet in place, `ademco_xdata_convert` and `ademco_parse_packet`, in any
order. `asked`, `payload` and `parsed` record what the packet was to say. A
data segment with an account of eighteen digits is longer than
`ademco_data_t.raw`; `ademco_make_hb_packet3` then copies the segment after
`raw_len` may have overwritten its bracket, and whether it has is left open
(`Stored`). Checksum, length and timestamp are not repeated here: `AdemcoFrame`
has them.

`AutoLink` is what the TCP client promises its application: a link that is off,
down or up, comes up only from down and is off only while reconnecting is
switched off. `UvTcpClient` is the client, the calls of its application
(`Start`, `Stop`, `SetReconn`, `Send`, `Free`, between any two callbacks) and
the phases of libuv's loop they fall into (`NextPhase`): timers, polling, and
the close callbacks of `closing`, last in first out. One action is one callback,
but for `on_close`, which has two: `OnClose` frees the handle and calls
`on_connect(cli, 0)`, `OnCloseReturned` resets `connected` and creates the timer
or calls the application's `on_close`. Between them `connected` is set without a
handle; the application may call there what it may call elsewhere, and a send
gives `uv_write` a null pointer (`SendToNoHandle`), where the model ends. The
application starts only a client that is not running. The bytes in `buf` are
reduced to whose they are; the parse loop is that of `UvTcpServer`. `link` maps
the flags and handles to `AutoLink`.

`Llhttp` is the vendored parser as far as uvlib depends on it: a message is a
series of pieces (`After` says which follows which), and URL, the name and the
value of a header, and body are spans, for which a callback is made when the
span ends and when a read ends inside it, so that a name in two reads is two
calls of `on_header_field`. The parser's state is the piece it consumed last
(`at`), what this read has brought of the span (`frag`) and the callbacks that
are due. `HttpLoop` has what both programs share: the messages written in either
direction, which ends have closed, and what the process died of. A read is one
piece or more: `SrvRead` and `CliRead` consume the first, `SrvParse` and
`CliParse` go on to the next (`ParsesNext`) or end the read (`Ends`), with what
was written later left for another; `cut` is the set of pieces behind which a
read ended. `UvHttpd` and `UvHttpc` are the two programs, one action per
callback; `HttpSession` runs them on one loop, as `uv_httpc_test_main` does,
with an application that posts and stops (`conduct` records what it did). It may
stop at any time: `Stop` has no guard but that it is the first, as
`uv_httpc_stop` has none. After a stop during the look-up `on_resolved` closes
the handle again or gives it to `uv_tcp_connect` (`OnResolvedStopped`); after
one while connecting `on_connect` closes it again (`OnConnectCancelled`). Left
out of what the application does: posting while the name is looked up, which
starts a second look-up, and calling anything after a stop or after a response
with an error.

`ByteString` is a string that is appended to, emptied and replaced. `Mybuf` is
`mybuf.c` with its array, its block on the heap and the doubling of its
capacity, the bytes behind `size` being indeterminate (`Junk`); `Content` maps
it to the string.

Modules named `..._proofs` hold the theorems about the module they are named
after, `ServerDemo_proofs` those about `ServerDemoCommands` and `SwitchAlarms`.
The `MC...` modules give the constants their values; `MCFrames` has the streams.

## The runs

| run | what it shows |
|---|---|
| `uv_tcpserver` | `on_read` implements `FrameScan`: nothing skipped (`NoFrameSkipped`) and nothing twice (`DeliveredDisjoint`), except over the bytes that a field parser commits of a malformed body; a stream of frames only is delivered completely (`FramesDelivered`) |
| `server_demo_reader` | no byte of an earlier client (`OwnBytesOnly`), nothing complete left at `select` (`NothingLeftBehind`), nothing handled twice (`DeliveredDisjoint`), a client given up for want of room only behind too long a header (`RoomForPackets`), frames all handled (`FramesDelivered`) |
| `ademco_packet` | every packet fits its buffer (`MadePacketFits`) and is accepted (`MadePacketParses`), says what it was asked to say, whatever the structure held before (`RoundTrip`), and xdata keeps its meaning over making, parsing and converting (`XdataKept`) |
| `long_account` | violated: the account 861200012345 is read as the id of a host |
| `server_demo_commands` | each command sent exactly once and in order (`EachCommandOnce`), under the account of a client that has reported; the queue drains; quitting ends both threads |
| `disarm_password` | violated: a queued disarm is sent with a later password |
| `switch_alarms` | the cache is exactly the open alarms; alarms apart; recoveries neither early nor late |
| `http_relay` | sessions are ONLINE, events, OFFLINE; an acknowledged event was posted; first posts in order; a connected host gets its ACKs |
| `ack_means_handled` | violated: ACK although the HTTP request failed |
| `uv_tcpclient` | whatever the application calls between the callbacks: one of look-up, handle, report of a loss and timer at a time, and a connected handle whenever it sends, except from `on_connect(cli, 0)` (`OneAtATime`), no byte of an earlier connection parsed, each handle closed once, the client implements `AutoLink` and does not stay down; its assertion fails, or a freed client is used, only after a stop (`TimerOutlivedOnlyAfterStop`) |
| `http_session` | exactly which cuts of the stream garble which part of a message (`MessagesWhole`), each request handed over once (`HandedOnce`), each answer for its post (`AnswersAsPosted`), what a call at the wrong time ends in (`DiesOnlyIf`), nobody waiting for ever (`Answered`) |
| `mybuf` | the buffer implements `ByteString`, data taken from the buffer itself included; it never writes outside its block and has one block on the heap exactly when it has outgrown its array |

A run that expects a violation shows a real disagreement of the code with the
documentation it quotes (PROJECT.json, "findings"). Type correctness is proved
of every module with a theorem; `ademco_packet` and `http_session` check it too,
since there the types say what widths and fragments can occur.

Bounds. The streams are built of two or three pieces: frames (one with LF in its
body, one that contains a frame), CRC-correct frames with five kinds of bad
bodies (the fields give up inside the frame, at its end, three bytes past it,
far past it, and at or before its LF), and seven kinds of damage; `MaxLen` and
`BuffSize` are 32 and 40 bytes instead of 256 and 4096, so that too long
headers, full buffers and wrap-around happen within three pieces, and every way
to cut the stream into reads is explored: 77 327 states for `uv_tcpserver`, from
395 streams. A bug in framing needs one damaged piece before or inside a frame,
which pairs and triples cover. `AdemcoPacket` has six requests with each number
inside, at and above its range, and accounts that are empty, a phone number, a
MAC address and longer than eighteen digits; `XdataMax` is 14 instead of 128, so
that a content of six to eight bytes has room as it is but not in hexadecimal
digits, and `PacketMax` the least that `PacketAssumption` allows, 123, so that
one byte too many is noticed (the code's 256 leaves 19 bytes to spare).
`ServerDemoCommands` has two hosts and two commands: the races it looks for are
between one command and one loop of the worker, and stale data between one
client and the next. `SwitchAlarms` has two zones and gaps of 2 and 3 seconds
instead of 3 and 10, with two ticks to a second; its clock runs long enough for
an alarm, a repetition and both timeouts. `HttpRelay` has two hosts, two
connections, two events and one extra packet per connection; that a request
fails changes only `failed`, which none of the properties of `http_relay`
mentions, so this run lets none fail and `ack_means_handled` one.

`UvTcpClient` has two timers, so that the close callback of one may still be due
when the next is created (the client never has more), three stops and two writes
in flight: one stop while a handle connects, one while it is open and one in the
round in which the timer ran out. `HttpSession` has two posts with each of three
Connection headers, hence pipelining, keep-alive and closing, and two reads that
leave something behind: the properties name the piece behind which a read ended,
and two cuts may fall into the same span or into different ones (548 822
states). `Mybuf` starts with an array of two bytes (4096 in the code; nothing
depends on the number, and `Mybuf_proofs` fixes none) and grows to nine bytes,
so that it moves to the heap and grows there up to three times, by one doubling
and by several.

The models do what the code does where it is doubtful, too. Disagreements with
comments or documentation, and weaknesses met on the way, that have no run of
their own:

* framing: after a parse error a complete frame stays in `uv_tcpserver`'s
  buffer until the next read, and server_demo clears its whole buffer
  (`server_demo.cpp` 303); a length too large for server_demo's buffer ends in
  `recv` of 0 bytes, which is taken for the end of the connection (328);
* `ademco_parse_packet` reads the byte behind the buffer when it looks for LF
  (`ademco.c` 1295), the seq digits of a CRC-correct body that is too short
  (1392), and returns NOT_ENOUGH without setting `*cb_commited` (1289);
* after a CRC-correct frame with a malformed body it may report more bytes than
  the frame has, or than have arrived, or a negative number (1392, 1495-1504):
  the TCP server and client then skip frames, parse them again, or copy from
  outside their buffer (`uv_tcpserver.c` 53, `uv_tcpclient.c` 104);
* codec: the id 1000000 is taken as valid (493), a content is copied before it
  is measured (716), a seq of more than four digits makes
  `ademco_make_hb_packet3` write a longer field (1219), and it may lose a
  bracket of a long account (above). The hi-lo and hexadecimal arrays ignore
  their padding and the last digit of an odd length (`ademco.h` 640, 708);
* server_demo: a command sent before a new client has reported bears the
  account of the client before it; the alarm cache outlives the client (115);
  its times are those of a clock that may be set back (113); the result of
  `send` is not looked at (392);
* httprelay: OFFLINE of an old connection may be posted after the host is online
  on a new one (140); the context of a connection is not freed (142); packets of
  other ids are consumed without an answer (151); `ademco_is_machine_type_event`
  decides with a table of its own which events are relayed (171);
* TCP client: `uv_tcpclient_stop` does nothing while the name is looked up or
  the timer runs (223), a client can be started twice (202), the assertion of
  `on_close_reconn_timer` fails when a stop closes the new handle in the round in
  which the timer is closed, and `connected` is still set when `on_close` calls
  the application, with the handle gone (65);
* HTTP: a URL, a header's name or value, or a body in two reads is garbled; a
  second request behind one without keep-alive, a stop during the look-up or a
  stop while connecting closes a handle twice; a post during the look-up starts
  another one; the server asserts that every write succeeds; the client's
  timeout is never started (360), a post while connecting sends the next request twice (370),
  `llhttp_finish` is never called, so that a response that ends with the
  connection is never completed (226), and after a chunked body a callback that
  was never set is called (`uv_httpd.c` 239).

Deadlock is not checked where the system really ends: a connection that is
closed, a program that was quit, hosts and connections used up.

Fairness. `UvTcpServer`, `HttpRelay`: libuv calls the callbacks that are due,
callbacks return (a request times out after three seconds), and TCP brings what
was sent while the connection lives; nothing makes a peer send or a connection
end. `ServerDemoReader`: the worker runs and somebody connects. In
`ServerDemoCommands` both threads are scheduled; waiting for the mutex gets
strong fairness, since the other thread releases it in every loop and sleeps
outside it. Nobody has to type a command or quit. `UvTcpClient`: the loop goes
round and runs the close callbacks that are due; its timer runs out, a look-up
is answered and a server that is tried again and again accepts in the end, which
needs strong fairness, since the loop leaves the phase they belong to over and
over. `HttpSession`: either side runs the callbacks that are due; the
application need not post, stop or stop listening.

## The proofs

`UvTcpServer_proofs` proves, for all streams, lengths, checksums and field
parsers:

* `CursorsStayInside`: `Spec => [](TypeOK /\ OverrunByFields)`: the offsets stay
  in order and inside what has arrived, and only a commit of the field parsers
  takes `on_read` out of its buffer;
* `NeverSkipsFrame`, `NeverOverlaps`: `[]NoFrameSkipped`, `[]DeliveredDisjoint`;
* `RefinesFrameScan`: `Spec => Scan!Spec`.

`FrameAssumption` asks of the field parsers only that they commit an integer. So
these are theorems about everything else: a frame is skipped only if it begins
in the bytes that the field parser of a malformed body committed, and parsed
again only if a negative commit went back over it (`Rewound`). That malformed
bodies do skip and repeat frames is a fact about the code that the theorems
leave standing.

The invariants are not inductive by themselves. `IInv` adds `LoopStart`
(between reads the buffer begins at the first byte not consumed, so `Read` may
begin again at `start`). The heart of the argument is lemma `DiscardsNoFrame`:
whichever check before the fields fails, no frame begins at a byte that is
dropped, because a header contains no LF (`LFNotHex`) and a byte that is not LF
begins no frame. `AcceptsIsFrame` lifts what the parser saw in the buffer to the
stream. `ParseErrorStep` tells the commits before the fields from those of the
fields; of the latter `ParseErrorIInv` needs no more than the pair that `refused`
keeps.

`ServerDemoReader_proofs` proves, for the same streams and any buffer that has
room for a header and a packet (`BuffSizeAssumption`; the code has 4096 and 256),
`TypeCorrect`, `OnlyOwnBytes`, `NoPacketLeft`, `NeverOverlaps` and `AlwaysRoom`.
`IInv` adds `Idle` (without a client the buffer is empty, so nothing is left for
the next) and `FullAtFront` (a buffer that is full at `select` is full from its
front on, since `do_read` moved it there): a whole buffer that is not enough for
a packet begins with a header that announces too much. `Handled` says once
what `do_handle` does to cursors and deliveries.

`ServerDemo_proofs` proves `TypeCorrect`, `CommandsOnce` and `AddressedRight` of
`ServerDemoCommands`, for any number of commands and hosts. The queue between
`push_back`, the sends and `clear` is followed by `Locked` (who holds the mutex
is where it is needed), `Position` (how much of the queue the loop has sent) and
`InHand` (the command the console is about to push); `AcctIsCurrent` keeps the
account that of the client once it has reported.

Of `SwitchAlarms` it proves `SwitchTypeCorrect`, `CacheCorrect`,
`RecoveryInTime`, `AlarmsFarApart` and `RecoveriesNotEarly`, for any zones, gaps
and clock resolution, with the invariant `SwitchInv`. The cache counts whole
seconds and the properties ticks: lemmas `Apart` and `Near` carry a difference
from one to the other, at the price of the second that the properties allow for.
`CheckedLately` bounds the time since `switch_check_timeout`, `NoneOverdue` and
`HeardSoon` say what it left.

`HttpRelay_proofs` proves `TypeCorrect`, `SessionsWellFormed`, `AckedPosted` and
`FirstInOrder` for any hosts, connections and bounds. None is inductive: what a
host will hear is decided by what is under way. `AcksPosted` says that every ACK
under way is for an event that was posted; `InOrder` that the packets under way
on a connection may each be posted next (`MayFollow`), because a host sends an
event only after the ACK of the one before it, which was posted whatever
connection it came over; `LinkOwned`, `NoneUnused` and `AcctKnown` tie hosts,
connections and the relay's accounts together.

`UvTcpClient_proofs` proves `TypeCorrect`, `NeverTwoAtATime`, `OwnBytes`,
`NeverClosedTwice`, `TimerOutlives` and the refinement `RefinesAutoLink`, for any
timers and bounds; `ConnectedHasHandle`, a part of `OneAtATime`, is the theorem
`SendHasHandle`: only inside `on_close` is `connected` set without a handle that
has been connected. Added to the invariant: close callbacks run in the closing
phase only (`NowWhileClosing`), and a timer that runs has not been closed
(`ArmedNotClosed`). `TimerOutlives` needs `TimerAlone` besides: until the
application stops the client, a connection begun by the timer is not made or
given up before the timer's close callback, since what is begun while polling
completes in a later round.

`Mybuf_proofs` proves `TypeCorrect`, `NoBlockLost` and the refinement
`RefinesByteString`, for every default size and all strings, with the invariant
`Good(buf)`: `BlockSound`, and a capacity that never falls below that of the
array. The lemmas follow one operation: `CapacitiesEnough` (how far the buffer
doubles is not computed, only that it makes room), growing, writing, clearing.

`AdemcoPacket_proofs` proves all that `ademco_packet` checks: `TypesKept`,
`PacketsFit`, `PacketsParse`, `PacketsSay` and `XdataMeaningKept`, for all
requests, contents and sizes with `PacketMax >= XdataMax + 109` (the code has 256
and 128). None is inductive: the next packet may be made from the structure,
and the structure parsed from the last packet. `IInv` relates the three:
`WireSays` has every field on the wire equal to what was asked for, as far as it
fits; `SegmentOrNone` says that an xdata array holds one segment or nothing, and
`Stands` that, unless `ademco_make_xdata` had no room (`Lost`), this segment is
how the payload is written in the format the structure claims (`Spell`).
Two groups of lemmas carry it. That what is written is read back: `HexBackSix`,
`DataIdBack`, `SeqBack`, `GGBack` for numbers, `HexArrayBack` for bytes; the
fields have a fixed number of digits, so this is arithmetic on each digit and
needs no induction. And that a segment is taken apart as it was put together:
`BracketedShape`, `SegmentShape`, `ContentOfSegment`, `FormatOfSegment`,
`SegmentParses`. `PacketLenBound` adds up the parts of a packet.
`PacketAssumption` asks callers for contents no longer than `XdataMax`, because
`ademco_make_xdata` copies before it measures, and for accounts that are empty
or have `AcctMin` digits. As in the run, `PacketsParse` excepts the packet whose
data segment was longer than its array.

`HttpSession_proofs` proves all safety properties of `http_session` for any
number of posts and of cut reads: `TypeCorrect`, `MessagesCutExactly`,
`RequestsHandedOnce`, `AnswersInOrder` and `DeathsExplained`. `IInv` has three
parts:

* The parser (`ParserInv`, `DueInv`, `Going`). What it holds and what it is about
  to call back with is a function of the piece it is at and of the cuts so far
  (`Held`, `Brought`); lemmas of one step each follow `Consume`, `Leave` and
  `Called`, for any stream.
* What a program has collected (`RequestInv`, `ResponseInv`). The callbacks may
  lag behind the parser, so it speaks of the request as it will be when the one
  that is due has been made (`Noted`): its fragments are those that piece and
  cuts determine (`Collected`). `MessagesWhole` is the case of a message that
  is over.
* The way of a message, from `posts` by `c2s`, `handed`, `unsent` and `s2c` to
  `answers` (`PostsInv`, `HandedInv`, `RepliesInv`, `AnswersInv`): each is a
  prefix of the one before, with equality where `HandedOnce` needs it. What
  `DiesOnlyIf` excuses is carried by `AheadInv` (without pipelining the server
  that has closed has nothing more to parse), `ClientInv` and `CloseInv` (why
  the client has closed, and in which phase it was stopped).

`MessagesCutExactly` is exact in both directions: a message that was cut in one
of the places that `MessagesWhole` names, a header's name among them, is always
garbled, and one that was not never is.

Only model-checked: all liveness, since the prover has no rules for fairness:
`FramesDelivered`, `QuitTerminates`, `QueueDrains`, `ReportsAcknowledged`,
`DownEnds` and `Answered`. The three violated properties are refuted by TLC's
counterexamples.

## Not modelled

Of the packet codec: the CRC (a constant of `AdemcoFrame`), the timestamp, the
errors of the field parsers (`AdemcoFrame` has only that they may stop
anywhere), fe100, the hi-lo digit arrays, `ademco_make_adm_empty_data_packet`,
the event tables. `libhb` and `libhbiot` are stateless tables between machine
types, states, zone properties, RF codes and events: a model would be the tables
over again, and a property what they say. ChaCha20 (`libhbcrypto`) is a standard
cipher.

Of uvlib: what `UvTcpServer` leaves to the other modules (listening, stopping,
write completions); in HTTP, messages that llhttp refuses, chunked bodies,
bodies that end with the connection, version, method and status, and the header
array beyond its default length. The client's timeout cannot be modelled, since
no timer is ever created.

`send()` on a full socket and heap exhaustion are left out of the modelled
parts. cJSON, `gen_event_md`, the swig bindings, scripts and build files have no
protocol logic of this repository.

llhttp is generated third-party code. `Llhttp` has what uvlib depends on; its
grammar, 18 232 lines of a state machine in C of which the build compiles half
(lines 1-9241 are the strict mode that is switched off), and cJSON are two
thirds of the C code under `src/`. The models stand for some 2 600 lines, most
of it the first-party code that keeps state.

## Plan

Done: framing, reading, commands, alarms, relay, making, parsing and converting
packets, the TCP client, the byte buffer, HTTP client and server, each with
proofs of its safety properties.

Left, in this order:

1. The field parsers' errors in `AdemcoFields`, and the packets they accept, in
   place of the constant `BodyErrors` of `AdemcoFrame`.
2. The hi-lo arrays and the CRC against arithmetic definitions.
3. `UvTcpServer` on `Mybuf`, and `HttpRelay` on `UvTcpServer`'s interface.
