----------------------------- MODULE UvTcpClient -----------------------------
(***************************************************************************)
(* uvlib's TCP client (src/examples/httprelay/uvlib/uv_tcpclient.c) with   *)
(* the reconnect timer, the application that calls it, and the part of     *)
(* libuv's event loop its callbacks depend on.                             *)
(*                                                                         *)
(* The loop runs timers, then polls (name resolution, connect and read     *)
(* callbacks), then runs the close callbacks of the handles uv_close was   *)
(* called for, the last one first.  What is begun while polling completes  *)
(* in a later round (fresh).  The application's calls come from its own    *)
(* callbacks on the same loop, so they fall between those of the client,   *)
(* in any phase; and in the middle of on_close, which calls the            *)
(* application's on_connect(cli, 0) when it has freed the handle and       *)
(* before it resets connected.                                             *)
(*                                                                         *)
(* Bytes are abstracted to which connection they came over, and on_parse   *)
(* to whether it left any in cli->buf; UvTcpServer has the parse loop.     *)
(***************************************************************************)
EXTENDS Naturals, Sequences

CONSTANTS
  Timers,      \* the uv_timer_t objects malloc can return
  TCP,         \* the uv_tcp_t object, as a member of libuv's closing list
  NULL,        \* the null pointer
  MaxStops,    \* bound: how often the application calls uv_tcpclient_stop
  MaxWrites    \* bound: write requests in flight

ASSUME HandlesAssumption ==
  /\ TCP \notin Timers
  /\ NULL \notin Timers \cup {TCP}

ASSUME BoundsAssumption == MaxStops \in Nat /\ MaxWrites \in Nat

VARIABLES
  phase,         \* of the loop: "timers", "poll" or "closing"
  closing,       \* handles uv_close was called for in this round, in order
  now,           \* those whose close callback is still due in this phase
  fresh,         \* resolver, tcp were put to work since polling began
  resolver,      \* uv_getaddrinfo is in flight
  tcp,           \* cli->tcp: "null", "connecting", "open" or "closing"
  reconn,        \* cli->reconn_timer
  armed,         \* and whether the timer is running
  inClose,       \* on_close is in the application's on_connect(cli, 0)
  connected,     \* cli->connected
  enableReconn,  \* cli->enable_reconn, which the application sets
  buf,           \* whose bytes cli->buf holds: of "this" or "earlier" connections
  writes,        \* write requests in flight
  user,          \* the application: "idle", "running" or "freed" the client
  stops,         \* how often it has called uv_tcpclient_stop
  process        \* "runs", "exit", or what it died of: "assert", "freed",
                 \* "null_handle"

loopVars == <<phase, closing, now, fresh>>
linkVars == <<resolver, tcp, reconn, armed, inClose, connected, buf, writes>>
userVars == <<enableReconn, user, stops>>
vars == <<loopVars, linkVars, userVars, process>>

Handles == Timers \cup {TCP}

TypeOK ==
  /\ phase \in {"timers", "poll", "closing"}
  /\ closing \in Seq(Handles)
  /\ now \in Seq(Handles)
  /\ fresh \in BOOLEAN
  /\ resolver \in BOOLEAN
  /\ tcp \in {"null", "connecting", "open", "closing"}
  /\ reconn \in Timers \cup {NULL}
  /\ armed \in BOOLEAN
  /\ inClose \in BOOLEAN
  /\ connected \in BOOLEAN
  /\ enableReconn \in BOOLEAN
  /\ buf \subseteq {"this", "earlier"}
  /\ writes \in 0 .. MaxWrites
  /\ user \in {"idle", "running", "freed"}
  /\ stops \in 0 .. MaxStops
  /\ process \in {"runs", "exit", "assert", "freed", "null_handle"}

(* uv_tcpclient_new: client_init *)
Init ==
  /\ phase = "timers" /\ closing = <<>> /\ now = <<>> /\ fresh = FALSE
  /\ resolver = FALSE /\ tcp = "null"
  /\ reconn = NULL /\ armed = FALSE /\ inClose = FALSE
  /\ connected = FALSE /\ enableReconn = FALSE
  /\ buf = {} /\ writes = 0
  /\ user = "idle" /\ stops = 0
  /\ process = "runs"

Running == process = "runs"

(* uv_close: the close callback is due in the loop's next closing phase. *)
UvClose(h) == closing' = Append(closing, h)

-----------------------------------------------------------------------------
(* The event loop goes on to its next phase. *)
NextPhase ==
  /\ Running
  /\ \/ /\ phase = "timers" /\ phase' = "poll"
        /\ fresh' = FALSE
        /\ UNCHANGED <<closing, now>>
     \/ /\ phase = "poll" /\ phase' = "closing"
        /\ now' = closing /\ closing' = <<>>
        /\ UNCHANGED fresh
     \/ /\ phase = "closing" /\ now = <<>> /\ ~inClose /\ phase' = "timers"
        /\ UNCHANGED <<closing, now, fresh>>
  /\ UNCHANGED <<linkVars, userVars, process>>

-----------------------------------------------------------------------------
(* Calls of the application *)

(* uv_tcpclient_start, on a client that is not running *)
Start ==
  /\ Running
  /\ user = "idle"
  /\ user' = "running"
  /\ resolver' = TRUE
  /\ fresh' = (phase = "poll")
  /\ UNCHANGED <<phase, closing, now, tcp, reconn, armed, inClose, connected,
                 enableReconn, buf, writes, stops, process>>

StopTwice ==   \* mutant: no uv_is_closing
  /\ Running
  /\ user # "freed"
  /\ stops < MaxStops
  /\ stops' = stops + 1
  /\ IF tcp # "null"
     THEN tcp' = "closing" /\ UvClose(TCP)
     ELSE UNCHANGED <<tcp, closing>>
  /\ UNCHANGED <<phase, now, fresh, resolver, reconn, armed, inClose, connected,
                 enableReconn, buf, writes, user, process>>

(* uv_tcpclient_stop: without a handle, or with one that is closing        *)
(* already, nothing happens.                                               *)
Stop ==
  /\ Running
  /\ user # "freed"
  /\ stops < MaxStops
  /\ stops' = stops + 1
  /\ IF tcp \in {"connecting", "open"}
     THEN tcp' = "closing" /\ UvClose(TCP)
     ELSE UNCHANGED <<tcp, closing>>
  /\ UNCHANGED <<phase, now, fresh, resolver, reconn, armed, inClose, connected,
                 enableReconn, buf, writes, user, process>>

(* client->enable_reconn = 0 or 1 *)
SetReconn ==
  /\ Running
  /\ user # "freed"
  /\ enableReconn' = ~enableReconn
  /\ UNCHANGED <<loopVars, linkVars, user, stops, process>>

(* uv_tcpclient_send: on a handle that is closing uv_write fails, which is *)
(* not looked at.                                                          *)
Send ==
  /\ Running
  /\ user # "freed"
  /\ connected
  /\ tcp = "open"
  /\ writes < MaxWrites
  /\ writes' = writes + 1
  /\ UNCHANGED <<loopVars, resolver, tcp, reconn, armed, inClose, connected, buf,
                 userVars, process>>

(* The same call inside on_connect(cli, 0): connected is still set, and    *)
(* uv_write is given a null pointer.                                       *)
SendToNoHandle ==
  /\ Running
  /\ user # "freed"
  /\ connected
  /\ tcp = "null"
  /\ process' = "null_handle"
  /\ UNCHANGED <<loopVars, linkVars, userVars>>

(* uv_tcpclient_free, once on_close has said that the client is closed *)
Free ==
  /\ Running
  /\ user = "idle"
  /\ user' = "freed"
  /\ UNCHANGED <<loopVars, linkVars, enableReconn, stops, process>>

-----------------------------------------------------------------------------
(* Callbacks of the timers phase *)

(* on_reconn: the 3000 ms are over. *)
OnReconn ==
  /\ Running
  /\ phase = "timers"
  /\ armed
  /\ armed' = FALSE
  /\ resolver' = TRUE
  /\ fresh' = FALSE
  /\ UvClose(reconn)
  /\ UNCHANGED <<phase, now, tcp, reconn, inClose, connected, buf, writes,
                 userVars, process>>

-----------------------------------------------------------------------------
(* Callbacks of the poll phase *)

Polls == Running /\ phase = "poll" /\ ~fresh

(* on_resolved, status 0: a new handle, which begins to connect *)
OnResolved ==
  /\ Polls
  /\ resolver
  /\ resolver' = FALSE
  /\ tcp' = "connecting"
  /\ fresh' = TRUE
  /\ buf' = IF buf = {} THEN {} ELSE {"earlier"}
  /\ writes' = 0
  /\ UNCHANGED <<phase, closing, now, reconn, armed, inClose, connected,
                 userVars, process>>

(* on_resolved with an error ends the process. *)
OnResolveFailed ==
  /\ Polls
  /\ resolver
  /\ process' = "exit"
  /\ UNCHANGED <<loopVars, linkVars, userVars>>

KeepBuffer == UNCHANGED buf   \* mutant: no mybuf_clear

ClearBuffer == buf' = {}

(* on_connect, status 0 *)
OnConnect ==
  /\ Polls
  /\ tcp = "connecting"
  /\ tcp' = "open"
  /\ connected' = TRUE
  /\ ClearBuffer
  /\ fresh' = TRUE
  /\ UNCHANGED <<phase, closing, now, resolver, reconn, armed, inClose,
                 writes, userVars, process>>

(* on_connect with an error; with UV_ECANCELED, when uv_close came first,  *)
(* it finds the handle closing and does nothing.                           *)
OnConnectFailed ==
  /\ Polls
  /\ tcp = "connecting"
  /\ tcp' = "closing"
  /\ UvClose(TCP)
  /\ UNCHANGED <<phase, now, fresh, resolver, reconn, armed, inClose,
                 connected, buf, writes, userVars, process>>

(* on_read: on_parse gets all of cli->buf and may leave some of it. *)
OnRead ==
  /\ Polls
  /\ tcp = "open"
  /\ buf' \in {{}, {"this"}, buf \cup {"this"}}
  /\ UNCHANGED <<loopVars, resolver, tcp, reconn, armed, inClose, connected, writes,
                 userVars, process>>

(* on_read, nread < 0: the server has gone. *)
OnEof ==
  /\ Polls
  /\ tcp = "open"
  /\ tcp' = "closing"
  /\ UvClose(TCP)
  /\ UNCHANGED <<phase, now, fresh, resolver, reconn, armed, inClose,
                 connected, buf, writes, userVars, process>>

(* on_write frees a request. *)
OnWrite ==
  /\ Polls
  /\ tcp = "open"
  /\ writes > 0
  /\ writes' = writes - 1
  /\ UNCHANGED <<loopVars, resolver, tcp, reconn, armed, inClose, connected, buf,
                 userVars, process>>

-----------------------------------------------------------------------------
(* Callbacks of the closing phase *)

Closes(h) ==
  /\ Running
  /\ phase = "closing"
  /\ ~inClose
  /\ now # <<>>
  /\ h = now[Len(now)]
  /\ now' = SubSeq(now, 1, Len(now) - 1)

(* malloc returns a block that is not in use. *)
FreeTimers ==
  Timers \ ({reconn} \cup {now[i] : i \in 1 .. Len(now)}
                     \cup {closing[i] : i \in 1 .. Len(closing)})

StillConnected == UNCHANGED connected   \* mutant: connected is not reset

(* connected is reset, after on_connect(cli, 0). *)
Disconnected == connected' = FALSE

CreateOnly ==   \* mutant: the timer is created and not started
  IF enableReconn
  THEN /\ reconn' \in FreeTimers
       /\ UNCHANGED <<armed, user>>
  ELSE /\ user' = "idle"
       /\ UNCHANGED <<reconn, armed>>

ReconnectAndReport ==   \* mutant: on_close is called in either case
  /\ user' = "idle"
  /\ IF enableReconn
     THEN /\ reconn' \in FreeTimers
          /\ armed' = TRUE
     ELSE UNCHANGED <<reconn, armed>>

(* Either a new timer is started, or on_close is called, after which the   *)
(* application may start or free the client.                               *)
ReconnectOrReport ==
  IF enableReconn
  THEN /\ reconn' \in FreeTimers
       /\ armed' = TRUE
       /\ UNCHANGED user
  ELSE /\ user' = "idle"
       /\ UNCHANGED <<reconn, armed>>

(* on_close up to the call of on_connect(cli, 0): libuv has cancelled what *)
(* was in flight on the handle, which is freed.                            *)
OnClose ==
  /\ Closes(TCP)
  /\ tcp' = "null"
  /\ writes' = 0
  /\ inClose' = TRUE
  /\ UNCHANGED <<phase, closing, fresh, resolver, reconn, armed, connected,
                 buf, userVars, process>>

(* on_close from the return of on_connect(cli, 0), which may have changed  *)
(* enable_reconn                                                           *)
OnCloseReturned ==
  /\ Running
  /\ inClose
  /\ inClose' = FALSE
  /\ Disconnected
  /\ ReconnectOrReport
  /\ UNCHANGED <<loopVars, resolver, tcp, buf, writes, enableReconn, stops,
                 process>>

(* on_close_reconn_timer, which reaches the client through timer->data and *)
(* asserts that the timer is the client's                                  *)
OnCloseReconnTimer ==
  /\ \E h \in Timers :
       /\ Closes(h)
       /\ process' = IF user = "freed" THEN "freed"
                     ELSE IF h # reconn THEN "assert" ELSE "runs"
       /\ reconn' = IF process' = "runs" THEN NULL ELSE reconn
  /\ UNCHANGED <<phase, closing, fresh, resolver, tcp, armed, inClose,
                 connected, buf, writes, userVars>>

Next ==
  \/ NextPhase
  \/ Start \/ Stop \/ SetReconn \/ Send \/ SendToNoHandle \/ Free
  \/ OnReconn
  \/ OnResolved \/ OnResolveFailed
  \/ OnConnect \/ OnConnectFailed \/ OnRead \/ OnEof \/ OnWrite
  \/ OnClose \/ OnCloseReturned \/ OnCloseReconnTimer

Spec == Init /\ [][Next]_vars

(* The loop goes round and runs what is due; a look-up is answered, the    *)
(* timer runs out, and a server that is tried again and again accepts in   *)
(* the end.  Reading, writing and the application need not happen.         *)
FairSpec ==
  /\ Spec
  /\ WF_vars(NextPhase)
  /\ WF_vars(OnClose)
  /\ WF_vars(OnCloseReturned)
  /\ WF_vars(OnCloseReconnTimer)
  /\ SF_vars(OnReconn)
  /\ SF_vars(OnResolved)
  /\ SF_vars(OnConnect)

-----------------------------------------------------------------------------
InSeq(h, s) == \E i \in 1 .. Len(s) : s[i] = h

NoRepeat(s) == \A i, j \in 1 .. Len(s) : s[i] = s[j] => i = j

(* uv_tcpclient_send tests connected only: whenever it is set there is a   *)
(* handle, and one that has been connected, not the next one; except in    *)
(* on_close, from the freeing of the handle to the reset of connected,     *)
(* where the application's on_connect(cli, 0) runs.  A send from there is  *)
(* the only one that is given a null handle.                               *)
ConnectedHasHandle ==
  /\ connected => tcp \in {"open", "closing"} \/ inClose
  /\ process = "null_handle" => inClose

(* At any time the client does one thing: it looks the name up, it has a   *)
(* handle, it tells the application that it has lost it, or it waits for   *)
(* the timer - and none of them when the application has been told that it *)
(* is closed (uv_tcpclient_start, on_close and on_reconn hand over to each *)
(* other, whatever the application calls between their steps); connected   *)
(* agrees with what it has.                                                *)
OneAtATime ==
  /\ ConnectedHasHandle
  /\ resolver => tcp = "null" /\ ~armed /\ ~inClose
  /\ tcp # "null" => ~armed /\ ~inClose
  /\ armed => ~inClose
  /\ (resolver \/ tcp # "null" \/ armed \/ inClose) <=> user = "running"

(* What is parsed comes from the connection that is open: what an earlier  *)
(* one left unfinished is gone (on_connect, on_read).                      *)
OwnBytesOnly == tcp = "open" => "earlier" \notin buf

(* uv_close is called once for a handle: TCP is in the loop's closing list *)
(* once if it is closing, and not at all if it is not (uv_is_closing in    *)
(* on_connect and uv_tcpclient_stop).                                      *)
ClosedOnce ==
  /\ tcp = "closing" <=> InSeq(TCP, now) \/ InSeq(TCP, closing)
  /\ \A h \in Handles : ~(InSeq(h, now) /\ InSeq(h, closing))
  /\ NoRepeat(now) /\ NoRepeat(closing)

(* Close callbacks run in the closing phase only. *)
NowWhileClosing == now # <<>> \/ inClose => phase = "closing"

(* A timer that is running has not been closed. *)
ArmedNotClosed ==
  armed => reconn \in Timers /\ ~InSeq(reconn, now) /\ ~InSeq(reconn, closing)

(* The assertion of on_close_reconn_timer and its use of timer->data can   *)
(* go wrong only while a new connection is being closed in the round in    *)
(* which the timer of the last one ran out; without uv_tcpclient_stop they *)
(* never do.                                                               *)
TimerOutlivedOnlyAfterStop ==
  process \in {"assert", "freed"} => stops > 0

(* What the application is promised: see AutoLink. *)
link ==
  IF ~Running THEN "dead"
  ELSE IF user # "running" THEN "off"
  ELSE IF connected THEN "up" ELSE "down"

Promise == INSTANCE AutoLink WITH auto <- enableReconn

(* on_connect(cli, 1), on_connect(cli, 0) and on_close reach the           *)
(* application as AutoLink allows: up only from down, and off only with    *)
(* reconnecting switched off (on_connect, on_close, on_reconn).            *)
ImplementsAutoLink == Promise!Spec

(* A client does not stay down for ever: whenever its connection is lost   *)
(* or cannot be made it comes up again, or is closed (on_close, on_reconn, *)
(* on_connect).                                                            *)
DownEnds == link = "down" ~> link # "down"

=============================================================================
