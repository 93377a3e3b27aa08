------------------------------- MODULE UvHttpc -------------------------------
(***************************************************************************)
(* uvlib's HTTP client (src/examples/httprelay/uvlib/uv_httpc.c): name     *)
(* look-up, connecting, writing requests, the llhttp callbacks that        *)
(* collect a response, and the application, which posts and stops from     *)
(* anywhere on the loop, and from on_response too.                         *)
(*                                                                         *)
(* The application does not post while the name is being looked up, and    *)
(* calls nothing after a response with an error or after uv_httpc_stop; it *)
(* may stop at any time.                                                   *)
(* No post has a timeout: uv_httpc.c stores it and never starts a timer.   *)
(***************************************************************************)
EXTENDS HttpLoop

CONSTANT Connections   \* the Connection headers the application posts with

ASSUME ConnectionsAssumption == Connections \subseteq {"none", "close", "keep-alive"}

VARIABLES
  tcp,        \* httpc->tcp: "init", "resolving", "connecting", "open", "closing",
              \* "cancelling" (closing while it was connecting), "closed";
              \* "abandoning", "abandoned": closing, closed during the look-up
  posts,      \* how often uv_httpc_post was called
  current,    \* url, headers and http_data: which post they are of, and its
              \* Connection header
  response,   \* httpc->response
  cp,         \* httpc->parser
  answers,    \* the on_response calls: of which post, or 0, and code
  conduct     \* what the application has done: posted before the last post was
              \* answered, or before the connection was up; stopped during the
              \* look-up, while connecting, or before the last post was answered

cliVars == <<tcp, posts, current, response, cp, answers, conduct>>

Codes == {"ok", "resolve_failed", "connection_failed", "connection_reset"}

(* The headers ("name:value:value"), in fragments, and the body *)
NoResponse == [headers |-> <<>>, body |-> <<>>]

CliTypeOK ==
  /\ tcp \in {"init", "resolving", "connecting", "open", "closing",
             "cancelling", "closed", "abandoning", "abandoned"}
  /\ posts \in 0 .. MaxPosts
  /\ current \in [conn : Connections \cup {"none"}, msg : 0 .. MaxPosts]
  /\ response \in [headers : Seq([name : Fragments, values : Seq(Fragments)]),
                  body : Fragments]
  /\ cp \in Parser
  /\ answers \in Seq([msg : 0 .. MaxPosts, code : Codes])
  /\ conduct \subseteq {"ahead", "early", "stopped_resolving",
                        "stopped_connecting", "stopped_waiting"}

(* uv_httpc_create *)
CliInit ==
  /\ tcp = "init" /\ posts = 0
  /\ current = [conn |-> "none", msg |-> 0]
  /\ response = NoResponse /\ cp = FreshParser
  /\ answers = <<>>
  /\ conduct = {}

-----------------------------------------------------------------------------
(* send_request writes what was posted last; on a handle that has been     *)
(* connected or is connecting uv_write takes it.                           *)
SendRequest(c) == c2s' = Append(c2s, Request(c.msg, c.conn))

PostsLast ==   \* mutant: the request is written before its data is set
  /\ posts < MaxPosts
  /\ tcp \in {"init", "connecting", "open"}
  /\ posts' = posts + 1
  /\ \E conn \in Connections :
       /\ current' = [conn |-> conn, msg |-> posts + 1]
       /\ IF tcp = "init"
          THEN tcp' = "resolving" /\ UNCHANGED c2s
          ELSE SendRequest(current) /\ UNCHANGED tcp
  /\ conduct' = conduct \cup {x \in {"ahead"} : posts > Len(answers')}
                         \cup {x \in {"early"} : tcp = "connecting"}
  /\ UNCHANGED fin

(* uv_httpc_post: the first one looks the name up, later ones send at      *)
(* once, even if the connection is not up yet.                             *)
Post ==
  /\ posts < MaxPosts
  /\ tcp \in {"init", "connecting", "open"}
  /\ posts' = posts + 1
  /\ \E conn \in Connections :
       LET c == [conn |-> conn, msg |-> posts + 1]
       IN  /\ current' = c
           /\ IF tcp = "init"
              THEN tcp' = "resolving" /\ UNCHANGED c2s
              ELSE SendRequest(c) /\ UNCHANGED tcp
  /\ conduct' = conduct \cup {x \in {"ahead"} : posts > Len(answers')}
                         \cup {x \in {"early"} : tcp = "connecting"}
  /\ UNCHANGED fin

(* uv_close closes the socket at once. *)
CliClose(how) ==
  /\ tcp' = how
  /\ fin' = fin \cup {"client"}

(* uv_httpc_stop closes the handle, whatever is in flight. *)
Stop ==
  /\ tcp \in {"init", "resolving", "connecting", "open"}
  /\ CliClose(CASE tcp = "resolving" -> "abandoning"
                [] tcp = "connecting" -> "cancelling"
                [] tcp \in {"init", "open"} -> "closing")
  /\ conduct' = conduct \cup {x \in {"stopped_resolving"} : tcp = "resolving"}
                         \cup {x \in {"stopped_connecting"} : tcp = "connecting"}
                         \cup {x \in {"stopped_waiting"} : posts > Len(answers')}
  /\ UNCHANGED <<c2s, posts, current>>

(* The application calls uv_httpc_post or uv_httpc_stop. *)
Calls ==
  /\ Running
  /\ Idle(cp)
  /\ UNCHANGED <<listening, s2c, link, cuts, process, response, cp, answers>>
  /\ Post \/ Stop

-----------------------------------------------------------------------------
FailsPending(code) ==   \* mutant: a failure is reported while connecting
  /\ CliClose(IF tcp = "connecting" THEN "cancelling" ELSE "closing")
  /\ answers' = Append(answers, [msg |-> 0, code |-> code])

(* generic_on_response with an error: uv_close, then on_response *)
Fails(code) ==
  /\ CliClose("closing")
  /\ answers' = Append(answers, [msg |-> 0, code |-> code])

OnResolved ==
  /\ Running
  /\ tcp = "resolving"
  /\ \/ tcp' = "connecting" /\ UNCHANGED <<fin, answers>>
     \/ Fails("resolve_failed")
  /\ UNCHANGED <<listening, c2s, s2c, link, cuts, process, posts, current,
                 response, cp, conduct>>

(* on_resolved when uv_httpc_stop came first: with an error the handle is  *)
(* closed again; without one it is given to uv_tcp_connect, which either   *)
(* refuses it, and that is fatal, or goes on to on_connect, where          *)
(* send_request reads what on_close has freed.  Nothing after that is      *)
(* modelled.                                                               *)
OnResolvedStopped ==
  /\ Running
  /\ tcp \in {"abandoning", "abandoned"}
  /\ process' \in {"httpc_closed_twice", "httpc_connects_closed"}
  /\ UNCHANGED <<listening, c2s, s2c, link, cuts, fin, cliVars>>

(* on_connect, status 0, if the server listens: what was posted last is    *)
(* sent, behind what was posted while connecting.                          *)
OnConnect ==
  /\ Running
  /\ tcp = "connecting"
  /\ listening
  /\ tcp' = "open"
  /\ link' = "dialled"
  /\ cp' = FreshParser
  /\ SendRequest(current)
  /\ UNCHANGED <<listening, s2c, cuts, fin, process, posts, current, response,
                 answers, conduct>>

(* on_connect with an error *)
OnConnectFailed ==
  /\ Running
  /\ tcp = "connecting"
  /\ Fails("connection_failed")
  /\ UNCHANGED <<listening, c2s, s2c, link, cuts, process, posts, current,
                 response, cp, conduct>>

(* on_connect with UV_ECANCELED, because uv_httpc_stop came first: the     *)
(* handle that is closing is closed again.                                 *)
OnConnectCancelled ==
  /\ Running
  /\ tcp = "cancelling"
  /\ process' = "httpc_closed_twice"
  /\ UNCHANGED <<listening, c2s, s2c, link, cuts, fin, cliVars>>

(* on_read hands what has arrived to llhttp_execute, which parses it,      *)
(* whether or not the handle has been closed meanwhile.                    *)
CliRead ==
  /\ Running
  /\ tcp = "open"
  /\ Idle(cp)
  /\ ParsesNext(Enter(cp), s2c, cp')
  /\ UNCHANGED <<listening, c2s, s2c, link, fin, process, tcp, posts, current,
                 response, answers, conduct>>

CliParse ==
  /\ Running
  /\ Parses(cp)
  /\ ParsesNext(cp, s2c, cp') \/ Ends(cp, s2c, cp')
  /\ UNCHANGED <<listening, c2s, s2c, link, fin, process, tcp, posts, current,
                 response, answers, conduct>>

(* on_read, nread < 0: the server has closed, or the connection was reset  *)
(* and what had arrived is lost.                                           *)
CliEof ==
  /\ Running
  /\ tcp = "open"
  /\ Idle(cp)
  /\ "server" \in fin
  /\ Fails("connection_reset")
  /\ UNCHANGED <<listening, c2s, s2c, link, cuts, process, posts, current,
                 response, cp, conduct>>

-----------------------------------------------------------------------------
(* The llhttp callbacks *)

CliCall(cb) ==
  /\ Running
  /\ Due(cp, cb)
  /\ cp' = Called(cp)
  /\ UNCHANGED <<listening, s2c, link, cuts, process>>

Collects(cb) ==
  /\ CliCall(cb)
  /\ UNCHANGED <<c2s, fin, tcp, posts, current, answers, conduct>>

CliMessageBegin ==
  /\ Collects("on_message_begin")
  /\ response' = NoResponse

(* headers_append_key appends a header, for a second fragment of a name    *)
(* too,                                                                    *)
CliHeaderField ==
  /\ Collects("on_header_field")
  /\ response' = [response EXCEPT
                    !.headers = Append(@, [name |-> cp.due[1].data, values |-> <<>>])]

(* and headers_append_value puts ":" and the fragment behind the last one. *)
CliHeaderValue ==
  /\ Collects("on_header_value")
  /\ response' = [response EXCEPT !.headers[Len(response.headers)].values =
                                     Append(@, cp.due[1].data)]

CliBody ==
  /\ Collects("on_body")
  /\ response' = [response EXCEPT !.body = cp.due[1].data]

(* on_message_complete: on_response, from which the application may post   *)
(* or stop; reset_response                                                 *)
CliMessageComplete ==
  /\ CliCall("on_message_complete")
  /\ answers' = Append(answers, [msg |-> s2c[cp.done].msg, code |-> "ok"])
  /\ response' = NoResponse
  /\ \/ Post
     \/ Stop
     \/ UNCHANGED <<c2s, fin, tcp, posts, current, conduct>>

(* on_close frees what the client holds. *)
CliOnClose ==
  /\ Running
  /\ Idle(cp)
  /\ \/ tcp = "closing" /\ tcp' = "closed"
     \/ tcp = "abandoning" /\ tcp' = "abandoned"
  /\ response' = NoResponse
  /\ UNCHANGED <<loopVars, posts, current, cp, answers, conduct>>

CliCallback ==
  \/ CliMessageBegin \/ CliHeaderField \/ CliHeaderValue
  \/ CliBody \/ CliMessageComplete

CliNext ==
  \/ Calls
  \/ OnResolved \/ OnResolvedStopped
  \/ OnConnect \/ OnConnectFailed \/ OnConnectCancelled
  \/ CliRead \/ CliParse \/ CliEof \/ CliCallback
  \/ CliOnClose

=============================================================================
