------------------------------- MODULE UvHttpd -------------------------------
(***************************************************************************)
(* uvlib's HTTP server (src/examples/httprelay/uvlib/uv_httpd.c) with one  *)
(* connection: the uv callbacks, the llhttp callbacks that collect a       *)
(* request, and the application's on_request, which answers every request  *)
(* with uv_httpd_write_response as in uv_httpc.c's test.                   *)
(***************************************************************************)
EXTENDS HttpLoop

VARIABLES
  srv,         \* the accepted client's handle: "none", "open", "closing", "closed"
  req,         \* client->req
  sp,          \* client->parser
  handed,      \* the requests on_request was called for
  unsent       \* answers that uv_write has queued

srvVars == <<srv, req, sp, handed, unsent>>

(* url and body as fragments of the request's; of the headers, whether the *)
(* key is all of Connection, and the value's fragment; and whether the key *)
(* of the next header is all of Connection                                 *)
NoRequest == [url |-> <<>>, body |-> <<>>, key |-> FALSE, headers |-> <<>>]

SrvTypeOK ==
  /\ srv \in {"none", "open", "closing", "closed"}
  /\ req \in [url : Fragments, body : Fragments, key : BOOLEAN,
              headers : Seq([key : BOOLEAN, value : Fragments])]
  /\ sp \in Parser
  /\ handed \in Seq(1 .. MaxPosts)
  /\ unsent \in Seq(1 .. MaxPosts)

(* uv_httpd_create, uv_httpd_listen *)
SrvInit ==
  /\ srv = "none"
  /\ req = NoRequest /\ sp = FreshParser
  /\ handed = <<>> /\ unsent = <<>>

-----------------------------------------------------------------------------
(* uv_close closes the socket at once; on_close follows. *)
SrvClose ==
  /\ srv' = "closing"
  /\ fin' = fin \cup {"server"}

(* on_connected: the client's object, its parser and its buffers *)
OnConnected ==
  /\ Running
  /\ listening
  /\ link = "dialled"
  /\ link' = "accepted"
  /\ srv' = "open"
  /\ req' = NoRequest
  /\ sp' = FreshParser
  /\ UNCHANGED <<c2s, s2c, cuts, fin, process, listening, handed, unsent>>

(* uv_httpd_stop, called once; connections that were accepted go on.       *)
StopListening ==
  /\ Running
  /\ listening
  /\ listening' = FALSE
  /\ fin' = IF link = "dialled" THEN fin \cup {"server"} ELSE fin
  /\ UNCHANGED <<c2s, s2c, link, cuts, process, srv, req, sp, handed, unsent>>

(* on_read hands what has arrived, at least one piece, to llhttp_execute,  *)
SrvRead ==
  /\ Running
  /\ srv = "open"
  /\ Idle(sp)
  /\ ParsesNext(Enter(sp), c2s, sp')
  /\ UNCHANGED <<c2s, s2c, link, fin, process, listening, srv, req, handed, unsent>>

(* which parses it, whether or not the handle has been closed meanwhile.   *)
SrvParse ==
  /\ Running
  /\ Parses(sp)
  /\ ParsesNext(sp, c2s, sp') \/ Ends(sp, c2s, sp')
  /\ UNCHANGED <<c2s, s2c, link, fin, process, listening, srv, req, handed, unsent>>

(* on_read, nread < 0: the client has gone.                                *)
SrvEof ==
  /\ Running
  /\ srv = "open"
  /\ Idle(sp)
  /\ "client" \in fin
  /\ SrvClose
  /\ UNCHANGED <<c2s, s2c, link, cuts, process, listening, req, sp, handed, unsent>>

-----------------------------------------------------------------------------
(* The llhttp callbacks *)

SrvCall(cb) ==
  /\ Running
  /\ Due(sp, cb)
  /\ sp' = Called(sp)
  /\ UNCHANGED <<c2s, link, cuts, listening>>

OnMessageBegin ==
  /\ SrvCall("on_message_begin")
  /\ req' = NoRequest
  /\ UNCHANGED <<s2c, fin, process, srv, handed, unsent>>

OnUrl ==
  /\ SrvCall("on_url")
  /\ req' = [req EXCEPT !.url = sp.due[1].data]
  /\ UNCHANGED <<s2c, fin, process, srv, handed, unsent>>

KeepsKey ==   \* mutant: a key is set once
  /\ SrvCall("on_header_field")
  /\ req' = [req EXCEPT !.key = @ \/ sp.due[1].data = <<1, 2>>]
  /\ UNCHANGED <<s2c, fin, process, srv, handed, unsent>>

(* headers_append_key sets the key of the next header: a second fragment   *)
(* of a name takes the place of the first.                                 *)
OnHeaderField ==
  /\ SrvCall("on_header_field")
  /\ req' = [req EXCEPT !.key = (sp.due[1].data = <<1, 2>>)]
  /\ UNCHANGED <<s2c, fin, process, srv, handed, unsent>>

(* headers_append_value completes it: a second fragment of a value         *)
(* makes a header of its own, whose key was not set by this request.       *)
OnHeaderValue ==
  /\ SrvCall("on_header_value")
  /\ req' = [req EXCEPT !.headers = Append(@, [key |-> req.key, value |-> sp.due[1].data]),
                        !.key = FALSE]
  /\ UNCHANGED <<s2c, fin, process, srv, handed, unsent>>

OnBody ==
  /\ SrvCall("on_body")
  /\ req' = [req EXCEPT !.body = sp.due[1].data]
  /\ UNCHANGED <<s2c, fin, process, srv, handed, unsent>>

(* headers_contains(client, "Connection", "keep-alive"), when the client   *)
(* sent conn                                                               *)
KeepsAlive(conn) ==
  /\ conn = "keep-alive"
  /\ \E i \in DOMAIN req.headers :
       req.headers[i].key /\ req.headers[i].value = <<1, 2>>

(* uv_httpd_write_response: the kernel takes the answer, or uv_write       *)
(* queues it, or fails if the handle is closing.                           *)
WriteResponse(k) ==
  \/ /\ srv = "open" /\ unsent = <<>>
     /\ s2c' = Append(s2c, Response(k))
     /\ UNCHANGED unsent
  \/ /\ srv = "open"
     /\ unsent' = Append(unsent, k)
     /\ UNCHANGED s2c
  \/ /\ srv = "closing"
     /\ UNCHANGED <<s2c, unsent>>

KeepsOpen(kept) ==   \* mutant: the connection is left open
  UNCHANGED <<srv, fin, process>>

(* uv_close, when the connection is not to be kept alive *)
CloseAfter(kept) ==
  CASE kept -> UNCHANGED <<srv, fin, process>>
    [] ~kept /\ srv = "open" -> SrvClose /\ UNCHANGED process
    [] OTHER -> process' = "httpd_closed_twice" /\ UNCHANGED <<srv, fin>>

(* on_message_complete: on_request, which answers; uv_close unless the     *)
(* connection is to be kept alive; reset_request                           *)
SrvMessageComplete ==
  /\ SrvCall("on_message_complete")
  /\ LET t == c2s[sp.done]
     IN  /\ handed' = Append(handed, t.msg)
         /\ WriteResponse(t.msg)
         /\ CloseAfter(KeepsAlive(t.conn))
  /\ req' = NoRequest

-----------------------------------------------------------------------------
(* What was queued is written; on_write asserts that it was.               *)
SrvWrite ==
  /\ Running
  /\ srv = "open"
  /\ Idle(sp)
  /\ unsent # <<>>
  /\ unsent' = Tail(unsent)
  /\ \/ /\ s2c' = Append(s2c, Response(Head(unsent)))
        /\ UNCHANGED process
     \/ /\ "client" \in fin
        /\ process' = "httpd_write"
        /\ UNCHANGED s2c
  /\ UNCHANGED <<c2s, link, cuts, fin, listening, srv, req, sp, handed>>

(* on_close, after libuv has called on_write with UV_ECANCELED for what is *)
(* still queued                                                            *)
SrvOnClose ==
  /\ Running
  /\ srv = "closing"
  /\ Idle(sp)
  /\ IF unsent = <<>>
     THEN /\ srv' = "closed"
          /\ UNCHANGED process
     ELSE /\ process' = "httpd_write"
          /\ UNCHANGED srv
  /\ UNCHANGED <<c2s, s2c, link, cuts, fin, listening, req, sp, handed, unsent>>

SrvCallback ==
  \/ OnMessageBegin \/ OnUrl \/ OnHeaderField \/ OnHeaderValue
  \/ OnBody \/ SrvMessageComplete

SrvNext ==
  \/ OnConnected \/ StopListening
  \/ SrvRead \/ SrvParse \/ SrvEof \/ SrvCallback
  \/ SrvWrite \/ SrvOnClose

=============================================================================
