----------------------------- MODULE HttpSession -----------------------------
(***************************************************************************)
(* uvlib's HTTP client and HTTP server talking to each other on one event  *)
(* loop, as in uv_httpc_test_main.  A callback of one runs to its end      *)
(* before one of the other begins, so the parsers are not both busy; what  *)
(* is written arrives in any pieces.                                       *)
(***************************************************************************)
EXTENDS UvHttpd, UvHttpc

vars == <<loopVars, srvVars, cliVars>>

TypeOK == LoopTypeOK /\ SrvTypeOK /\ CliTypeOK

Init == LoopInit /\ SrvInit /\ CliInit

Next ==
  \/ Idle(cp) /\ SrvNext /\ UNCHANGED cliVars
  \/ Idle(sp) /\ CliNext /\ UNCHANGED srvVars

Spec == Init /\ [][Next]_vars

(* The loop runs what is due; the application's calls need not come.       *)
SrvStep == Idle(cp) /\ SrvNext /\ ~StopListening /\ UNCHANGED cliVars
CliStep == Idle(sp) /\ CliNext /\ ~Calls /\ UNCHANGED srvVars
FairSpec == Spec /\ WF_vars(SrvStep) /\ WF_vars(CliStep)

-----------------------------------------------------------------------------
NotCut(p, pieces) == p.cut \cap pieces = {}

(* on_request gets a request whole only if it arrives well cut: url and    *)
(* body are the last fragment llhttp found, which is nothing when a read   *)
(* ended just behind the URL, and keep-alive is seen unless a read ended   *)
(* within the word, or within or just behind the header's name (on_url,    *)
(* on_header_field, on_header_value, on_body, headers_contains).           *)
RequestWhole ==
  Due(sp, "on_message_complete") =>
    LET conn == c2s[sp.done].conn
    IN  /\ req.url = <<1, 2>> <=> NotCut(sp, {"url1", "url2"})
        /\ req.body = <<1, 2>> <=> NotCut(sp, {"body1"})
        /\ KeepsAlive(conn) <=>
             conn = "keep-alive" /\ NotCut(sp, {"key1", "key2", "value1"})

(* on_response gets the body's last fragment, and for every read that      *)
(* ended within a header's name or value, or just behind one of them, one  *)
(* more header, or one more colon (headers_append_key,                     *)
(* headers_append_value, on_body).                                         *)
ResponseWhole ==
  Due(cp, "on_message_complete") =>
    /\ response.headers = <<[name |-> <<1, 2>>, values |-> <<<<1, 2>>>>]>>
         <=> NotCut(cp, {"key1", "key2", "value1", "value2"})
    /\ response.body = <<1, 2>> <=> NotCut(cp, {"body1"})

(* What the cuts of TCP do to the messages of either direction is what     *)
(* these say, and no more.                                                 *)
MessagesWhole == RequestWhole /\ ResponseWhole

(* on_request is called once for every request that was written, in order, *)
(* until the server closes the connection, however the reads cut them      *)
(* (on_read, on_message_begin, on_message_complete).                       *)
HandedOnce ==
  /\ Len(handed) <= Len(c2s)
  /\ \A i \in DOMAIN handed : handed[i] = c2s[i].msg
  /\ Running /\ srv = "open" /\ Idle(sp) /\ ~Unread(sp, c2s) =>
       Len(handed) = Len(c2s)

(* The k-th on_response is the answer to the k-th post, which is how the   *)
(* application tells them apart, unless it posted while the client was     *)
(* connecting; after one with an error there is no other (send_request,    *)
(* on_connect, on_message_complete, generic_on_response).                  *)
AnswersAsPosted ==
  \A i \in DOMAIN answers :
    /\ answers[i].code # "ok" => i = Len(answers)
    /\ answers[i].code = "ok" /\ "early" \notin conduct => answers[i].msg = i

(* What the process can die of: a handle closed twice by the server only   *)
(* if requests were posted before the last one was answered, and by the    *)
(* client only if it was stopped before its connection was up, during the  *)
(* look-up or while connecting; a closed handle connected only if it was   *)
(* stopped during the look-up; a failed write of the server only if the    *)
(* application did not wait for the answer, or if the server closed the    *)
(* connection itself (uv_httpd.c on_message_complete, on_write; uv_httpc.c *)
(* on_resolved, on_connect, uv_httpc_stop).                                *)
DiesOnlyIf ==
  /\ process = "httpd_closed_twice" => "ahead" \in conduct
  /\ process = "httpc_closed_twice" =>
       conduct \cap {"stopped_resolving", "stopped_connecting"} # {}
  /\ process = "httpc_connects_closed" => "stopped_resolving" \in conduct
  /\ process = "httpd_write" => "stopped_waiting" \in conduct \/ "server" \in fin

(* An application that waits for an answer gets one, or an error, unless   *)
(* it stops the client or the process dies: no request is lost between the *)
(* reads and no connection is left open without an answer (on_read,        *)
(* on_message_complete, on_close of both).                                 *)
Waiting ==
  /\ Running
  /\ tcp \in {"resolving", "connecting", "open"}
  /\ posts > Len(answers)

Answered == Waiting ~> ~Waiting

=============================================================================
