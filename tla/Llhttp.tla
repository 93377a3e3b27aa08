-------------------------------- MODULE Llhttp --------------------------------
(***************************************************************************)
(* llhttp (src/examples/httprelay/uvlib/llhttp) as uv_httpc.c and          *)
(* uv_httpd.c use it: which callbacks it makes for the pieces of a message *)
(* that arrive in one llhttp_execute.                                      *)
(*                                                                         *)
(* A message is a series of pieces: the start of its first line, two       *)
(* pieces of URL (requests only) and the end of the line, the Connection   *)
(* header (two pieces of name, the colon, two pieces of value and the end  *)
(* of the line), the blank line, and two pieces of body, whose length      *)
(* Content-Length gives.  A read may end between any two pieces.  URL,     *)
(* name, value and body are spans: a callback gets the pieces since the    *)
(* span or the read began, when the span or the read ends.  Other headers  *)
(* are left out, and callbacks that do nothing in either program are not   *)
(* named.                                                                  *)
(***************************************************************************)
EXTENDS Naturals, Sequences

(* What send_request writes for the k-th request, with a Connection header *)
(* of value conn, or without one                                           *)
Request(k, conn) == [msg |-> k, conn |-> conn, url |-> TRUE]

(* What an on_request callback writes in answer to it *)
Response(k) == [msg |-> k, conn |-> "any", url |-> FALSE]

(* The pieces behind which a span goes on *)
SpanPieces == {"url1", "url2", "key1", "key2", "value1", "value2", "body1"}

(* What a parser has consumed last of a message: nothing yet, or a piece   *)
Places == {"start", "line", "eol", "colon", "eoh", "blank"} \cup SpanPieces

(* What follows the first line and the headers *)
Headers(m) == IF m.conn = "none" THEN "blank" ELSE "key1"

(* The piece that follows in the message m *)
After(at, m) ==
  CASE at = "start" -> "line"
    [] at = "line" -> IF m.url THEN "url1" ELSE Headers(m)
    [] at = "url1" -> "url2"
    [] at = "url2" -> "eol"
    [] at = "eol" -> Headers(m)
    [] at = "key1" -> "key2"
    [] at = "key2" -> "colon"
    [] at = "colon" -> "value1"
    [] at = "value1" -> "value2"
    [] at = "value2" -> "eoh"
    [] at = "eoh" -> "blank"
    [] at = "blank" -> "body1"
    [] at = "body1" -> "body2"

-----------------------------------------------------------------------------
(* A parser: how many messages it has consumed (done) and the piece of the *)
(* next one that it consumed last (at), the pieces of the span that this   *)
(* read has brought (frag), the callbacks that are due, whether it is      *)
(* inside llhttp_execute (busy), whether the message said Connection:      *)
(* close (close) and whether one that did is over (closed).  Behind which  *)
(* pieces of a message a read ended is kept for the properties (cut).      *)
(***************************************************************************)
Callback(cb, data) == [cb |-> cb, data |-> data]

CallbackNames ==
  {"on_message_begin", "on_url", "on_header_field", "on_header_value",
   "on_body", "on_message_complete"}

(* The callback of the span that goes on behind a piece *)
SpanCallback(at) ==
  CASE at \in {"url1", "url2"} -> "on_url"
    [] at \in {"key1", "key2"} -> "on_header_field"
    [] at \in {"value1", "value2"} -> "on_header_value"
    [] at = "body1" -> "on_body"

Fragments == {<<>>, <<1>>, <<2>>, <<1, 2>>}

Parser ==
  [done : Nat, at : Places, frag : Fragments,
   due : Seq([cb : CallbackNames, data : Fragments]),
   busy : BOOLEAN, close : BOOLEAN, closed : BOOLEAN, cut : SUBSET SpanPieces]

(* llhttp_init *)
FreshParser ==
  [done |-> 0, at |-> "start", frag |-> <<>>, due |-> <<>>,
   busy |-> FALSE, close |-> FALSE, closed |-> FALSE, cut |-> {}]

(* llhttp_execute is entered. *)
Enter(p) == [p EXCEPT !.busy = TRUE]

KeepsFragment(p, cb) ==   \* mutant: the next span begins with this one
  [p EXCEPT !.due = <<Callback(cb, p.frag)>>]

(* A span ends: its callback gets what this read has brought of it, which  *)
(* may be nothing.                                                         *)
EndSpan(p, cb) == [p EXCEPT !.frag = <<>>, !.due = <<Callback(cb, p.frag)>>]

(* The last piece ends the body and the message. *)
EndMessage(p) ==
  [p EXCEPT !.done = @ + 1, !.at = "start", !.frag = <<>>,
            !.due = <<Callback("on_body", Append(p.frag, 2)),
                      Callback("on_message_complete", <<>>)>>,
            !.closed = p.close, !.close = FALSE]

(* Behind a message with Connection: close, nothing is parsed any more.    *)
Discard(p, at) ==
  IF at = "body2" THEN [p EXCEPT !.done = @ + 1, !.at = "start"]
  ELSE [p EXCEPT !.at = at]

(* The states of llhttp__internal__run that consume the next piece of m    *)
Consume(p, m) ==
  LET at == After(p.at, m)
      q == [p EXCEPT !.at = at]
  IN  CASE p.closed -> Discard(p, at)
        [] ~p.closed /\ at = "line" ->
             [q EXCEPT !.due = <<Callback("on_message_begin", <<>>)>>, !.cut = {}]
        [] ~p.closed /\ at = "eol" -> EndSpan(q, "on_url")
        [] ~p.closed /\ at = "colon" -> EndSpan(q, "on_header_field")
        [] ~p.closed /\ at = "eoh" ->
             [EndSpan(q, "on_header_value") EXCEPT !.close = (m.conn = "close")]
        [] ~p.closed /\ at = "blank" -> q
        [] ~p.closed /\ at = "body2" -> EndMessage(p)
        [] ~p.closed /\ at \in {"url1", "key1", "value1", "body1"} ->
             [q EXCEPT !.frag = Append(@, 1)]
        [] ~p.closed /\ at \in {"url2", "key2", "value2"} ->
             [q EXCEPT !.frag = Append(@, 2)]

InSpan(p) == ~p.closed /\ p.at \in SpanPieces

(* llhttp_execute returns: a span that goes on has its callback for what   *)
(* came with this read, and begins anew with the next.                     *)
Leave(p) ==
  IF InSpan(p)
  THEN [p EXCEPT !.busy = FALSE, !.frag = <<>>, !.cut = @ \cup {p.at},
                 !.due = <<Callback(SpanCallback(p.at), p.frag)>>]
  ELSE [p EXCEPT !.busy = FALSE]

Idle(p) == ~p.busy /\ p.due = <<>>

Parses(p) == p.busy /\ p.due = <<>>

Due(p, cb) == p.due # <<>> /\ p.due[1].cb = cb

Called(p) == [p EXCEPT !.due = Tail(@)]

=============================================================================
