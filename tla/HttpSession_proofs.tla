-------------------------- MODULE HttpSession_proofs --------------------------
(***************************************************************************)
(* Theorems about HttpSession and their proofs.                            *)
(*                                                                         *)
(* What a parser has given to its program, and what it still holds, is a   *)
(* function of the place it is at and of the pieces behind which reads     *)
(* ended: ParserInv and Collected say which, for any stream of messages.   *)
(* The rest of the invariant counts messages along the way from a post to  *)
(* its answer: posts, c2s, handed, s2c with unsent, and answers.           *)
(***************************************************************************)
EXTENDS HttpSession, SequenceTheorems, TLAPS

(* The pieces of this message behind which a read may have ended *)
Past(at) ==
  CASE at = "line" -> {}
    [] at = "url1" -> {"url1"}
    [] at \in {"url2", "eol"} -> {"url1", "url2"}
    [] at = "key1" -> {"url1", "url2", "key1"}
    [] at \in {"key2", "colon"} -> {"url1", "url2", "key1", "key2"}
    [] at = "value1" -> {"url1", "url2", "key1", "key2", "value1"}
    [] at \in {"value2", "eoh", "blank"} ->
         {"url1", "url2", "key1", "key2", "value1", "value2"}
    [] at \in {"body1", "start"} -> SpanPieces

(* The fragment that ends with the second piece, if a read ended behind    *)
(* the first one or did not                                                *)
Second(piece, cut) == IF piece \in cut THEN <<2>> ELSE <<1, 2>>

(* The fragment of the callback that is made at a place *)
Brought(at, cut) ==
  CASE at \in {"url1", "key1", "value1", "body1"} -> <<1>>
    [] at = "url2" -> Second("url1", cut)
    [] at = "eol" -> IF "url2" \in cut THEN <<>> ELSE Second("url1", cut)
    [] at = "key2" -> Second("key1", cut)
    [] at = "colon" -> IF "key2" \in cut THEN <<>> ELSE Second("key1", cut)
    [] at = "value2" -> Second("value1", cut)
    [] at = "eoh" -> IF "value2" \in cut THEN <<>> ELSE Second("value1", cut)
    [] at = "start" -> Second("body1", cut)
    [] at \in {"line", "blank"} -> <<>>

(* The fragment that the parser holds at a place *)
Held(at, cut) ==
  IF at \notin SpanPieces \/ at \in cut THEN <<>> ELSE Brought(at, cut)

(* The callback that is made at a place, but at the end of the message *)
CallbackAt(at) ==
  CASE at = "line" -> "on_message_begin"
    [] at \in {"key1", "key2", "colon"} -> "on_header_field"
    [] at \in {"url1", "url2", "eol"} -> "on_url"
    [] at \in {"value1", "value2", "eoh"} -> "on_header_value"
    [] at = "body1" -> "on_body"

Complete == Callback("on_message_complete", <<>>)

DueInv(p) ==
  \/ p.due = <<>>
  \/ /\ p.at \notin {"start", "blank"} /\ ~p.closed
     /\ p.due = <<Callback(CallbackAt(p.at), Brought(p.at, p.cut))>>
  \/ /\ p.at = "start" /\ p.done > 0
     /\ \/ p.due = <<Callback("on_body", Brought("start", p.cut)), Complete>>
        \/ p.due = <<Complete>>

(* A message is over and has not been handed to the program yet. *)
Ended(p) == p.at = "start" /\ p.due # <<>>

(* The message that is being parsed, or that is over *)
Current(p, stream) == IF p.at = "start" THEN stream[p.done] ELSE stream[p.done + 1]

ParserInv(p, stream) ==
  /\ p.done <= Len(stream)
  /\ p.at # "start" => p.done < Len(stream)
  /\ p.at \in {"key1", "key2", "colon", "value1", "value2", "eoh"} =>
       stream[p.done + 1].conn # "none"
  /\ p.at \in {"url1", "url2", "eol"} => stream[p.done + 1].url
  /\ p.closed => p.frag = <<>> /\ ~p.close
  /\ ~p.closed =>
       /\ p.cut \subseteq Past(p.at)
       /\ p.frag = Held(p.at, p.cut)
       /\ p.close <=> /\ p.at \in {"eoh", "blank", "body1"}
                      /\ stream[p.done + 1].conn = "close"
  /\ p.closed /\ Ended(p) => stream[p.done].conn = "close"
  /\ DueInv(p)

(* While the parser is busy, no read has ended behind the last piece. *)
Going(p) == p.busy /\ ~p.closed => p.at \notin p.cut

(* No read has ended within the header's name or just behind it. *)
Named(cut) == "key1" \notin cut /\ "key2" \notin cut

(* The fragments of the header's value that the program has been given     *)
GivenAtOne(cut) == IF "value1" \in cut THEN <<<<1>>>> ELSE <<>>
GivenAtTwo(cut) ==
  IF "value2" \in cut THEN Append(GivenAtOne(cut), Second("value1", cut))
  ELSE GivenAtOne(cut)
GivenAtEnd(cut) == Append(GivenAtTwo(cut), Brought("eoh", cut))

Given(at, cut) ==
  CASE at = "colon" -> <<>>
    [] at = "value1" -> GivenAtOne(cut)
    [] at = "value2" -> GivenAtTwo(cut)
    [] at \in {"eoh", "blank", "body1", "start"} -> GivenAtEnd(cut)

(* Whether the message has a header by then, with all of its name *)
HeaderAt(at, m) ==
  \/ at \in {"colon", "value1", "value2", "eoh"}
  \/ at \in {"blank", "body1", "start"} /\ m.conn # "none"

(* The request shows these fragments as values, of which only the first    *)
(* has its key, if its name came whole.                                    *)
Shows(r, given, cut) ==
  /\ r.key <=> given = <<>> /\ Named(cut)
  /\ Len(r.headers) = Len(given)
  /\ \A i \in 1 .. Len(given) :
       r.headers[i].value = given[i] /\ (r.headers[i].key <=> i = 1 /\ Named(cut))

(* Whether the next header's key is all of Connection before the colon     *)
KeyAt(at, cut) == at = "key2" /\ "key2" \in cut /\ "key1" \notin cut

(* What the server has collected of the request m *)
Collected(r, at, cut, m) ==
  /\ at \notin {"line", "url1", "url2"} => r.url = Brought("eol", cut)
  /\ IF HeaderAt(at, m) THEN Shows(r, Given(at, cut), cut)
     ELSE r.headers = <<>> /\ (r.key <=> KeyAt(at, cut))
  /\ at = "start" => r.body = Brought("start", cut)

(* on_header_value completes the next header with a fragment. *)
AddsValue(r, data) ==
  [r EXCEPT !.headers = Append(@, [key |-> r.key, value |-> data]), !.key = FALSE]

(* The request when the callback that is due has been made *)
Noted(r, due) ==
  IF due = <<>> THEN r
  ELSE CASE due[1].cb = "on_message_begin" -> NoRequest
         [] due[1].cb = "on_url" -> [r EXCEPT !.url = due[1].data]
         [] due[1].cb = "on_header_field" -> [r EXCEPT !.key = (due[1].data = <<1, 2>>)]
         [] due[1].cb = "on_header_value" -> AddsValue(r, due[1].data)
         [] due[1].cb = "on_body" -> [r EXCEPT !.body = due[1].data]
         [] due[1].cb = "on_message_complete" -> r

(* The same of the client and its response: the headers that reads which   *)
(* ended within the name or just behind it have made, and the last one     *)
Header(name, values) == [name |-> name, values |-> values]

MadeAtOne(cut) == IF "key1" \in cut THEN <<Header(<<1>>, <<>>)>> ELSE <<>>
MadeAtTwo(cut) ==
  IF "key2" \in cut THEN Append(MadeAtOne(cut), Header(Second("key1", cut), <<>>))
  ELSE MadeAtOne(cut)

Made(at, cut, m) ==
  CASE at = "key1" -> MadeAtOne(cut)
    [] at = "key2" -> MadeAtTwo(cut)
    [] HeaderAt(at, m) ->
         Append(MadeAtTwo(cut), Header(Brought("colon", cut), Given(at, cut)))
    [] OTHER -> <<>>

CollectedBy(r, at, cut, m) ==
  /\ r.headers = Made(at, cut, m)
  /\ at = "start" => r.body = Brought("start", cut)

AddsHeader(r, data) ==
  [r EXCEPT !.headers = Append(@, [name |-> data, values |-> <<>>])]

AddsPart(r, data) ==
  [r EXCEPT !.headers[Len(r.headers)].values = Append(@, data)]

NotedBy(r, due) ==
  IF due = <<>> THEN r
  ELSE CASE due[1].cb = "on_message_begin" -> NoResponse
         [] due[1].cb = "on_url" -> r
         [] due[1].cb = "on_header_field" -> AddsHeader(r, due[1].data)
         [] due[1].cb = "on_header_value" -> AddsPart(r, due[1].data)
         [] due[1].cb = "on_body" -> [r EXCEPT !.body = due[1].data]
         [] due[1].cb = "on_message_complete" -> r

(* Something of a message has been collected. *)
Collecting(p) == Ended(p) \/ (p.at # "start" /\ ~p.closed)

Fits(r, p, stream) ==
  Collecting(p) => Collected(Noted(r, p.due), p.at, p.cut, Current(p, stream))

FitsBy(r, p, stream) ==
  Collecting(p) => CollectedBy(NotedBy(r, p.due), p.at, p.cut, Current(p, stream))

RequestInv == Fits(req, sp, c2s)

ResponseInv == tcp # "closed" => FitsBy(response, cp, s2c)

-----------------------------------------------------------------------------
(* The messages that have been handed over *)
Over(p) == IF Ended(p) THEN p.done - 1 ELSE p.done

HandedInv ==
  /\ Len(handed) <= Over(sp)
  /\ ~sp.closed \/ Ended(sp) => Len(handed) = Over(sp)
  /\ \A i \in 1 .. Len(handed) : handed[i] = c2s[i].msg

RepliesInv ==
  /\ Len(s2c) <= Len(handed)
  /\ \A i \in 1 .. Len(s2c) : s2c[i].msg = handed[i]
  /\ Running =>
       /\ Len(s2c) + Len(unsent) <= Len(handed)
       /\ srv = "open" => Len(s2c) + Len(unsent) = Len(handed)
       /\ \A i \in 1 .. Len(unsent) : unsent[i] = handed[Len(s2c) + i]

ServerInv ==
  /\ srv = "none" <=> link # "accepted"
  /\ srv = "none" => sp = FreshParser
  /\ sp.closed /\ ~Ended(sp) => srv # "open"
  /\ srv \in {"closing", "closed"} => "server" \in fin

(* The server has closed, and still parses what it has read. *)
ClosedWhileParsing == srv \notin {"none", "open"} /\ ~Idle(sp)

AheadInv ==
  "ahead" \notin conduct =>
    /\ posts <= Over(cp) + 1
    /\ ClosedWhileParsing => ~Unread(sp, c2s) /\ ~Ended(sp)

PostsInv ==
  /\ current.msg = posts
  /\ Len(c2s) <= posts
  /\ tcp \in {"init", "open"} => Len(c2s) = posts
  /\ tcp \in {"resolving", "connecting"} => posts = Len(c2s) + 1
  /\ "early" \notin conduct => \A i \in 1 .. Len(c2s) : c2s[i].msg = i

ClientInv ==
  /\ tcp \in {"init", "resolving", "connecting", "cancelling", "abandoning", "abandoned"} =>
       cp = FreshParser /\ link = "none" /\ answers = <<>>
  /\ tcp = "cancelling" => "stopped_connecting" \in conduct
  /\ tcp \in {"abandoning", "abandoned"} => "stopped_resolving" \in conduct
  /\ "client" \in fin <=>
       tcp \in {"cancelling", "abandoning", "abandoned", "closing", "closed"}
  /\ tcp = "closed" => Idle(cp)
  /\ ~cp.closed

(* Only after an error is the last answer none of a message. *)
Failed == \E i \in 1 .. Len(answers) : answers[i].code # "ok"

AnswersInv ==
  /\ Failed => tcp \in {"closing", "closed"} /\ Idle(cp)
  /\ ~Failed => Len(answers) = Over(cp)
  /\ \A i \in 1 .. Len(answers) :
       IF answers[i].code = "ok"
       THEN i <= Over(cp) /\ answers[i].msg = s2c[i].msg
       ELSE i = Len(answers)

(* Why the client has closed *)
CloseInv ==
  "client" \in fin =>
    \/ "stopped_waiting" \in conduct
    \/ "server" \in fin
    \/ link = "none"
    \/ Len(c2s) <= Len(s2c)

IInv ==
  /\ TypeOK
  /\ ParserInv(sp, c2s) /\ Going(sp)
  /\ ParserInv(cp, s2c) /\ Going(cp)
  /\ RequestInv /\ ResponseInv
  /\ HandedInv /\ RepliesInv /\ ServerInv
  /\ AheadInv /\ PostsInv /\ ClientInv /\ AnswersInv /\ CloseInv
  /\ DiesOnlyIf

-----------------------------------------------------------------------------
(* The parser. *)

Message == [msg : Nat, conn : {"none", "close", "keep-alive", "any"}, url : BOOLEAN]

LEMMA AppendToEmpty == \A x : Append(<<>>, x) = <<x>>
OBVIOUS

LEMMA AppendToOne == Append(<<1>>, 2) = <<1, 2>>
<1>1. <<1, 2>> \in Seq(Nat) /\ Append(<<1>>, 2) \in Seq(Nat)
  OBVIOUS
<1>2. Len(Append(<<1>>, 2)) = 2 /\ Len(<<1, 2>>) = 2
  OBVIOUS
<1>3. \A i \in 1 .. 2 : Append(<<1>>, 2)[i] = <<1, 2>>[i]
  OBVIOUS
<1> QED BY <1>1, <1>2, <1>3, SeqEqual, Zenon

LEMMA BroughtType ==
  ASSUME NEW at \in Places, NEW cut
  PROVE  Brought(at, cut) \in Fragments
BY DEF Places, SpanPieces, Brought, Second, Fragments

(* A record with the fields of a parser *)
Fields(q) ==
  [done |-> q.done, at |-> q.at, frag |-> q.frag, due |-> q.due,
   busy |-> q.busy, close |-> q.close, closed |-> q.closed, cut |-> q.cut]

(* q is the parser p, still parsing, when it has consumed the piece at of  *)
(* the message m.                                                          *)
Consumed(p, q, at, m) ==
  /\ q = Fields(q)
  /\ q.busy = p.busy
  /\ at # "body2" => q.done = p.done /\ q.at = at /\ q.closed = FALSE
  /\ at = "body2" => /\ q.done = p.done + 1 /\ q.at = "start" /\ q.frag = <<>>
                     /\ q.due = <<Callback("on_body", Append(p.frag, 2)), Complete>>
                     /\ q.closed = p.close /\ q.close = FALSE
  /\ at = "line" => /\ q.due = <<Callback("on_message_begin", <<>>)>>
                    /\ q.cut = {} /\ q.frag = p.frag
  /\ at # "line" => q.cut = p.cut
  /\ at = "colon" => /\ q.due = <<Callback("on_header_field", p.frag)>>
                     /\ q.frag = <<>>
  /\ at = "eol" => /\ q.due = <<Callback("on_url", p.frag)>>
                   /\ q.frag = <<>>
  /\ at = "eoh" => /\ q.due = <<Callback("on_header_value", p.frag)>>
                   /\ q.frag = <<>> /\ q.close = (m.conn = "close")
  /\ at \notin {"eoh", "body2"} => q.close = p.close
  /\ at = "blank" => q.due = p.due /\ q.frag = p.frag
  /\ at \in {"url1", "key1", "value1", "body1"} =>
       q.due = p.due /\ q.frag = Append(p.frag, 1)
  /\ at \in {"url2", "key2", "value2"} =>
       q.due = p.due /\ q.frag = Append(p.frag, 2)

LEMMA ConsumeIs ==
  ASSUME NEW p \in Parser, ~p.closed, NEW m
  PROVE  Consumed(p, Consume(p, m), After(p.at, m), m)
<1> SUFFICES ASSUME NEW q, q = Consume(p, m), NEW at, at = After(p.at, m)
             PROVE  Consumed(p, q, at, m)
  OBVIOUS
<1> USE DEF Parser, Fields, Consumed
<1>1. CASE at = "line"
  <2>1. q = [p EXCEPT !.at = at, !.due = <<Callback("on_message_begin", <<>>)>>, !.cut = {}]
    BY <1>1 DEF Consume
  <2> QED BY <1>1, <2>1
<1>2. CASE at = "colon"
  <2>1. PICK r : r = [p EXCEPT !.at = at]
    OBVIOUS
  <2>2. q = [r EXCEPT !.frag = <<>>, !.due = <<Callback("on_header_field", r.frag)>>]
    BY <1>2, <2>1 DEF Consume, EndSpan
  <2> QED BY <1>2, <2>1, <2>2
<1>3. CASE at = "eol"
  <2>1. PICK r : r = [p EXCEPT !.at = at]
    OBVIOUS
  <2>2. q = [r EXCEPT !.frag = <<>>, !.due = <<Callback("on_url", r.frag)>>]
    BY <1>3, <2>1 DEF Consume, EndSpan
  <2> QED BY <1>3, <2>1, <2>2
<1>4. CASE at = "eoh"
  <2>1. PICK r : r = [p EXCEPT !.at = at]
    OBVIOUS
  <2>2. PICK e : e = [r EXCEPT !.frag = <<>>, !.due = <<Callback("on_header_value", r.frag)>>]
    OBVIOUS
  <2>3. q = [e EXCEPT !.close = (m.conn = "close")]
    BY <1>4, <2>1, <2>2 DEF Consume, EndSpan
  <2> QED BY <1>4, <2>1, <2>2, <2>3
<1>5. CASE at = "blank"
  <2>1. q = [p EXCEPT !.at = at]
    BY <1>5 DEF Consume
  <2> QED BY <1>5, <2>1
<1>6. CASE at = "body2"
  <2>1. q = EndMessage(p)
    BY <1>6 DEF Consume
  <2> QED BY <1>6, <2>1 DEF EndMessage, Complete
<1>7. CASE at \in {"url1", "key1", "value1", "body1"}
  <2>1. q = [[p EXCEPT !.at = at] EXCEPT !.frag = Append(@, 1)]
    BY <1>7 DEF Consume
  <2> QED BY <1>7, <2>1
<1>8. CASE at \in {"url2", "key2", "value2"}
  <2>1. q = [[p EXCEPT !.at = at] EXCEPT !.frag = Append(@, 2)]
    BY <1>8 DEF Consume
  <2> QED BY <1>8, <2>1
<1>9. at \in {"line", "colon", "eol", "eoh", "blank", "body2", "url1", "key1",
              "value1", "body1", "url2", "key2", "value2"}
  BY DEF After, Headers, Places, SpanPieces
<1> QED BY <1>1, <1>2, <1>3, <1>4, <1>5, <1>6, <1>7, <1>8, <1>9

(* The piece that follows *)
LEMMA AfterIs ==
  ASSUME NEW at \in Places, NEW m
  PROVE  /\ at = "start" <=> After(at, m) = "line"
         /\ at = "url1" <=> After(at, m) = "url2"
         /\ at = "url2" <=> After(at, m) = "eol"
         /\ at = "line" /\ m.url <=> After(at, m) = "url1"
         /\ After(at, m) = "key1" => at \in {"line", "eol"} /\ m.conn # "none"
         /\ After(at, m) = "blank" => \/ at \in {"line", "eol"} /\ m.conn = "none"
                                     \/ at = "eoh"
         /\ at = "key1" <=> After(at, m) = "key2"
         /\ at = "key2" <=> After(at, m) = "colon"
         /\ at = "colon" <=> After(at, m) = "value1"
         /\ at = "value1" <=> After(at, m) = "value2"
         /\ at = "value2" <=> After(at, m) = "eoh"
         /\ at = "blank" <=> After(at, m) = "body1"
         /\ at = "body1" <=> After(at, m) = "body2"
         /\ After(at, m) \in {"line", "colon", "eol", "eoh", "blank", "body2", "url1",
                             "key1", "value1", "body1", "url2", "key2", "value2"}
BY DEF After, Headers, Places, SpanPieces

(* How a parser that still parses goes from piece to piece of m *)
Moves(p, q, m) ==
  \/ /\ p.at = "start" /\ q.at = "line" /\ q.cut = {}
     /\ q.due = <<Callback("on_message_begin", <<>>)>>
  \/ /\ q.cut = p.cut /\ q.due = <<>>
     /\ \/ p.at = "line" /\ q.at = "url1"
        \/ p.at = "url1" /\ q.at = "url2"
        \/ /\ p.at = "eol" \/ (p.at = "line" /\ ~m.url)
           /\ m.conn # "none" /\ q.at = "key1"
        \/ p.at = "key1" /\ q.at = "key2"
        \/ p.at = "colon" /\ q.at = "value1"
        \/ p.at = "value1" /\ q.at = "value2"
        \/ /\ \/ p.at = "eoh" /\ m.conn # "none"
              \/ p.at = "eol" /\ m.conn = "none"
              \/ p.at = "line" /\ ~m.url /\ m.conn = "none"
           /\ q.at = "blank"
        \/ p.at = "blank" /\ q.at = "body1"
  \/ /\ q.cut = p.cut
     /\ p.at = "url2" /\ q.at = "eol"
     /\ q.due = <<Callback("on_url", Brought("eol", p.cut))>>
  \/ /\ q.cut = p.cut
     /\ p.at = "key2" /\ q.at = "colon"
     /\ q.due = <<Callback("on_header_field", Brought("colon", p.cut))>>
  \/ /\ q.cut = p.cut
     /\ p.at = "value2" /\ q.at = "eoh"
     /\ q.due = <<Callback("on_header_value", Brought("eoh", p.cut))>>
  \/ /\ q.cut = p.cut
     /\ p.at = "body1" /\ q.at = "start" /\ q.done = p.done + 1
     /\ q.due = <<Callback("on_body", Brought("start", p.cut)), Complete>>

(* What makes a parser of a record *)
LEMMA IsParser ==
  ASSUME NEW q, q = Fields(q), q.done \in Nat, q.at \in Places, q.frag \in Fragments,
         DueInv(q), q.busy \in BOOLEAN, q.close \in BOOLEAN, q.closed \in BOOLEAN,
         q.cut \subseteq SpanPieces
  PROVE  q \in Parser
<1>1. q.due \in Seq([cb : CallbackNames, data : Fragments])
  <2>1. CASE q.due = <<>>
    BY <2>1
  <2>2. CASE /\ q.at \notin {"start", "blank"}
             /\ q.due = <<Callback(CallbackAt(q.at), Brought(q.at, q.cut))>>
    <3>1. Brought(q.at, q.cut) \in Fragments
      BY BroughtType
    <3>2. CallbackAt(q.at) \in CallbackNames
      BY <2>2 DEF CallbackAt, CallbackNames, Places, SpanPieces
    <3> QED BY <2>2, <3>1, <3>2 DEF Callback
  <2>3. CASE \/ q.due = <<Callback("on_body", Brought("start", q.cut)), Complete>>
             \/ q.due = <<Complete>>
    <3>1. "start" \in Places /\ <<>> \in Fragments
      BY DEF Places, Fragments
    <3>2. Brought("start", q.cut) \in Fragments
      BY <3>1, BroughtType
    <3>3. Complete \in [cb : CallbackNames, data : Fragments]
      BY <3>1 DEF Callback, Complete, CallbackNames
    <3>4. Callback("on_body", Brought("start", q.cut)) \in [cb : CallbackNames, data : Fragments]
      BY <3>2 DEF Callback, CallbackNames
    <3>5. \A S : \A x, y \in S : <<x>> \in Seq(S) /\ <<x, y>> \in Seq(S)
      OBVIOUS
    <3> QED BY <2>3, <3>3, <3>4, <3>5, Zenon
  <2> QED BY <2>1, <2>2, <2>3 DEF DueInv
<1> QED BY <1>1 DEF Fields, Parser

(* The parser consumes the next piece. *)
LEMMA ConsumeKeeps ==
  ASSUME NEW p \in Parser, NEW stream \in Seq(Message), ParserInv(p, stream),
         p.due = <<>>, Unread(p, stream), NEW q, q = Consume(p, stream[p.done + 1])
  PROVE  /\ q \in Parser /\ ParserInv(q, stream) /\ Going(q)
         /\ q.busy = p.busy
         /\ p.closed => q.due = <<>> /\ q.closed /\ p.done <= q.done
         /\ ~p.closed => /\ Over(q) = p.done
                         /\ q.closed => Ended(q)
                         /\ q.at # "start" => q.done = p.done
                         /\ Moves(p, q, stream[p.done + 1])
<1>1. PICK m \in Message : m = stream[p.done + 1] /\ q = Consume(p, m)
  BY DEF Unread, Parser
<1>2. PICK at : at = After(p.at, m)
  OBVIOUS
<1>3. p.at \in Places /\ p.done \in Nat /\ p.frag \in Fragments
  BY DEF Parser
<1>4. CASE p.closed
  <2>1. CASE at # "body2"
    <3>1. q = [p EXCEPT !.at = at]
      BY <1>1, <1>2, <1>4, <2>1 DEF Consume, Discard
    <3>2. at \in Places \ {"start"}
      BY <1>2, <1>3, <2>1, AfterIs DEF Places, SpanPieces
    <3>3. q \in Parser
      BY <3>1, <3>2 DEF Parser
    <3>4. /\ at \in {"key1", "key2", "colon", "value1", "value2", "eoh"} => m.conn # "none"
          /\ at \in {"url1", "url2", "eol"} => m.url
      BY <1>1, <1>2, <1>3, AfterIs DEF ParserInv
    <3>5. ParserInv(q, stream) /\ Going(q)
      BY <1>1, <1>4, <3>1, <3>2, <3>4 DEF ParserInv, Parser, Going, Ended, DueInv, Unread
    <3> QED BY <1>4, <3>1, <3>3, <3>5 DEF Parser
  <2>2. CASE at = "body2"
    <3>1. q = [p EXCEPT !.done = p.done + 1, !.at = "start"]
      BY <1>1, <1>2, <1>4, <2>2 DEF Consume, Discard
    <3>2. q \in Parser
      <4>1. "start" \in Places /\ p.done + 1 \in Nat
        BY <1>3 DEF Places
      <4> QED BY <3>1, <4>1 DEF Parser
    <3>3. ParserInv(q, stream) /\ Going(q)
      BY <1>1, <1>4, <3>1 DEF ParserInv, Parser, Going, Ended, DueInv, Unread
    <3> QED BY <1>4, <3>1, <3>2, <3>3 DEF Parser
  <2> QED BY <2>1, <2>2
<1>5. CASE ~p.closed
  <2>1. Consumed(p, q, at, m)
    BY <1>1, <1>2, <1>5, ConsumeIs
  <2>2. /\ p.at # "start" => p.done < Len(stream)
        /\ p.cut \subseteq Past(p.at)
        /\ p.frag = Held(p.at, p.cut)
        /\ p.close <=> p.at \in {"eoh", "blank", "body1"} /\ m.conn = "close"
        /\ p.at \in {"key1", "key2", "colon", "value1", "value2", "eoh"} => m.conn # "none"
        /\ p.at \in {"url1", "url2", "eol"} => m.url
    BY <1>1, <1>5 DEF ParserInv
  <2>3. p.done + 1 \in 1 .. Len(stream) /\ p.done < Len(stream)
    BY <1>3 DEF Unread
  <2> DEFINE Parsed == /\ ParserInv(q, stream) /\ Going(q)
                        /\ Over(q) = p.done /\ (q.closed => Ended(q))
                       /\ (q.at # "start" => q.done = p.done) /\ Moves(p, q, m)
                        /\ q.at \in Places /\ q.frag \in Fragments /\ q.done \in Nat
                        /\ q.close \in BOOLEAN /\ q.closed \in BOOLEAN
  <2>4. ASSUME at = "line"
        PROVE  Parsed
    <3>1. p.at = "start"
      BY <1>2, <1>3, <2>4 DEF After, Headers, Places, SpanPieces
    <3>3. q.cut = {} /\ q.cut \subseteq Past("line") /\ "line" \notin q.cut
      BY <2>1, <2>2, <2>4, <3>1 DEF Consumed, Past, SpanPieces
    <3>4. /\ q.at = "line" /\ q.done = p.done
          /\ q.frag = Held("line", q.cut) /\ q.due = <<Callback("on_message_begin", <<>>)>>
          /\ q.close = FALSE /\ q.closed = FALSE
      BY <1>3, <1>5, <2>1, <2>2, <2>4, <3>1, <3>3 DEF Consumed, Held, Brought, Second, SpanPieces, Parser
    <3>5. DueInv(q)
      BY <3>3, <3>4 DEF DueInv, CallbackAt, Brought
    <3>6. ParserInv(q, stream) /\ Going(q)
      BY <1>1, <2>2, <2>3, <3>1, <3>3, <3>4, <3>5 DEF ParserInv, Ended, Going
    <3>7. Held("line", q.cut) \in Fragments
      BY DEF Held, Brought, Second, SpanPieces, Fragments
    <3>8. Moves(p, q, m)
      BY <3>1, <3>3, <3>4 DEF Moves
    <3> QED BY <1>3, <3>4, <3>6, <3>7, <3>8 DEF Over, Ended, Places, SpanPieces
  <2>5. ASSUME at = "url1"
        PROVE  Parsed
    <3>1. p.at = "line" /\ m.url
      BY <1>2, <1>3, <2>5 DEF After, Headers, Places, SpanPieces
    <3>2. Append(p.frag, 1) = <<1>>
      BY <2>2, <3>1, AppendToEmpty DEF Held, SpanPieces
    <3>3. q.cut = p.cut /\ q.cut \subseteq Past("url1") /\ "url1" \notin q.cut
      BY <2>1, <2>2, <2>5, <3>1 DEF Consumed, Past, SpanPieces
    <3>4. /\ q.at = "url1" /\ q.done = p.done
          /\ q.frag = Held("url1", q.cut) /\ q.due = <<>>
          /\ q.close = FALSE /\ q.closed = FALSE
      BY <1>3, <1>5, <2>1, <2>2, <2>5, <3>1, <3>2, <3>3 DEF Consumed, Held, Brought, Second, SpanPieces, Parser
    <3>5. DueInv(q)
      BY <3>3, <3>4 DEF DueInv, CallbackAt, Brought
    <3>6. ParserInv(q, stream) /\ Going(q)
      BY <1>1, <2>2, <2>3, <3>1, <3>3, <3>4, <3>5 DEF ParserInv, Ended, Going
    <3>7. Held("url1", q.cut) \in Fragments
      BY DEF Held, Brought, Second, SpanPieces, Fragments
    <3>8. Moves(p, q, m)
      BY <3>1, <3>3, <3>4 DEF Moves
    <3> QED BY <1>3, <3>4, <3>6, <3>7, <3>8 DEF Over, Ended, Places, SpanPieces
  <2>6. ASSUME at = "url2"
        PROVE  Parsed
    <3>1. p.at = "url1"
      BY <1>2, <1>3, <2>6 DEF After, Headers, Places, SpanPieces
    <3>2. Append(p.frag, 2) = Held("url2", p.cut)
      <4>1. "url2" \notin p.cut
        BY <2>2, <3>1 DEF Past
      <4> QED BY <2>2, <3>1, <4>1, AppendToEmpty, AppendToOne DEF Held, Brought, Second, SpanPieces
    <3>3. q.cut = p.cut /\ q.cut \subseteq Past("url2") /\ "url2" \notin q.cut
      BY <2>1, <2>2, <2>6, <3>1 DEF Consumed, Past, SpanPieces
    <3>4. /\ q.at = "url2" /\ q.done = p.done
          /\ q.frag = Held("url2", q.cut) /\ q.due = <<>>
          /\ q.close = FALSE /\ q.closed = FALSE
      BY <1>3, <1>5, <2>1, <2>2, <2>6, <3>1, <3>2, <3>3 DEF Consumed, Held, Brought, Second, SpanPieces, Parser
    <3>5. DueInv(q)
      BY <3>3, <3>4 DEF DueInv, CallbackAt, Brought
    <3>6. ParserInv(q, stream) /\ Going(q)
      BY <1>1, <2>2, <2>3, <3>1, <3>3, <3>4, <3>5 DEF ParserInv, Ended, Going
    <3>7. Held("url2", q.cut) \in Fragments
      BY DEF Held, Brought, Second, SpanPieces, Fragments
    <3>8. Moves(p, q, m)
      BY <3>1, <3>3, <3>4 DEF Moves
    <3> QED BY <1>3, <3>4, <3>6, <3>7, <3>8 DEF Over, Ended, Places, SpanPieces
  <2>7. ASSUME at = "eol"
        PROVE  Parsed
    <3>1. p.at = "url2"
      BY <1>2, <1>3, <2>7 DEF After, Headers, Places, SpanPieces
    <3>3. q.cut = p.cut /\ q.cut \subseteq Past("eol") /\ "eol" \notin q.cut
      BY <2>1, <2>2, <2>7, <3>1 DEF Consumed, Past, SpanPieces
    <3>4. /\ q.at = "eol" /\ q.done = p.done
          /\ q.frag = Held("eol", q.cut) /\ q.due = <<Callback("on_url", Brought("eol", p.cut))>>
          /\ q.close = FALSE /\ q.closed = FALSE
      BY <1>3, <1>5, <2>1, <2>2, <2>7, <3>1, <3>3 DEF Consumed, Held, Brought, Second, SpanPieces, Parser
    <3>5. DueInv(q)
      BY <3>3, <3>4 DEF DueInv, CallbackAt, Brought
    <3>6. ParserInv(q, stream) /\ Going(q)
      BY <1>1, <2>2, <2>3, <3>1, <3>3, <3>4, <3>5 DEF ParserInv, Ended, Going
    <3>7. Held("eol", q.cut) \in Fragments
      BY DEF Held, Brought, Second, SpanPieces, Fragments
    <3>8. Moves(p, q, m)
      BY <3>1, <3>3, <3>4 DEF Moves
    <3> QED BY <1>3, <3>4, <3>6, <3>7, <3>8 DEF Over, Ended, Places, SpanPieces
  <2>8. ASSUME at = "key1"
        PROVE  Parsed
    <3>1. (p.at = "eol" \/ (p.at = "line" /\ ~m.url)) /\ m.conn # "none"
      BY <1>2, <1>3, <2>2, <2>8 DEF After, Headers, Places, SpanPieces
    <3>2. Append(p.frag, 1) = <<1>>
      BY <2>2, <3>1, AppendToEmpty DEF Held, SpanPieces
    <3>3. q.cut = p.cut /\ q.cut \subseteq Past("key1") /\ "key1" \notin q.cut
      BY <2>1, <2>2, <2>8, <3>1 DEF Consumed, Past, SpanPieces
    <3>4. /\ q.at = "key1" /\ q.done = p.done
          /\ q.frag = Held("key1", q.cut) /\ q.due = <<>>
          /\ q.close = FALSE /\ q.closed = FALSE
      BY <1>3, <1>5, <2>1, <2>2, <2>8, <3>1, <3>2, <3>3 DEF Consumed, Held, Brought, Second, SpanPieces, Parser
    <3>5. DueInv(q)
      BY <3>3, <3>4 DEF DueInv, CallbackAt, Brought
    <3>6. ParserInv(q, stream) /\ Going(q)
      BY <1>1, <2>2, <2>3, <3>1, <3>3, <3>4, <3>5 DEF ParserInv, Ended, Going
    <3>7. Held("key1", q.cut) \in Fragments
      BY DEF Held, Brought, Second, SpanPieces, Fragments
    <3>8. Moves(p, q, m)
      BY <3>1, <3>3, <3>4 DEF Moves
    <3> QED BY <1>3, <3>4, <3>6, <3>7, <3>8 DEF Over, Ended, Places, SpanPieces
  <2>9. ASSUME at = "key2"
        PROVE  Parsed
    <3>1. p.at = "key1"
      BY <1>2, <1>3, <2>9 DEF After, Headers, Places, SpanPieces
    <3>2. Append(p.frag, 2) = Held("key2", p.cut)
      <4>1. "key2" \notin p.cut
        BY <2>2, <3>1 DEF Past
      <4> QED BY <2>2, <3>1, <4>1, AppendToEmpty, AppendToOne DEF Held, Brought, Second, SpanPieces
    <3>3. q.cut = p.cut /\ q.cut \subseteq Past("key2") /\ "key2" \notin q.cut
      BY <2>1, <2>2, <2>9, <3>1 DEF Consumed, Past, SpanPieces
    <3>4. /\ q.at = "key2" /\ q.done = p.done
          /\ q.frag = Held("key2", q.cut) /\ q.due = <<>>
          /\ q.close = FALSE /\ q.closed = FALSE
      BY <1>3, <1>5, <2>1, <2>2, <2>9, <3>1, <3>2, <3>3 DEF Consumed, Held, Brought, Second, SpanPieces, Parser
    <3>5. DueInv(q)
      BY <3>3, <3>4 DEF DueInv, CallbackAt, Brought
    <3>6. ParserInv(q, stream) /\ Going(q)
      BY <1>1, <2>2, <2>3, <3>1, <3>3, <3>4, <3>5 DEF ParserInv, Ended, Going
    <3>7. Held("key2", q.cut) \in Fragments
      BY DEF Held, Brought, Second, SpanPieces, Fragments
    <3>8. Moves(p, q, m)
      BY <3>1, <3>3, <3>4 DEF Moves
    <3> QED BY <1>3, <3>4, <3>6, <3>7, <3>8 DEF Over, Ended, Places, SpanPieces
  <2>10. ASSUME at = "colon"
        PROVE  Parsed
    <3>1. p.at = "key2"
      BY <1>2, <1>3, <2>10 DEF After, Headers, Places, SpanPieces
    <3>3. q.cut = p.cut /\ q.cut \subseteq Past("colon") /\ "colon" \notin q.cut
      BY <2>1, <2>2, <2>10, <3>1 DEF Consumed, Past, SpanPieces
    <3>4. /\ q.at = "colon" /\ q.done = p.done
          /\ q.frag = Held("colon", q.cut) /\ q.due = <<Callback("on_header_field", Brought("colon", p.cut))>>
          /\ q.close = FALSE /\ q.closed = FALSE
      BY <1>3, <1>5, <2>1, <2>2, <2>10, <3>1, <3>3 DEF Consumed, Held, Brought, Second, SpanPieces, Parser
    <3>5. DueInv(q)
      BY <3>3, <3>4 DEF DueInv, CallbackAt, Brought
    <3>6. ParserInv(q, stream) /\ Going(q)
      BY <1>1, <2>2, <2>3, <3>1, <3>3, <3>4, <3>5 DEF ParserInv, Ended, Going
    <3>7. Held("colon", q.cut) \in Fragments
      BY DEF Held, Brought, Second, SpanPieces, Fragments
    <3>8. Moves(p, q, m)
      BY <3>1, <3>3, <3>4 DEF Moves
    <3> QED BY <1>3, <3>4, <3>6, <3>7, <3>8 DEF Over, Ended, Places, SpanPieces
  <2>11. ASSUME at = "value1"
        PROVE  Parsed
    <3>1. p.at = "colon"
      BY <1>2, <1>3, <2>11 DEF After, Headers, Places, SpanPieces
    <3>2. Append(p.frag, 1) = <<1>>
      BY <2>2, <3>1, AppendToEmpty DEF Held, SpanPieces
    <3>3. q.cut = p.cut /\ q.cut \subseteq Past("value1") /\ "value1" \notin q.cut
      BY <2>1, <2>2, <2>11, <3>1 DEF Consumed, Past, SpanPieces
    <3>4. /\ q.at = "value1" /\ q.done = p.done
          /\ q.frag = Held("value1", q.cut) /\ q.due = <<>>
          /\ q.close = FALSE /\ q.closed = FALSE
      BY <1>3, <1>5, <2>1, <2>2, <2>11, <3>1, <3>2, <3>3 DEF Consumed, Held, Brought, Second, SpanPieces, Parser
    <3>5. DueInv(q)
      BY <3>3, <3>4 DEF DueInv, CallbackAt, Brought
    <3>6. ParserInv(q, stream) /\ Going(q)
      BY <1>1, <2>2, <2>3, <3>1, <3>3, <3>4, <3>5 DEF ParserInv, Ended, Going
    <3>7. Held("value1", q.cut) \in Fragments
      BY DEF Held, Brought, Second, SpanPieces, Fragments
    <3>8. Moves(p, q, m)
      BY <3>1, <3>3, <3>4 DEF Moves
    <3> QED BY <1>3, <3>4, <3>6, <3>7, <3>8 DEF Over, Ended, Places, SpanPieces
  <2>12. ASSUME at = "value2"
        PROVE  Parsed
    <3>1. p.at = "value1"
      BY <1>2, <1>3, <2>12 DEF After, Headers, Places, SpanPieces
    <3>2. Append(p.frag, 2) = Held("value2", p.cut)
      <4>1. "value2" \notin p.cut
        BY <2>2, <3>1 DEF Past
      <4> QED BY <2>2, <3>1, <4>1, AppendToEmpty, AppendToOne DEF Held, Brought, Second, SpanPieces
    <3>3. q.cut = p.cut /\ q.cut \subseteq Past("value2") /\ "value2" \notin q.cut
      BY <2>1, <2>2, <2>12, <3>1 DEF Consumed, Past, SpanPieces
    <3>4. /\ q.at = "value2" /\ q.done = p.done
          /\ q.frag = Held("value2", q.cut) /\ q.due = <<>>
          /\ q.close = FALSE /\ q.closed = FALSE
      BY <1>3, <1>5, <2>1, <2>2, <2>12, <3>1, <3>2, <3>3 DEF Consumed, Held, Brought, Second, SpanPieces, Parser
    <3>5. DueInv(q)
      BY <3>3, <3>4 DEF DueInv, CallbackAt, Brought
    <3>6. ParserInv(q, stream) /\ Going(q)
      BY <1>1, <2>2, <2>3, <3>1, <3>3, <3>4, <3>5 DEF ParserInv, Ended, Going
    <3>7. Held("value2", q.cut) \in Fragments
      BY DEF Held, Brought, Second, SpanPieces, Fragments
    <3>8. Moves(p, q, m)
      BY <3>1, <3>3, <3>4 DEF Moves
    <3> QED BY <1>3, <3>4, <3>6, <3>7, <3>8 DEF Over, Ended, Places, SpanPieces
  <2>13. ASSUME at = "eoh"
        PROVE  Parsed
    <3>1. p.at = "value2"
      BY <1>2, <1>3, <2>13 DEF After, Headers, Places, SpanPieces
    <3>3. q.cut = p.cut /\ q.cut \subseteq Past("eoh") /\ "eoh" \notin q.cut
      BY <2>1, <2>2, <2>13, <3>1 DEF Consumed, Past, SpanPieces
    <3>4. /\ q.at = "eoh" /\ q.done = p.done
          /\ q.frag = Held("eoh", q.cut) /\ q.due = <<Callback("on_header_value", Brought("eoh", p.cut))>>
          /\ q.close = (m.conn = "close") /\ q.closed = FALSE
      BY <1>3, <1>5, <2>1, <2>2, <2>13, <3>1, <3>3 DEF Consumed, Held, Brought, Second, SpanPieces, Parser
    <3>5. DueInv(q)
      BY <3>3, <3>4 DEF DueInv, CallbackAt, Brought
    <3>6. ParserInv(q, stream) /\ Going(q)
      BY <1>1, <2>2, <2>3, <3>1, <3>3, <3>4, <3>5 DEF ParserInv, Ended, Going
    <3>7. Held("eoh", q.cut) \in Fragments
      BY DEF Held, Brought, Second, SpanPieces, Fragments
    <3>8. Moves(p, q, m)
      BY <3>1, <3>3, <3>4 DEF Moves
    <3> QED BY <1>3, <3>4, <3>6, <3>7, <3>8 DEF Over, Ended, Places, SpanPieces
  <2>14. ASSUME at = "blank"
        PROVE  Parsed
    <3>1. \/ p.at = "eoh" /\ m.conn # "none"
          \/ p.at = "eol" /\ m.conn = "none"
          \/ p.at = "line" /\ ~m.url /\ m.conn = "none"
      BY <1>2, <1>3, <2>2, <2>14 DEF After, Headers, Places, SpanPieces
    <3>3. q.cut = p.cut /\ q.cut \subseteq Past("blank") /\ "blank" \notin q.cut
      BY <2>1, <2>2, <2>14, <3>1 DEF Consumed, Past, SpanPieces
    <3>4. /\ q.at = "blank" /\ q.done = p.done
          /\ q.frag = Held("blank", q.cut) /\ q.due = <<>>
          /\ q.close = (m.conn = "close") /\ q.closed = FALSE
      BY <1>3, <1>5, <2>1, <2>2, <2>14, <3>1, <3>3 DEF Consumed, Held, Brought, Second, SpanPieces, Parser
    <3>5. DueInv(q)
      BY <3>3, <3>4 DEF DueInv, CallbackAt, Brought
    <3>6. ParserInv(q, stream) /\ Going(q)
      BY <1>1, <2>2, <2>3, <3>1, <3>3, <3>4, <3>5 DEF ParserInv, Ended, Going
    <3>7. Held("blank", q.cut) \in Fragments
      BY DEF Held, Brought, Second, SpanPieces, Fragments
    <3>8. Moves(p, q, m)
      BY <3>1, <3>3, <3>4 DEF Moves
    <3> QED BY <1>3, <3>4, <3>6, <3>7, <3>8 DEF Over, Ended, Places, SpanPieces
  <2>15. ASSUME at = "body1"
        PROVE  Parsed
    <3>1. p.at = "blank"
      BY <1>2, <1>3, <2>15 DEF After, Headers, Places, SpanPieces
    <3>2. Append(p.frag, 1) = <<1>>
      BY <2>2, <3>1, AppendToEmpty DEF Held, SpanPieces
    <3>3. q.cut = p.cut /\ q.cut \subseteq Past("body1") /\ "body1" \notin q.cut
      BY <2>1, <2>2, <2>15, <3>1 DEF Consumed, Past, SpanPieces
    <3>4. /\ q.at = "body1" /\ q.done = p.done
          /\ q.frag = Held("body1", q.cut) /\ q.due = <<>>
          /\ q.close = (m.conn = "close") /\ q.closed = FALSE
      BY <1>3, <1>5, <2>1, <2>2, <2>15, <3>1, <3>2, <3>3 DEF Consumed, Held, Brought, Second, SpanPieces, Parser
    <3>5. DueInv(q)
      BY <3>3, <3>4 DEF DueInv, CallbackAt, Brought
    <3>6. ParserInv(q, stream) /\ Going(q)
      BY <1>1, <2>2, <2>3, <3>1, <3>3, <3>4, <3>5 DEF ParserInv, Ended, Going
    <3>7. Held("body1", q.cut) \in Fragments
      BY DEF Held, Brought, Second, SpanPieces, Fragments
    <3>8. Moves(p, q, m)
      BY <3>1, <3>3, <3>4 DEF Moves
    <3> QED BY <1>3, <3>4, <3>6, <3>7, <3>8 DEF Over, Ended, Places, SpanPieces
  <2>16. ASSUME at = "body2"
        PROVE  Parsed
    <3>1. p.at = "body1"
      BY <1>2, <1>3, <2>16 DEF After, Headers, Places, SpanPieces
    <3>2. Append(p.frag, 2) = Brought("start", p.cut)
      BY <2>2, <3>1, AppendToEmpty, AppendToOne DEF Held, Brought, Second, SpanPieces
    <3>3. q.cut = p.cut /\ q.cut \subseteq Past("start")
      BY <2>1, <2>16 DEF Consumed, Past, Parser
    <3>4. /\ q.at = "start" /\ q.done = p.done + 1 /\ q.frag = <<>>
          /\ q.due = <<Callback("on_body", Brought("start", q.cut)), Complete>>
          /\ q.close = FALSE /\ q.closed = p.close
      BY <2>1, <2>16, <3>2, <3>3 DEF Consumed
    <3>5. DueInv(q)
      BY <1>3, <3>4 DEF DueInv
    <3>6. q.closed => stream[q.done].conn = "close"
      BY <1>1, <2>2, <3>4
    <3>7. Held("start", q.cut) = <<>> /\ "start" \notin q.cut
      BY <3>3 DEF Held, SpanPieces, Past
    <3>8. q.done \in Nat /\ q.done <= Len(stream)
      BY <1>3, <2>3, <3>4
    <3>9. ParserInv(q, stream) /\ Going(q)
      BY <3>3, <3>4, <3>5, <3>6, <3>7, <3>8 DEF ParserInv, Going
    <3>10. q.closed \in BOOLEAN
      BY <3>4 DEF Parser
    <3>11. q.due # <<>>
      BY <3>4
    <3>12. Over(q) = p.done
      BY <1>3, <3>4, <3>11 DEF Over, Ended
    <3>13. Moves(p, q, m)
      BY <3>1, <3>3, <3>4 DEF Moves
    <3> QED BY <3>4, <3>8, <3>9, <3>10, <3>11, <3>12, <3>13 DEF Ended, Places, Fragments
  <2>17. Parsed
    <3>1. at \in {"line", "colon", "eol", "eoh", "blank", "body2", "url1", "key1",
                  "value1", "body1", "url2", "key2", "value2"}
      BY <1>2, <1>3 DEF After, Headers, Places, SpanPieces
    <3> QED BY <2>4, <2>5, <2>6, <2>7, <2>8, <2>11, <2>12, <2>13, <2>14, <2>15, <2>16,
               <2>9, <2>10, <3>1
  <2>18. q \in Parser
    <3>1. /\ q = Fields(q) /\ q.busy \in BOOLEAN
          /\ q.cut \subseteq SpanPieces /\ DueInv(q)
      BY <2>1, <2>17 DEF Consumed, Parser, ParserInv
    <3> QED BY <2>17, <3>1, IsParser
  <2>19. q.busy = p.busy
    BY <2>1 DEF Consumed
  <2> QED BY <1>1, <1>5, <2>17, <2>18, <2>19
<1> QED BY <1>4, <1>5

(* The read ends. *)
LEMMA LeaveKeeps ==
  ASSUME NEW p \in Parser, NEW stream \in Seq(Message), ParserInv(p, stream), Going(p),
         p.busy, p.due = <<>>, NEW q, q = Leave(p)
  PROVE  /\ q \in Parser /\ ParserInv(q, stream) /\ Going(q)
         /\ q.done = p.done /\ q.at = p.at /\ q.closed = p.closed
         /\ ~Ended(q) /\ Over(q) = Over(p)
         /\ ~q.busy
         /\ ~InSpan(p) => q.due = <<>> /\ q.cut = p.cut
         /\ InSpan(p) => /\ q.cut = p.cut \cup {p.at}
                         /\ q.due = <<Callback(CallbackAt(p.at), Brought(p.at, p.cut))>>
<1>1. CASE ~InSpan(p)
  <2>1. q = [p EXCEPT !.busy = FALSE]
    BY <1>1 DEF Leave
  <2>2. q \in Parser /\ q.due = <<>>
    BY <2>1 DEF Parser
  <2>3. /\ q.done = p.done /\ q.at = p.at /\ q.closed = p.closed /\ q.frag = p.frag
        /\ q.close = p.close /\ q.cut = p.cut /\ ~q.busy
    BY <2>1 DEF Parser
  <2>4. ~Ended(q) /\ ~Ended(p) /\ Over(q) = Over(p)
    BY <2>2, <2>3 DEF Ended, Over
  <2>5. ParserInv(q, stream)
    BY <2>2, <2>3, <2>4 DEF ParserInv, DueInv
  <2> QED BY <1>1, <2>2, <2>3, <2>4, <2>5 DEF Going
<1>2. CASE InSpan(p)
  <2>1. p.at \in SpanPieces /\ ~p.closed /\ p.at \notin p.cut /\ p.frag = Brought(p.at, p.cut)
    BY <1>2 DEF InSpan, Going, ParserInv, Held
  <2>2. SpanCallback(p.at) = CallbackAt(p.at)
    BY <2>1 DEF SpanCallback, CallbackAt, SpanPieces
  <2>3. q = [p EXCEPT !.busy = FALSE, !.frag = <<>>, !.cut = p.cut \cup {p.at},
                      !.due = <<Callback(CallbackAt(p.at), Brought(p.at, p.cut))>>]
    BY <1>2, <2>1, <2>2 DEF Leave
  <2>4. q = Fields(q)
    BY <2>3 DEF Parser, Fields
  <2>5. /\ q.done = p.done /\ q.at = p.at /\ q.closed = p.closed /\ q.frag = <<>>
        /\ q.close = p.close /\ q.cut = p.cut \cup {p.at} /\ q.busy = FALSE
        /\ q.due = <<Callback(CallbackAt(p.at), Brought(p.at, p.cut))>>
    BY <2>3 DEF Parser
  <2>6. Brought(p.at, q.cut) = Brought(p.at, p.cut)
    BY <2>1, <2>5 DEF Brought, Second, SpanPieces
  <2>7. DueInv(q)
    BY <2>1, <2>5, <2>6 DEF DueInv, SpanPieces
  <2>8. q \in Parser
    <3>1. <<>> \in Fragments /\ q.cut \subseteq SpanPieces
      BY <2>1, <2>5 DEF Fragments, Parser
    <3> QED BY <2>4, <2>5, <2>7, <3>1, IsParser DEF Parser
  <2>9. q.cut \subseteq Past(p.at) /\ Held(p.at, q.cut) = <<>>
    BY <2>1, <2>5 DEF ParserInv, Past, SpanPieces, Held
  <2>10. ~Ended(q) /\ ~Ended(p) /\ Over(q) = Over(p)
    BY <2>1, <2>5 DEF Ended, Over, SpanPieces
  <2>11. ParserInv(q, stream)
    BY <2>1, <2>5, <2>7, <2>9, <2>10 DEF ParserInv
  <2> QED BY <1>2, <2>5, <2>8, <2>10, <2>11 DEF Going
<1> QED BY <1>1, <1>2

(* A callback has returned. *)
LEMMA CalledKeeps ==
  ASSUME NEW p \in Parser, NEW stream \in Seq(Message), ParserInv(p, stream), Going(p),
         p.due # <<>>, NEW q, q = Called(p)
  PROVE  /\ q \in Parser /\ ParserInv(q, stream) /\ Going(q)
         /\ q.done = p.done /\ q.at = p.at /\ q.closed = p.closed /\ q.cut = p.cut
         /\ q.busy = p.busy
         /\ ~Ended(p) => /\ q.due = <<>> /\ ~Ended(q)
                         /\ p.due[1].cb # "on_message_complete"
         /\ Ended(p) => \/ /\ p.due[1] = Callback("on_body", Brought("start", p.cut))
                           /\ q.due = <<Complete>> /\ Ended(q)
                        \/ /\ p.due[1] = Complete
                           /\ q.due = <<>> /\ ~Ended(q)
<1>1. q = [p EXCEPT !.due = Tail(p.due)]
  BY DEF Called
<1>2. /\ q.done = p.done /\ q.at = p.at /\ q.closed = p.closed /\ q.frag = p.frag
      /\ q.close = p.close /\ q.cut = p.cut /\ q.busy = p.busy /\ q.due = Tail(p.due)
  BY <1>1 DEF Parser
<1>3. \A d \in Seq([cb : CallbackNames, data : Fragments]) :
        q.due = d => q \in Parser
  BY <1>1 DEF Parser
<1>4. <<>> \in Seq([cb : CallbackNames, data : Fragments])
  OBVIOUS
<1>5. CASE /\ p.at \notin {"start", "blank"} /\ ~p.closed
           /\ p.due = <<Callback(CallbackAt(p.at), Brought(p.at, p.cut))>>
  <2>1. q.due = <<>> /\ ~Ended(p) /\ ~Ended(q)
    BY <1>2, <1>5 DEF Ended
  <2>2. p.due[1].cb = CallbackAt(p.at)
    BY <1>5 DEF Callback
  <2>3. CallbackAt(p.at) # "on_message_complete"
    BY <1>5 DEF CallbackAt, Parser, Places, SpanPieces
  <2>4. q \in Parser
    BY <2>1, <1>3, <1>4
  <2>5. ParserInv(q, stream)
    BY <1>2, <2>1 DEF ParserInv, DueInv
  <2> QED BY <1>2, <2>1, <2>2, <2>3, <2>4, <2>5 DEF Going
<1>6. CASE /\ p.at = "start" /\ p.done > 0
           /\ p.due = <<Callback("on_body", Brought("start", p.cut)), Complete>>
  <2>1. q.due = <<Complete>>
    BY <1>2, <1>6
  <2>2. p.due[1] = Callback("on_body", Brought("start", p.cut))
    BY <1>6
  <2>3. Ended(p) /\ Ended(q)
    BY <1>2, <1>6, <2>1 DEF Ended
  <2>4. Complete \in [cb : CallbackNames, data : Fragments]
    BY DEF Callback, Complete, CallbackNames, Fragments
  <2>5. q \in Parser
    <3>1. <<Complete>> \in Seq([cb : CallbackNames, data : Fragments])
      BY <2>4
    <3> QED BY <1>3, <2>1, <3>1
  <2>6. ParserInv(q, stream)
    BY <1>2, <1>6, <2>1, <2>3 DEF ParserInv, DueInv
  <2> QED BY <1>2, <2>1, <2>2, <2>3, <2>5, <2>6 DEF Going
<1>7. CASE /\ p.at = "start" /\ p.done > 0
           /\ p.due = <<Complete>>
  <2>1. q.due = <<>> /\ p.due[1] = Complete
    BY <1>2, <1>7
  <2>2. Ended(p) /\ ~Ended(q)
    BY <1>2, <1>7, <2>1 DEF Ended
  <2>3. q \in Parser
    BY <2>1, <1>3, <1>4
  <2>4. ParserInv(q, stream)
    BY <1>2, <1>7, <2>1, <2>2 DEF ParserInv, DueInv
  <2> QED BY <1>2, <2>1, <2>2, <2>3, <2>4 DEF Going
<1> QED BY <1>5, <1>6, <1>7 DEF ParserInv, DueInv

LEMMA EnterKeeps ==
  ASSUME NEW p \in Parser, NEW stream, ParserInv(p, stream), NEW q, q = Enter(p)
  PROVE  /\ q \in Parser /\ ParserInv(q, stream)
         /\ q.done = p.done /\ q.at = p.at /\ q.closed = p.closed /\ q.cut = p.cut
         /\ q.due = p.due /\ q.busy = TRUE
<1>1. q = [p EXCEPT !.busy = TRUE]
  BY DEF Enter
<1>2. /\ q.done = p.done /\ q.at = p.at /\ q.closed = p.closed /\ q.frag = p.frag
      /\ q.close = p.close /\ q.cut = p.cut /\ q.busy = TRUE /\ q.due = p.due
  BY <1>1 DEF Parser
<1>3. q \in Parser
  BY <1>1 DEF Parser
<1> QED BY <1>2, <1>3 DEF ParserInv, DueInv, Ended

LEMMA FreshKeeps ==
  ASSUME NEW stream, NEW n \in Nat, n = Len(stream)
  PROVE  /\ FreshParser \in Parser
         /\ ParserInv(FreshParser, stream) /\ Going(FreshParser)
         /\ Over(FreshParser) = 0 /\ ~Ended(FreshParser) /\ Idle(FreshParser)
         /\ FreshParser.at = "start" /\ ~FreshParser.closed /\ FreshParser.done = 0
<1>1. PICK p : p = FreshParser
  OBVIOUS
<1>2. /\ p.done = 0 /\ p.at = "start" /\ p.closed = FALSE /\ p.frag = <<>>
      /\ p.close = FALSE /\ p.cut = {} /\ p.busy = FALSE /\ p.due = <<>>
  BY <1>1 DEF FreshParser
<1>3. p \in Parser
  <2>1. p = Fields(p)
    BY <1>1 DEF Fields, FreshParser
  <2>2. DueInv(p)
    BY <1>2 DEF DueInv
  <2>3. "start" \in Places /\ <<>> \in Fragments
    BY DEF Places, Fragments
  <2>4. p.at \in Places /\ p.frag \in Fragments
    BY <1>2, <2>3, Zenon
  <2>5. p.done \in Nat /\ p.cut \subseteq SpanPieces
    BY <1>2
  <2>6. p.busy \in BOOLEAN /\ p.close \in BOOLEAN /\ p.closed \in BOOLEAN
    BY <1>2
  <2> QED BY <2>1, <2>2, <2>4, <2>5, <2>6, IsParser
<1>4. ParserInv(p, stream)
  BY <1>2 DEF ParserInv, DueInv, Ended, Held, SpanPieces, Past
<1> QED BY <1>1, <1>2, <1>3, <1>4 DEF Going, Over, Ended, Idle

(* More is written behind what there is. *)
LEMMA StreamGrows ==
  ASSUME NEW p \in Parser, NEW stream \in Seq(Message), ParserInv(p, stream),
         NEW m \in Message
  PROVE  /\ ParserInv(p, Append(stream, m))
         /\ Collecting(p) => Current(p, Append(stream, m)) = Current(p, stream)
<1>1. PICK t : t = Append(stream, m)
  OBVIOUS
<1>2. Len(t) = Len(stream) + 1 /\ \A i \in 1 .. Len(stream) : t[i] = stream[i]
  BY <1>1
<1>3. p.done \in Nat /\ p.done <= Len(stream)
  BY DEF Parser, ParserInv
<1>4. p.at # "start" => p.done < Len(stream) /\ t[p.done + 1] = stream[p.done + 1]
  BY <1>2, <1>3 DEF ParserInv
<1>5. Ended(p) => t[p.done] = stream[p.done]
  BY <1>2, <1>3 DEF ParserInv, DueInv, Ended
<1>6. ParserInv(p, t)
  BY <1>2, <1>3, <1>4, <1>5 DEF ParserInv
<1> QED BY <1>1, <1>4, <1>5, <1>6 DEF Collecting, Current, Ended
-----------------------------------------------------------------------------
(* What the server collects. *)

Requests ==
  [url : Fragments, body : Fragments, key : BOOLEAN,
   headers : Seq([key : BOOLEAN, value : Fragments])]

LEMMA GivenType ==
  ASSUME NEW at \in {"colon", "value1", "value2", "eoh", "blank", "body1", "start"}, NEW cut
  PROVE  Given(at, cut) \in Seq(Fragments)
<1>1. <<1>> \in Fragments /\ Second("value1", cut) \in Fragments /\ Brought("eoh", cut) \in Fragments
  BY DEF Fragments, Second, Brought
<1>2. GivenAtOne(cut) \in Seq(Fragments)
  BY <1>1 DEF GivenAtOne
<1>3. GivenAtTwo(cut) \in Seq(Fragments)
  BY <1>1, <1>2 DEF GivenAtTwo
<1>4. GivenAtEnd(cut) \in Seq(Fragments)
  BY <1>1, <1>3 DEF GivenAtEnd
<1> QED BY <1>2, <1>3, <1>4 DEF Given

(* on_header_value shows one value more. *)
LEMMA ShowsAppend ==
  ASSUME NEW r \in Requests, NEW given \in Seq(Fragments), NEW cut,
         Shows(r, given, cut), NEW f \in Fragments
  PROVE  /\ AddsValue(r, f) \in Requests /\ Shows(AddsValue(r, f), Append(given, f), cut)
         /\ AddsValue(r, f).url = r.url /\ AddsValue(r, f).body = r.body
<1>0. PICK s :
        s = [r EXCEPT !.headers = Append(r.headers, [key |-> r.key, value |-> f]),
                      !.key = FALSE]
  OBVIOUS
<1>1. PICK h : h = [key |-> r.key, value |-> f]
  OBVIOUS
<1>2. h \in [key : BOOLEAN, value : Fragments] /\ h.key = r.key /\ h.value = f
  BY <1>1 DEF Requests
<1>3. /\ s.headers = Append(r.headers, h) /\ s.key = FALSE /\ s.url = r.url /\ s.body = r.body
  BY <1>0, <1>1 DEF Requests
<1>4. r.headers \in Seq([key : BOOLEAN, value : Fragments])
  BY DEF Requests
<1>14. s \in Requests
  <2>1. PICK t : t = Append(r.headers, h)
    OBVIOUS
  <2>2. t \in Seq([key : BOOLEAN, value : Fragments])
    BY <1>2, <1>4, <2>1
  <2>3. s = [r EXCEPT !.headers = t, !.key = FALSE]
    BY <1>0, <1>1, <2>1
  <2> QED BY <2>2, <2>3 DEF Requests
<1>5. PICK g : g = Append(given, f)
  OBVIOUS
<1>6. Len(s.headers) = Len(given) + 1 /\ Len(g) = Len(given) + 1 /\ g # <<>>
  BY <1>2, <1>3, <1>4, <1>5 DEF Shows
<1>7. ASSUME NEW i \in 1 .. Len(given)
      PROVE  s.headers[i].value = g[i] /\ (s.headers[i].key <=> i = 1 /\ Named(cut))
  <2>1. s.headers[i] = r.headers[i] /\ g[i] = given[i]
    BY <1>2, <1>3, <1>4, <1>5 DEF Shows
  <2> QED BY <2>1 DEF Shows
<1>8. s.headers[Len(given) + 1] = h /\ g[Len(given) + 1] = f
  BY <1>2, <1>3, <1>4, <1>5 DEF Shows
<1>9. h.key <=> Len(given) + 1 = 1 /\ Named(cut)
  BY <1>2 DEF Shows
<1>10. Len(given) \in Nat
  OBVIOUS
<1>11. \A i \in 1 .. Len(g) : i \in 1 .. Len(given) \/ i = Len(given) + 1
  BY <1>6, <1>10
<1>12. \A i \in 1 .. Len(g) :
         s.headers[i].value = g[i] /\ (s.headers[i].key <=> i = 1 /\ Named(cut))
  BY <1>2, <1>7, <1>8, <1>9, <1>11
<1>13. Shows(s, g, cut)
  BY <1>3, <1>6, <1>12 DEF Shows
<1> QED BY <1>0, <1>3, <1>5, <1>13, <1>14 DEF AddsValue

(* The callback that is due notes what it has been given. *)
LEMMA NotedIs ==
  ASSUME NEW r \in Requests, NEW data \in Fragments
  PROVE  /\ Noted(r, <<>>) = r
         /\ Noted(r, <<Callback("on_message_begin", data)>>) = NoRequest
         /\ Noted(r, <<Callback("on_url", data)>>) = [r EXCEPT !.url = data]
         /\ Noted(r, <<Callback("on_header_field", data)>>) =
              [r EXCEPT !.key = (data = <<1, 2>>)]
         /\ Noted(r, <<Callback("on_header_value", data)>>) = AddsValue(r, data)
         /\ Noted(r, <<Callback("on_body", data)>>) = [r EXCEPT !.body = data]
         /\ Noted(r, <<Callback("on_body", data), Complete>>) = [r EXCEPT !.body = data]
         /\ Noted(r, <<Complete>>) = r
BY DEF Noted, Callback, Complete

(* What a record with the fields of a request has collected depends on     *)
(* the fields alone.                                                       *)
LEMMA CollectedSame ==
  ASSUME NEW r, NEW s, NEW at, NEW cut, NEW m, Collected(r, at, cut, m),
         s.url = r.url, s.body = r.body, s.key = r.key, s.headers = r.headers
  PROVE  Collected(s, at, cut, m)
BY DEF Collected, Shows

(* The fragments are four. *)
LEMMA FragmentsDiffer == <<1>> # <<1, 2>> /\ <<2>> # <<1, 2>> /\ <<>> # <<1, 2>>
OBVIOUS

(* The server's parser consumes the next piece. *)
LEMMA RequestConsumes ==
  ASSUME NEW r \in Requests, NEW p \in Parser, NEW q \in Parser, NEW m \in Message,
         m.url, p.cut \subseteq Past(p.at), Moves(p, q, m),
         p.at # "start" => Collected(r, p.at, p.cut, m)
  PROVE  Collected(Noted(r, q.due), q.at, q.cut, m)
<1> DEFINE n == Noted(r, q.due)
<1>1. CASE /\ p.at = "start" /\ q.at = "line" /\ q.cut = {}
           /\ q.due = <<Callback("on_message_begin", <<>>)>>
  <2>1. n = NoRequest
    BY <1>1, NotedIs DEF Fragments
  <2> QED BY <1>1, <2>1 DEF Collected, HeaderAt, KeyAt, NoRequest
<1>2. CASE /\ q.cut = p.cut /\ q.due = <<>>
           /\ \/ p.at = "line" /\ q.at = "url1"
              \/ p.at = "url1" /\ q.at = "url2"
              \/ p.at = "eol" /\ q.at = "key1"
              \/ p.at = "key1" /\ q.at = "key2"
              \/ p.at = "blank" /\ q.at = "body1"
  <2>1. n = r
    BY <1>2, NotedIs DEF Fragments
  <2>2. HeaderAt(q.at, m) = HeaderAt(p.at, m)
    BY <1>2 DEF HeaderAt
  <2>3. p.at = "blank" => Given(p.at, p.cut) = Given(q.at, q.cut)
    BY <1>2 DEF Given
  <2> HIDE DEF n
  <2>4. CASE p.at # "blank"
    <3>1. KeyAt(q.at, q.cut) = KeyAt(p.at, p.cut)
      BY <1>2, <2>4 DEF KeyAt, Past
    <3> QED BY <1>2, <2>1, <2>2, <2>4, <3>1 DEF Collected, HeaderAt, n
  <2>5. CASE p.at = "blank"
    BY <1>2, <2>1, <2>2, <2>3, <2>5 DEF Collected, KeyAt, n
  <2> QED BY <2>4, <2>5 DEF n
<1>3. CASE /\ q.cut = p.cut /\ q.due = <<>>
           /\ \/ p.at = "colon" /\ q.at = "value1"
              \/ p.at = "value1" /\ q.at = "value2"
  <2>1. n = r
    BY <1>3, NotedIs DEF Fragments
  <2>2. HeaderAt(q.at, m) /\ HeaderAt(p.at, m)
    BY <1>3 DEF HeaderAt
  <2>3. Given(p.at, p.cut) = Given(q.at, q.cut)
    BY <1>3 DEF Given, GivenAtOne, GivenAtTwo, Past
  <2> HIDE DEF n
  <2>4. CASE p.at = "colon"
    BY <1>3, <2>1, <2>2, <2>3, <2>4 DEF Collected, n
  <2>5. CASE p.at = "value1"
    BY <1>3, <2>1, <2>2, <2>3, <2>5 DEF Collected, n
  <2> QED BY <1>3, <2>4, <2>5 DEF n
<1>4. CASE /\ q.cut = p.cut /\ q.due = <<>>
           /\ p.at = "eoh" /\ m.conn # "none" /\ q.at = "blank"
  <2>1. n = r
    BY <1>4, NotedIs DEF Fragments
  <2>2. HeaderAt(q.at, m) /\ HeaderAt(p.at, m)
    BY <1>4 DEF HeaderAt
  <2>3. Given(p.at, p.cut) = Given(q.at, q.cut)
    BY <1>4 DEF Given
  <2> HIDE DEF n
  <2> QED BY <1>4, <2>1, <2>2, <2>3 DEF Collected, n
<1>5. CASE /\ q.cut = p.cut /\ q.due = <<>>
           /\ p.at = "eol" /\ m.conn = "none" /\ q.at = "blank"
  <2>1. n = r
    BY <1>5, NotedIs DEF Fragments
  <2>2. ~HeaderAt(q.at, m) /\ ~HeaderAt(p.at, m)
    BY <1>5 DEF HeaderAt
  <2> HIDE DEF n
  <2> QED BY <1>5, <2>1, <2>2 DEF Collected, KeyAt, n
<1>6. CASE /\ q.cut = p.cut
           /\ p.at = "url2" /\ q.at = "eol"
           /\ q.due = <<Callback("on_url", Brought("eol", p.cut))>>
  <2>1. Brought("eol", p.cut) \in Fragments
    BY DEF Brought, Second, Fragments
  <2>2. n = [r EXCEPT !.url = Brought("eol", p.cut)]
    BY <1>6 DEF Noted, Callback
  <2>3. /\ n.url = Brought("eol", p.cut) /\ n.body = r.body
        /\ n.key = r.key /\ n.headers = r.headers
    BY <2>2 DEF Requests
  <2>4. ~HeaderAt(q.at, m) /\ ~HeaderAt(p.at, m)
    BY <1>6 DEF HeaderAt
  <2> HIDE DEF n
  <2> QED BY <1>6, <2>3, <2>4 DEF Collected, KeyAt, n
<1>7. CASE /\ q.cut = p.cut
           /\ p.at = "key2" /\ q.at = "colon"
           /\ q.due = <<Callback("on_header_field", Brought("colon", p.cut))>>
  <2>1. n = [r EXCEPT !.key = (Brought("colon", p.cut) = <<1, 2>>)]
    BY <1>7 DEF Noted, Callback
  <2>2. Brought("colon", p.cut) = <<1, 2>> <=> Named(q.cut)
    BY <1>7, FragmentsDiffer DEF Brought, Second, Named
  <2>3. /\ n.url = r.url /\ n.body = r.body /\ n.headers = r.headers
        /\ n.key <=> Named(q.cut)
    BY <2>1, <2>2 DEF Requests
  <2>4. HeaderAt(q.at, m) /\ ~HeaderAt(p.at, m)
    BY <1>7 DEF HeaderAt
  <2>5. Given(q.at, q.cut) = <<>>
    BY <1>7 DEF Given
  <2> HIDE DEF n
  <2>6. r.headers = <<>> /\ n.url = Brought("eol", p.cut)
    BY <1>7, <2>3, <2>4 DEF Collected
  <2>7. Shows(n, <<>>, q.cut)
    BY <2>3, <2>6 DEF Shows
  <2> QED BY <1>7, <2>4, <2>5, <2>6, <2>7 DEF Collected, n
<1>8. CASE /\ q.cut = p.cut
           /\ p.at = "value2" /\ q.at = "eoh"
           /\ q.due = <<Callback("on_header_value", Brought("eoh", p.cut))>>
  <2>1. PICK f \in Fragments : f = Brought("eoh", p.cut)
    BY DEF Brought, Second, Fragments
  <2>2. n = AddsValue(r, f)
    <3>1. q.due = <<Callback("on_header_value", f)>>
      BY <1>8, <2>1
    <3> QED BY <3>1 DEF Noted, Callback
  <2>3. HeaderAt(q.at, m) /\ HeaderAt(p.at, m)
    BY <1>8 DEF HeaderAt
  <2>4. Given(p.at, p.cut) \in Seq(Fragments)
    BY <1>8, GivenType
  <2>5. Shows(r, Given(p.at, p.cut), p.cut) /\ r.url = Brought("eol", p.cut)
    BY <1>8, <2>3 DEF Collected
  <2>6. Shows(n, Append(Given(p.at, p.cut), f), p.cut) /\ n.url = r.url
    <3> HIDE DEF n
    <3> QED BY <2>2, <2>4, <2>5, ShowsAppend
  <2>7. Given(q.at, q.cut) = Append(Given(p.at, p.cut), Brought("eoh", p.cut))
    BY <1>8 DEF Given, GivenAtEnd
  <2> HIDE DEF n
  <2> QED BY <1>8, <2>1, <2>3, <2>5, <2>6, <2>7 DEF Collected, n
<1>9. CASE /\ q.cut = p.cut
           /\ p.at = "body1" /\ q.at = "start"
           /\ q.due = <<Callback("on_body", Brought("start", p.cut)), Complete>>
  <2>1. Brought("start", p.cut) \in Fragments
    BY DEF Brought, Second, Fragments
  <2>2. n = [r EXCEPT !.body = Brought("start", p.cut)]
    BY <1>9 DEF Noted, Callback
  <2>3. n.body = Brought("start", p.cut) /\ n.url = r.url /\ n.key = r.key /\ n.headers = r.headers
    BY <2>2 DEF Requests
  <2>4. HeaderAt(q.at, m) = HeaderAt(p.at, m)
    BY <1>9 DEF HeaderAt
  <2>5. Given(p.at, p.cut) = Given(q.at, q.cut)
    BY <1>9 DEF Given
  <2> HIDE DEF n
  <2>6. Collected(r, p.at, p.cut, m)
    BY <1>9
  <2>7. IF HeaderAt(q.at, m) THEN Shows(n, Given(q.at, q.cut), q.cut)
        ELSE n.headers = <<>> /\ (n.key <=> KeyAt(q.at, q.cut))
    BY <1>9, <2>3, <2>4, <2>5, <2>6 DEF Collected, Shows, KeyAt
  <2> QED BY <1>9, <2>3, <2>6, <2>7 DEF Collected, n
<1> QED
  BY <1>1, <1>2, <1>3, <1>4, <1>5, <1>6, <1>7, <1>8, <1>9 DEF Moves

(* A read ends within a span. *)
LEMMA RequestLeaves ==
  ASSUME NEW r \in Requests, NEW at \in SpanPieces, NEW cut, cut \subseteq Past(at),
         at \notin cut, NEW m, Collected(r, at, cut, m)
  PROVE  Collected(Noted(r, <<Callback(CallbackAt(at), Brought(at, cut))>>),
                   at, cut \cup {at}, m)
<1> DEFINE f == Brought(at, cut)
           d == <<Callback(CallbackAt(at), Brought(at, cut))>>
           n == Noted(r, d)
           next == cut \cup {at}
<1>1. f \in Fragments
  BY DEF Brought, Second, Fragments, SpanPieces
<1>2. CASE at \in {"url1", "url2"}
  <2>1. d = <<Callback("on_url", f)>>
    BY <1>2 DEF CallbackAt
  <2>2. n = [r EXCEPT !.url = f]
    BY <2>1 DEF Noted, Callback
  <2>3. n.url = f /\ n.key = r.key /\ n.headers = r.headers
    BY <2>2 DEF Requests
  <2>4. ~HeaderAt(at, m)
    BY <1>2 DEF HeaderAt
  <2> HIDE DEF n, next, f
  <2> QED BY <1>2, <2>3, <2>4 DEF Collected, KeyAt, n, next
<1>3. CASE at \in {"value1", "value2"}
  <2>1. d = <<Callback("on_header_value", f)>>
    BY <1>3 DEF CallbackAt
  <2>2. n = AddsValue(r, f)
    BY <2>1 DEF Noted, Callback
  <2>3. HeaderAt(at, m)
    BY <1>3 DEF HeaderAt
  <2>4. Given(at, cut) \in Seq(Fragments)
    BY <1>3, GivenType
  <2>5. Shows(r, Given(at, cut), cut) /\ r.url = Brought("eol", cut)
    BY <1>3, <2>3 DEF Collected
  <2>6. Shows(n, Append(Given(at, cut), f), next) /\ n.url = r.url
    <3>1. Shows(r, Given(at, cut), next)
      BY <1>3, <2>5 DEF Shows, Named
    <3> HIDE DEF n, f
    <3> QED BY <1>1, <2>2, <2>4, <2>5, <3>1, ShowsAppend
  <2>7. Given(at, next) = Append(Given(at, cut), f)
    <3>1. CASE at = "value1"
      BY <3>1, AppendToEmpty DEF Given, GivenAtOne, Brought
    <3>2. CASE at = "value2"
      BY <3>2 DEF Given, GivenAtTwo, GivenAtOne, Brought, Second
    <3> QED BY <1>3, <3>1, <3>2
  <2>8. Brought("eol", next) = Brought("eol", cut)
    BY <1>3 DEF Brought, Second
  <2> HIDE DEF n, next, f
  <2> QED BY <1>3, <2>3, <2>5, <2>6, <2>7, <2>8 DEF Collected, n, next
<1>4. CASE at = "body1"
  <2>1. d = <<Callback("on_body", f)>>
    BY <1>4 DEF CallbackAt
  <2>2. n = [r EXCEPT !.body = f]
    BY <2>1 DEF Noted, Callback
  <2>3. n.url = r.url /\ n.key = r.key /\ n.headers = r.headers
    BY <2>2 DEF Requests
  <2>4. /\ Brought("eol", next) = Brought("eol", cut) /\ Given(at, next) = Given(at, cut)
        /\ Named(next) <=> Named(cut)
    BY <1>4 DEF Brought, Second, Given, GivenAtEnd, GivenAtTwo, GivenAtOne, Named
  <2> HIDE DEF n, next, f
  <2> QED BY <1>4, <2>3, <2>4 DEF Collected, Shows, KeyAt, n, next
<1>5. CASE at \in {"key1", "key2"}
  <2>1. d = <<Callback("on_header_field", f)>>
    BY <1>5 DEF CallbackAt
  <2>2. n = [r EXCEPT !.key = (f = <<1, 2>>)]
    BY <2>1 DEF Noted, Callback
  <2>3. f = <<1, 2>> <=> KeyAt(at, next)
    BY <1>5, FragmentsDiffer DEF Brought, Second, KeyAt
  <2>4. n.url = r.url /\ n.headers = r.headers /\ (n.key <=> KeyAt(at, next))
    BY <2>2, <2>3 DEF Requests
  <2>5. ~HeaderAt(at, m)
    BY <1>5 DEF HeaderAt
  <2>6. Brought("eol", next) = Brought("eol", cut)
    BY <1>5 DEF Brought, Second
  <2> HIDE DEF n, next, f
  <2> QED BY <1>5, <2>4, <2>5, <2>6 DEF Collected, n, next
<1> QED BY <1>2, <1>3, <1>4, <1>5 DEF SpanPieces

(* The request fits what has been parsed, whatever the server's parser     *)
(* does next.                                                              *)
LEMMA FitsConsumed ==
  ASSUME NEW r \in Requests, NEW p \in Parser, NEW stream \in Seq(Message),
         ParserInv(p, stream), p.due = <<>>, Unread(p, stream), Fits(r, p, stream),
         \A i \in 1 .. Len(stream) : stream[i].url
  PROVE  Fits(r, Consume(p, stream[p.done + 1]), stream)
<1> SUFFICES ASSUME NEW q, q = Consume(p, stream[p.done + 1]), Collecting(q)
             PROVE  Collected(Noted(r, q.due), q.at, q.cut, Current(q, stream))
  BY DEF Fits
<1>1. /\ q \in Parser
      /\ p.closed => q.due = <<>> /\ q.closed
      /\ ~p.closed => /\ Over(q) = p.done
                      /\ q.at # "start" => q.done = p.done
                      /\ Moves(p, q, stream[p.done + 1])
  BY ConsumeKeeps
<1>2. ~p.closed
  BY <1>1 DEF Collecting, Ended
<1>3. p.done \in Nat /\ p.done + 1 \in 1 .. Len(stream)
  BY DEF Parser, Unread
<1>4. PICK m \in Message : m = stream[p.done + 1]
  BY <1>3
<1>5. m.url
  BY <1>3, <1>4
<1>6. p.cut \subseteq Past(p.at)
  BY <1>2 DEF ParserInv
<1>7. p.at # "start" => Collected(r, p.at, p.cut, m)
  <2>1. Noted(r, p.due) = r
    BY DEF Noted
  <2> QED BY <1>2, <1>4, <2>1 DEF Fits, Collecting, Current
<1>8. Collected(Noted(r, q.due), q.at, q.cut, m)
  BY <1>1, <1>2, <1>4, <1>5, <1>6, <1>7, RequestConsumes
<1>9. Current(q, stream) = m
  <2>1. q.done \in Nat
    BY <1>1 DEF Parser
  <2>2. q.at = "start" => q.done = p.done + 1
    BY <1>1, <1>2, <1>3, <2>1 DEF Over, Collecting, Ended
  <2> QED BY <1>1, <1>2, <1>4, <2>2 DEF Current
<1> QED BY <1>8, <1>9

LEMMA FitsLeft ==
  ASSUME NEW r \in Requests, NEW p \in Parser, NEW stream \in Seq(Message),
         ParserInv(p, stream), Going(p), p.busy, p.due = <<>>, Fits(r, p, stream)
  PROVE  Fits(r, Leave(p), stream)
<1> SUFFICES ASSUME NEW q, q = Leave(p), Collecting(q)
             PROVE  Collected(Noted(r, q.due), q.at, q.cut, Current(q, stream))
  BY DEF Fits
<1>1. /\ q.done = p.done /\ q.at = p.at /\ q.closed = p.closed
      /\ ~Ended(q)
      /\ ~InSpan(p) => q.due = <<>> /\ q.cut = p.cut
      /\ InSpan(p) => /\ q.cut = p.cut \cup {p.at}
                      /\ q.due = <<Callback(CallbackAt(p.at), Brought(p.at, p.cut))>>
  BY LeaveKeeps
<1>2. p.at # "start" /\ ~p.closed
  BY <1>1 DEF Collecting
<1>3. Noted(r, p.due) = r /\ Current(q, stream) = Current(p, stream)
  BY <1>1 DEF Noted, Current
<1>4. Collected(r, p.at, p.cut, Current(p, stream))
  BY <1>2, <1>3 DEF Fits, Collecting
<1>5. CASE ~InSpan(p)
  BY <1>1, <1>3, <1>4, <1>5
<1>6. CASE InSpan(p)
  <2>1. p.at \in SpanPieces /\ p.at \notin p.cut /\ p.cut \subseteq Past(p.at)
    BY <1>2, <1>6 DEF InSpan, Going, ParserInv
  <2>2. Collected(Noted(r, <<Callback(CallbackAt(p.at), Brought(p.at, p.cut))>>),
                  p.at, p.cut \cup {p.at}, Current(p, stream))
    BY <1>4, <2>1, RequestLeaves
  <2> QED BY <1>1, <1>3, <1>6, <2>2
<1> QED BY <1>5, <1>6

LEMMA FitsCalled ==
  ASSUME NEW r \in Requests, NEW p \in Parser, NEW stream \in Seq(Message),
         ParserInv(p, stream), Going(p), p.due # <<>>, Fits(r, p, stream)
  PROVE  Fits(Noted(r, p.due), Called(p), stream)
<1> SUFFICES ASSUME NEW q, q = Called(p), NEW s, s = Noted(r, p.due), Collecting(q)
             PROVE  Collected(Noted(s, q.due), q.at, q.cut, Current(q, stream))
  BY DEF Fits
<1>1. /\ q.done = p.done /\ q.at = p.at /\ q.closed = p.closed /\ q.cut = p.cut
      /\ ~Ended(p) => q.due = <<>>
      /\ Ended(p) => \/ q.due = <<Complete>>
                     \/ q.due = <<>> /\ ~Ended(q)
  BY CalledKeeps
<1>2. q.due = <<>> \/ q.due = <<Complete>>
  BY <1>1
<1>3. Noted(s, q.due) = s
  <2>1. CASE q.due = <<>>
    BY <2>1 DEF Noted
  <2>2. CASE q.due = <<Complete>>
    <3>1. q.due # <<>> /\ q.due[1] = Complete /\ Complete.cb = "on_message_complete"
      BY <2>2 DEF Complete, Callback
    <3> QED BY <3>1 DEF Noted
  <2> QED BY <1>2, <2>1, <2>2
<1>4. Collecting(p) /\ Current(q, stream) = Current(p, stream)
  BY <1>1 DEF Collecting, Current, Ended
<1> QED BY <1>1, <1>3, <1>4 DEF Fits

(* Behind the end of a message nothing of the next one has been collected. *)
LEMMA FitsAny ==
  ASSUME NEW r, NEW p \in Parser, NEW stream, p.at = "start", p.due = <<>>
  PROVE  Fits(r, p, stream) /\ FitsBy(r, p, stream)
BY DEF Fits, FitsBy, Collecting, Ended

LEMMA FitsEntered ==
  ASSUME NEW r, NEW p \in Parser, NEW stream
  PROVE  /\ Fits(r, p, stream) => Fits(r, Enter(p), stream)
         /\ FitsBy(r, p, stream) => FitsBy(r, Enter(p), stream)
<1>1. PICK q : q = Enter(p)
  OBVIOUS
<1>2. q.done = p.done /\ q.at = p.at /\ q.closed = p.closed /\ q.cut = p.cut /\ q.due = p.due
  BY <1>1 DEF Parser, Enter
<1>3. Collecting(q) = Collecting(p) /\ Current(q, stream) = Current(p, stream)
  BY <1>2 DEF Collecting, Current, Ended
<1> QED BY <1>1, <1>2, <1>3 DEF Fits, FitsBy

LEMMA FitsMore ==
  ASSUME NEW r, NEW p \in Parser, NEW stream \in Seq(Message), ParserInv(p, stream),
         NEW m \in Message
  PROVE  /\ Fits(r, p, stream) => Fits(r, p, Append(stream, m))
         /\ FitsBy(r, p, stream) => FitsBy(r, p, Append(stream, m))
BY StreamGrows DEF Fits, FitsBy

LEMMA NotedType ==
  ASSUME NEW r \in Requests, NEW p \in Parser, p.due # <<>>
  PROVE  Noted(r, p.due) \in Requests
<1>1. PICK d \in [cb : CallbackNames, data : Fragments] : d = p.due[1]
  <2>1. p.due \in Seq([cb : CallbackNames, data : Fragments])
    BY DEF Parser
  <2>2. \A S : \A t \in Seq(S) : t # <<>> => t[1] \in S
    OBVIOUS
  <2> QED BY <2>1, <2>2, Zenon
<1>2. d.cb \in CallbackNames /\ d.data \in Fragments
  BY <1>1
<1>3. NoRequest \in Requests
  <2>1. <<>> \in Fragments /\ <<>> \in Seq([key : BOOLEAN, value : Fragments])
    BY DEF Fragments
  <2> QED BY <2>1 DEF NoRequest, Requests
<1>4. [r EXCEPT !.url = d.data] \in Requests /\ [r EXCEPT !.body = d.data] \in Requests
  BY <1>2 DEF Requests
<1>5. [r EXCEPT !.key = (d.data = <<1, 2>>)] \in Requests
  BY DEF Requests
<1>6. AddsValue(r, d.data) \in Requests
  <2>1. PICK h \in [key : BOOLEAN, value : Fragments] : h = [key |-> r.key, value |-> d.data]
    BY <1>2 DEF Requests
  <2>2. PICK t \in Seq([key : BOOLEAN, value : Fragments]) : t = Append(r.headers, h)
    <3>1. r.headers \in Seq([key : BOOLEAN, value : Fragments])
      BY DEF Requests
    <3>2. Append(r.headers, h) \in Seq([key : BOOLEAN, value : Fragments])
      BY <3>1
    <3> QED BY <3>2, Zenon
  <2>3. AddsValue(r, d.data) = [r EXCEPT !.headers = t, !.key = FALSE]
    BY <2>1, <2>2 DEF AddsValue
  <2> QED BY <2>2, <2>3 DEF Requests
<1> QED BY <1>1, <1>2, <1>3, <1>4, <1>5, <1>6 DEF Noted, CallbackNames
-----------------------------------------------------------------------------
(* What the client collects. *)

Headings == [name : Fragments, values : Seq(Fragments)]

Responses == [headers : Seq(Headings), body : Fragments]

LEMMA NotedByIs ==
  ASSUME NEW r, NEW data
  PROVE  /\ NotedBy(r, <<>>) = r
         /\ NotedBy(r, <<Callback("on_message_begin", data)>>) = NoResponse
         /\ NotedBy(r, <<Callback("on_header_field", data)>>) = AddsHeader(r, data)
         /\ NotedBy(r, <<Callback("on_header_value", data)>>) = AddsPart(r, data)
         /\ NotedBy(r, <<Callback("on_body", data)>>) = [r EXCEPT !.body = data]
         /\ NotedBy(r, <<Callback("on_body", data), Complete>>) = [r EXCEPT !.body = data]
         /\ NotedBy(r, <<Complete>>) = r
BY DEF NotedBy, Callback, Complete

(* on_header_field puts a header behind the others. *)
LEMMA HeaderAdded ==
  ASSUME NEW r \in Responses, NEW f \in Fragments
  PROVE  /\ AddsHeader(r, f) \in Responses
         /\ AddsHeader(r, f).headers = Append(r.headers, Header(f, <<>>))
         /\ AddsHeader(r, f).body = r.body
<1>1. PICK h \in Headings : h = Header(f, <<>>)
  <2>1. Header(f, <<>>) \in Headings
    BY DEF Header, Headings
  <2> QED BY <2>1, Zenon
<1>2. PICK t \in Seq(Headings) : t = Append(r.headers, h)
  <2>1. Append(r.headers, h) \in Seq(Headings)
    BY DEF Headings, Responses
  <2> QED BY <2>1, Zenon
<1>3. AddsHeader(r, f) = [r EXCEPT !.headers = t]
  BY <1>1, <1>2 DEF AddsHeader, Header
<1> QED BY <1>1, <1>2, <1>3 DEF Headings, Responses

(* on_header_value puts a fragment behind the last header's. *)
LEMMA PartAdded ==
  ASSUME NEW r \in Responses, NEW b \in Seq(Headings), NEW n \in Fragments,
         NEW g \in Seq(Fragments), r.headers = Append(b, Header(n, g)),
         NEW f \in Fragments
  PROVE  /\ AddsPart(r, f).headers = Append(b, Header(n, Append(g, f)))
         /\ AddsPart(r, f).body = r.body
<1>1. PICK v \in Seq(Fragments) : v = Append(g, f)
  <2>1. Append(g, f) \in Seq(Fragments)
    OBVIOUS
  <2> QED BY <2>1, Zenon
<1>2. PICK h \in Headings : h = Header(n, g)
  <2>1. Header(n, g) \in Headings
    BY DEF Header, Headings
  <2> QED BY <2>1, Zenon
<1>3. PICK k \in Headings : k = Header(n, v)
  <2>1. Header(n, v) \in Headings
    BY DEF Header, Headings
  <2> QED BY <2>1, Zenon
<1>4. k = [h EXCEPT !.values = v] /\ h.values = g
  BY <1>2, <1>3 DEF Header
<1>5. PICK l \in Nat : l = Len(b)
  OBVIOUS
<1>6. /\ r.headers \in Seq(Headings) /\ Len(r.headers) = l + 1
      /\ r.headers[l + 1] = h /\ \A i \in 1 .. l : r.headers[i] = b[i]
  BY <1>2, <1>5
<1>7. PICK t : t = [r.headers EXCEPT ![l + 1] = k]
  OBVIOUS
<1>8. /\ t \in Seq(Headings) /\ Len(t) = l + 1
      /\ t[l + 1] = k /\ \A i \in 1 .. l : t[i] = b[i]
  <2>1. r.headers \in [1 .. l + 1 -> Headings]
    BY <1>6, LenProperties
  <2>2. t \in [1 .. l + 1 -> Headings]
    BY <1>7, <2>1
  <2>3. l + 1 \in 1 .. l + 1 /\ \A i \in 1 .. l : i \in 1 .. l + 1 /\ i # l + 1
    OBVIOUS
  <2>4. t[l + 1] = k /\ \A i \in 1 .. l : t[i] = r.headers[i]
    BY <1>7, <2>1, <2>3
  <2>5. t \in Seq(Headings) /\ Len(t) = l + 1
    BY <2>2
  <2>6. \A i \in 1 .. l : t[i] = b[i]
    BY <1>6, <2>4, Zenon
  <2> QED BY <2>4, <2>5, <2>6, Zenon
<1>9. PICK a \in Seq(Headings) : a = Append(b, k)
  <2>1. Append(b, k) \in Seq(Headings)
    OBVIOUS
  <2> QED BY <2>1, Zenon
<1>10. Len(a) = l + 1 /\ a[l + 1] = k /\ \A i \in 1 .. l : a[i] = b[i]
  BY <1>5, <1>9
<1>11. t = a
  <2>1. \A i \in 1 .. l + 1 : i \in 1 .. l \/ i = l + 1
    OBVIOUS
  <2>2. \A i \in 1 .. Len(t) : t[i] = a[i]
    BY <1>8, <1>10, <2>1
  <2> QED BY <1>8, <1>9, <1>10, <2>2, SeqEqual
<1>12. AddsPart(r, f) = [r EXCEPT !.headers = t]
  BY <1>1, <1>4, <1>6, <1>7 DEF AddsPart, Headings, Responses
<1> QED BY <1>1, <1>3, <1>9, <1>11, <1>12 DEF Headings, Responses

(* The headers made for a name *)
LEMMA MadeType ==
  ASSUME NEW cut
  PROVE  /\ MadeAtOne(cut) \in Seq(Headings) /\ MadeAtTwo(cut) \in Seq(Headings)
         /\ Brought("colon", cut) \in Fragments
<1>1. Header(<<1>>, <<>>) \in Headings /\ Header(Second("key1", cut), <<>>) \in Headings
  BY DEF Header, Headings, Second, Fragments
<1>2. MadeAtOne(cut) \in Seq(Headings)
  BY <1>1 DEF MadeAtOne
<1>3. MadeAtTwo(cut) \in Seq(Headings)
  BY <1>1, <1>2 DEF MadeAtTwo
<1> QED BY <1>2, <1>3 DEF Brought, Second, Fragments

LEMMA ResponseConsumes ==
  ASSUME NEW r \in Responses, NEW p \in Parser, NEW q \in Parser, NEW m \in Message,
         ~m.url, m.conn # "none", p.cut \subseteq Past(p.at),
         Moves(p, q, m), p.at \notin {"url1", "url2", "eol"}, q.at # "url1",
         p.at # "start" => CollectedBy(r, p.at, p.cut, m)
  PROVE  CollectedBy(NotedBy(r, q.due), q.at, q.cut, m)
<1>1. CASE /\ p.at = "start" /\ q.at = "line" /\ q.cut = {}
           /\ q.due = <<Callback("on_message_begin", <<>>)>>
  <2>1. NotedBy(r, q.due) = NoResponse
    BY <1>1 DEF NotedBy, Callback
  <2> QED BY <1>1, <2>1 DEF CollectedBy, Made, HeaderAt, NoResponse
<1>2. CASE /\ q.cut = p.cut /\ q.due = <<>>
           /\ \/ p.at = "colon" /\ q.at = "value1"
              \/ p.at = "value1" /\ q.at = "value2"
              \/ p.at = "eoh" /\ q.at = "blank"
              \/ p.at = "blank" /\ q.at = "body1"
  <2>1. NotedBy(r, q.due) = r
    BY <1>2, NotedByIs
  <2>2. HeaderAt(q.at, m) /\ HeaderAt(p.at, m)
    BY <1>2 DEF HeaderAt
  <2>3. Given(p.at, p.cut) = Given(q.at, q.cut)
    BY <1>2 DEF Given, GivenAtOne, GivenAtTwo, Past
  <2>4. Made(q.at, q.cut, m) = Made(p.at, p.cut, m)
    BY <1>2, <2>2, <2>3 DEF Made
  <2>5. q.at # "start"
    BY <1>2
  <2> QED BY <1>2, <2>1, <2>4, <2>5 DEF CollectedBy
<1>3. CASE /\ q.cut = p.cut /\ q.due = <<>>
           /\ \/ p.at = "line" /\ q.at = "key1"
              \/ p.at = "key1" /\ q.at = "key2"
  <2>1. NotedBy(r, q.due) = r
    BY <1>3, NotedByIs
  <2>2. Made(q.at, q.cut, m) = Made(p.at, p.cut, m)
    BY <1>3 DEF Made, MadeAtOne, MadeAtTwo, HeaderAt, Past
  <2> QED BY <1>3, <2>1, <2>2 DEF CollectedBy
<1>6. CASE /\ q.cut = p.cut
           /\ p.at = "key2" /\ q.at = "colon"
           /\ q.due = <<Callback("on_header_field", Brought("colon", p.cut))>>
  <2>1. PICK f \in Fragments : f = Brought("colon", p.cut)
    BY MadeType, Zenon
  <2>2. NotedBy(r, q.due) = AddsHeader(r, f)
    BY <1>6, <2>1 DEF NotedBy, Callback
  <2>3. r.headers = MadeAtTwo(p.cut)
    BY <1>6 DEF CollectedBy, Made, HeaderAt
  <2>4. NotedBy(r, q.due).headers = Append(MadeAtTwo(p.cut), Header(f, <<>>))
    BY <2>2, <2>3, HeaderAdded
  <2>5. Made(q.at, q.cut, m) = Append(MadeAtTwo(p.cut), Header(f, <<>>))
    BY <1>6, <2>1 DEF Made, HeaderAt, Given
  <2> QED BY <1>6, <2>4, <2>5 DEF CollectedBy
<1>4. CASE /\ q.cut = p.cut
           /\ p.at = "value2" /\ q.at = "eoh"
           /\ q.due = <<Callback("on_header_value", Brought("eoh", p.cut))>>
  <2>1. PICK f \in Fragments : f = Brought("eoh", p.cut)
    BY DEF Brought, Second, Fragments
  <2>2. NotedBy(r, q.due) = AddsPart(r, f)
    BY <1>4, <2>1 DEF NotedBy, Callback
  <2>3. HeaderAt(q.at, m) /\ HeaderAt(p.at, m) /\ q.at # "start"
    BY <1>4 DEF HeaderAt
  <2>4. PICK g \in Seq(Fragments) : g = Given(p.at, p.cut)
    BY <1>4, GivenType
  <2>5. PICK b \in Seq(Headings), k \in Fragments :
          b = MadeAtTwo(p.cut) /\ k = Brought("colon", p.cut)
    BY MadeType, Zenon
  <2>6. r.headers = Append(b, Header(k, g))
    BY <1>4, <2>3, <2>4, <2>5 DEF CollectedBy, Made
  <2>7. NotedBy(r, q.due).headers = Append(b, Header(k, Append(g, f)))
    BY <2>2, <2>6, PartAdded
  <2>8. Given(q.at, q.cut) = Append(g, f)
    BY <1>4, <2>1, <2>4 DEF Given, GivenAtEnd
  <2>9. Made(q.at, q.cut, m) = Append(b, Header(k, Append(g, f)))
    BY <1>4, <2>3, <2>5, <2>8 DEF Made
  <2> QED BY <2>3, <2>7, <2>9 DEF CollectedBy
<1>5. CASE /\ q.cut = p.cut
           /\ p.at = "body1" /\ q.at = "start"
           /\ q.due = <<Callback("on_body", Brought("start", p.cut)), Complete>>
  <2>1. NotedBy(r, q.due) = [r EXCEPT !.body = Brought("start", p.cut)]
    BY <1>5 DEF NotedBy, Callback
  <2>2. /\ NotedBy(r, q.due).body = Brought("start", p.cut)
        /\ NotedBy(r, q.due).headers = r.headers
    BY <2>1 DEF Headings, Responses
  <2>3. HeaderAt(q.at, m) /\ HeaderAt(p.at, m)
    BY <1>5 DEF HeaderAt
  <2>4. Given(p.at, p.cut) = Given(q.at, q.cut)
    BY <1>5 DEF Given
  <2>5. Made(q.at, q.cut, m) = Made(p.at, p.cut, m)
    BY <1>5, <2>3, <2>4 DEF Made
  <2> QED BY <1>5, <2>2, <2>5 DEF CollectedBy
<1> QED BY <1>1, <1>2, <1>3, <1>4, <1>5, <1>6 DEF Moves

(* A read ends within a span. *)
LEMMA ResponseLeaves ==
  ASSUME NEW r \in Responses, NEW at \in {"key1", "key2", "value1", "value2", "body1"},
         NEW cut, cut \subseteq Past(at), at \notin cut, NEW m, m.conn # "none",
         CollectedBy(r, at, cut, m)
  PROVE  CollectedBy(NotedBy(r, <<Callback(CallbackAt(at), Brought(at, cut))>>),
                     at, cut \cup {at}, m)
<1>1. PICK f \in Fragments : f = Brought(at, cut)
  BY DEF Brought, Second, Fragments
<1>2. PICK next : next = cut \cup {at}
  OBVIOUS
<1>3. PICK n : n = NotedBy(r, <<Callback(CallbackAt(at), f)>>)
  OBVIOUS
<1>4. r.headers = Made(at, cut, m) /\ at # "start"
  BY DEF CollectedBy
<1>5. ASSUME n.headers = Made(at, next, m)
      PROVE  CollectedBy(n, at, next, m)
  BY <1>4, <1>5 DEF CollectedBy
<1>6. CASE at \in {"key1", "key2"}
  <2>1. CallbackAt(at) = "on_header_field"
    BY <1>6 DEF CallbackAt
  <2>2. n = AddsHeader(r, f)
    BY <1>3, <2>1 DEF NotedBy, Callback
  <2>3. n.headers = Append(Made(at, cut, m), Header(f, <<>>))
    BY <1>4, <2>2, HeaderAdded
  <2>4. Made(at, next, m) = Append(Made(at, cut, m), Header(f, <<>>))
    <3>1. CASE at = "key1"
      BY <1>1, <1>2, <3>1, AppendToEmpty DEF Made, MadeAtOne, Brought, HeaderAt
    <3>2. CASE at = "key2"
      <4>1. /\ "key1" \in next <=> "key1" \in cut
            /\ "key2" \in next /\ "key2" \notin cut
        BY <1>2, <3>2
      <4>2. MadeAtOne(next) = MadeAtOne(cut) /\ f = Second("key1", next)
        BY <1>1, <3>2, <4>1 DEF MadeAtOne, Brought, Second
      <4> QED BY <3>2, <4>1, <4>2 DEF Made, MadeAtTwo, HeaderAt
    <3> QED BY <1>6, <3>1, <3>2
  <2> QED BY <1>1, <1>2, <1>3, <1>5, <2>3, <2>4
<1>7. ASSUME at \in {"value1", "value2", "body1"}
      PROVE  /\ HeaderAt(at, m)
             /\ MadeAtTwo(next) = MadeAtTwo(cut)
             /\ Brought("colon", next) = Brought("colon", cut)
  BY <1>2, <1>7 DEF HeaderAt, MadeAtTwo, MadeAtOne, Brought, Second
<1>8. CASE at \in {"value1", "value2"}
  <2>1. CallbackAt(at) = "on_header_value"
    BY <1>8 DEF CallbackAt
  <2>2. n = AddsPart(r, f)
    BY <1>3, <2>1 DEF NotedBy, Callback
  <2>3. PICK g \in Seq(Fragments) : g = Given(at, cut)
    BY <1>8, GivenType
  <2>4. PICK b \in Seq(Headings), k \in Fragments :
          b = MadeAtTwo(cut) /\ k = Brought("colon", cut)
    BY MadeType, Zenon
  <2>5. r.headers = Append(b, Header(k, g))
    BY <1>4, <1>7, <1>8, <2>3, <2>4 DEF Made
  <2>6. n.headers = Append(b, Header(k, Append(g, f)))
    BY <2>2, <2>5, PartAdded
  <2>7. Given(at, next) = Append(g, f)
    <3>1. CASE at = "value1"
      BY <1>1, <1>2, <2>3, <3>1, AppendToEmpty DEF Given, GivenAtOne, Brought
    <3>2. CASE at = "value2"
      BY <1>1, <1>2, <2>3, <3>2 DEF Given, GivenAtTwo, GivenAtOne, Brought, Second
    <3> QED BY <1>8, <3>1, <3>2
  <2>8. Made(at, next, m) = Append(b, Header(k, Append(g, f)))
    BY <1>7, <1>8, <2>4, <2>7 DEF Made
  <2> QED BY <1>1, <1>2, <1>3, <1>5, <2>6, <2>8
<1>9. CASE at = "body1"
  <2>1. CallbackAt(at) = "on_body"
    BY <1>9 DEF CallbackAt
  <2>2. n = [r EXCEPT !.body = f]
    BY <1>3, <2>1 DEF NotedBy, Callback
  <2>3. n.headers = r.headers
    BY <2>2 DEF Headings, Responses
  <2>4. Given(at, next) = Given(at, cut)
    BY <1>2, <1>9 DEF Brought, Second, Given, GivenAtEnd, GivenAtTwo, GivenAtOne
  <2>5. Made(at, next, m) = Made(at, cut, m)
    BY <1>7, <1>9, <2>4 DEF Made
  <2> QED BY <1>1, <1>2, <1>3, <1>4, <1>5, <2>3, <2>5
<1> QED BY <1>6, <1>8, <1>9

LEMMA FitsByConsumed ==
  ASSUME NEW r \in Responses, NEW p \in Parser, NEW stream \in Seq(Message),
         ParserInv(p, stream), p.due = <<>>, Unread(p, stream), FitsBy(r, p, stream),
         \A i \in 1 .. Len(stream) : ~stream[i].url /\ stream[i].conn # "none"
  PROVE  FitsBy(r, Consume(p, stream[p.done + 1]), stream)
<1> SUFFICES ASSUME NEW q, q = Consume(p, stream[p.done + 1]), Collecting(q)
             PROVE  CollectedBy(NotedBy(r, q.due), q.at, q.cut, Current(q, stream))
  BY DEF FitsBy
<1>1. /\ q \in Parser /\ ParserInv(q, stream)
      /\ p.closed => q.due = <<>> /\ q.closed
      /\ ~p.closed => /\ Over(q) = p.done
                      /\ q.at # "start" => q.done = p.done
                      /\ Moves(p, q, stream[p.done + 1])
  BY ConsumeKeeps
<1>2. ~p.closed
  BY <1>1 DEF Collecting, Ended
<1>3. p.done \in Nat /\ p.done + 1 \in 1 .. Len(stream)
  BY DEF Parser, Unread
<1>4. PICK m \in Message : m = stream[p.done + 1]
  BY <1>3
<1>5. ~m.url /\ m.conn # "none"
  BY <1>3, <1>4
<1>6. p.cut \subseteq Past(p.at) /\ p.at \notin {"url1", "url2", "eol"}
  BY <1>2, <1>4, <1>5 DEF ParserInv
<1>7. p.at # "start" => CollectedBy(r, p.at, p.cut, m)
  <2>1. NotedBy(r, p.due) = r
    BY DEF NotedBy
  <2> QED BY <1>2, <1>4, <2>1 DEF FitsBy, Collecting, Current
<1>8. CollectedBy(NotedBy(r, q.due), q.at, q.cut, m)
  <2>1. q.at # "url1"
    BY <1>1, <1>2, <1>4, <1>5 DEF ParserInv
  <2> QED BY <1>1, <1>2, <1>4, <1>5, <1>6, <1>7, <2>1, ResponseConsumes
<1>9. Current(q, stream) = m
  <2>1. q.done \in Nat
    BY <1>1 DEF Parser
  <2>2. q.at = "start" => q.done = p.done + 1
    BY <1>1, <1>2, <1>3, <2>1 DEF Over, Collecting, Ended
  <2> QED BY <1>1, <1>2, <1>4, <2>2 DEF Current
<1> QED BY <1>8, <1>9

LEMMA FitsByLeft ==
  ASSUME NEW r \in Responses, NEW p \in Parser, NEW stream \in Seq(Message),
         ParserInv(p, stream), Going(p), p.busy, p.due = <<>>, FitsBy(r, p, stream),
         \A i \in 1 .. Len(stream) : ~stream[i].url /\ stream[i].conn # "none"
  PROVE  FitsBy(r, Leave(p), stream)
<1> SUFFICES ASSUME NEW q, q = Leave(p), Collecting(q)
             PROVE  CollectedBy(NotedBy(r, q.due), q.at, q.cut, Current(q, stream))
  BY DEF FitsBy
<1>1. /\ q.done = p.done /\ q.at = p.at /\ q.closed = p.closed
      /\ ~Ended(q)
      /\ ~InSpan(p) => q.due = <<>> /\ q.cut = p.cut
      /\ InSpan(p) => /\ q.cut = p.cut \cup {p.at}
                      /\ q.due = <<Callback(CallbackAt(p.at), Brought(p.at, p.cut))>>
  BY LeaveKeeps
<1>2. p.at # "start" /\ ~p.closed
  BY <1>1 DEF Collecting
<1>3. NotedBy(r, p.due) = r /\ Current(q, stream) = Current(p, stream)
  BY <1>1 DEF NotedBy, Current
<1>4. CollectedBy(r, p.at, p.cut, Current(p, stream))
  BY <1>2, <1>3 DEF FitsBy, Collecting
<1>5. CASE ~InSpan(p)
  BY <1>1, <1>3, <1>4, <1>5
<1>6. CASE InSpan(p)
  <2>1. p.at \in SpanPieces /\ p.at \notin p.cut /\ p.cut \subseteq Past(p.at)
    BY <1>2, <1>6 DEF InSpan, Going, ParserInv
  <2>2. p.done \in Nat /\ p.done + 1 \in 1 .. Len(stream)
    BY <1>2 DEF Parser, ParserInv
  <2>3. Current(p, stream).conn # "none" /\ p.at \notin {"url1", "url2"}
    BY <1>2, <2>2 DEF Current, ParserInv
  <2>4. p.at \in {"key1", "key2", "value1", "value2", "body1"}
    BY <2>1, <2>3 DEF SpanPieces
  <2>5. CollectedBy(NotedBy(r, <<Callback(CallbackAt(p.at), Brought(p.at, p.cut))>>),
                    p.at, p.cut \cup {p.at}, Current(p, stream))
    BY <1>4, <2>1, <2>3, <2>4, ResponseLeaves
  <2> QED BY <1>1, <1>3, <1>6, <2>5
<1> QED BY <1>5, <1>6

LEMMA FitsByCalled ==
  ASSUME NEW r, NEW p \in Parser, NEW stream \in Seq(Message),
         ParserInv(p, stream), Going(p), p.due # <<>>, FitsBy(r, p, stream)
  PROVE  FitsBy(NotedBy(r, p.due), Called(p), stream)
<1> SUFFICES ASSUME NEW q, q = Called(p), NEW s, s = NotedBy(r, p.due), Collecting(q)
             PROVE  CollectedBy(NotedBy(s, q.due), q.at, q.cut, Current(q, stream))
  BY DEF FitsBy
<1>1. /\ q.done = p.done /\ q.at = p.at /\ q.closed = p.closed /\ q.cut = p.cut
      /\ ~Ended(p) => q.due = <<>>
      /\ Ended(p) => \/ q.due = <<Complete>>
                     \/ q.due = <<>> /\ ~Ended(q)
  BY CalledKeeps
<1>2. q.due = <<>> \/ q.due = <<Complete>>
  BY <1>1
<1>3. NotedBy(s, q.due) = s
  BY <1>2, NotedByIs
<1>4. Collecting(p) /\ Current(q, stream) = Current(p, stream)
  BY <1>1 DEF Collecting, Current, Ended
<1> QED BY <1>1, <1>3, <1>4 DEF FitsBy

LEMMA ExceptType ==
  ASSUME NEW n \in Nat, NEW S, NEW h \in [1 .. n -> S], NEW g, n > 0 => g \in S
  PROVE  [h EXCEPT ![n] = g] \in [1 .. n -> S]
<1>1. CASE n > 0
  BY <1>1
<1>2. CASE n = 0
  <2>1. 1 .. n = {}
    BY <1>2
  <2>2. PICK t : t = [h EXCEPT ![n] = g]
    OBVIOUS
  <2>3. DOMAIN t = 1 .. n /\ t = [i \in 1 .. n |-> t[i]]
    BY <2>2
  <2> QED BY <2>1, <2>2, <2>3
<1> QED BY <1>1, <1>2

LEMMA NotedByType ==
  ASSUME NEW r \in Responses, NEW p \in Parser, p.due # <<>>
  PROVE  NotedBy(r, p.due) \in Responses
<1>1. PICK d \in [cb : CallbackNames, data : Fragments] : d = p.due[1]
  <2>1. p.due \in Seq([cb : CallbackNames, data : Fragments])
    BY DEF Parser
  <2>2. \A S : \A t \in Seq(S) : t # <<>> => t[1] \in S
    OBVIOUS
  <2> QED BY <2>1, <2>2, Zenon
<1>2. d.cb \in CallbackNames /\ d.data \in Fragments
  BY <1>1
<1>3. NoResponse \in Responses
  <2>1. <<>> \in Fragments /\ <<>> \in Seq(Headings)
    BY DEF Fragments
  <2> QED BY <2>1 DEF NoResponse, Headings, Responses
<1>4. [r EXCEPT !.body = d.data] \in Responses
  BY <1>2 DEF Headings, Responses
<1>5. r.headers \in Seq(Headings)
  BY DEF Headings, Responses
<1>6. AddsHeader(r, d.data) \in Responses
  BY <1>2, HeaderAdded
<1>7. AddsPart(r, d.data) \in Responses
  <2>1. PICK n \in Nat : n = Len(r.headers)
    BY <1>5
  <2>2. PICK h : h = r.headers[n]
    OBVIOUS
  <2>3. PICK g : g = [h EXCEPT !.values = Append(h.values, d.data)]
    OBVIOUS
  <2>4. n > 0 => h \in Headings
    BY <1>5, <2>1, <2>2
  <2>5. n > 0 => Append(h.values, d.data) \in Seq(Fragments)
    BY <1>2, <2>4 DEF Headings
  <2>6. n > 0 => g \in Headings
    <3>1. PICK v : v = Append(h.values, d.data)
      OBVIOUS
    <3> QED BY <2>3, <2>4, <2>5, <3>1 DEF Headings
  <2>7. PICK t : t = [r.headers EXCEPT ![n] = g]
    OBVIOUS
  <2>8. r.headers \in [1 .. n -> Headings]
    BY <1>5, <2>1
  <2>9. t \in [1 .. n -> Headings]
    BY <2>6, <2>7, <2>8, ExceptType
  <2>10. t \in Seq(Headings)
    BY <2>9
  <2>11. AddsPart(r, d.data) = [r EXCEPT !.headers = t]
    BY <2>1, <2>2, <2>3, <2>7 DEF AddsPart, Headings, Responses
  <2> QED BY <2>10, <2>11 DEF Headings, Responses
<1> QED BY <1>1, <1>2, <1>3, <1>4, <1>6, <1>7 DEF NotedBy, CallbackNames
-----------------------------------------------------------------------------
(* The steps of the session. *)

(* What the types say of the streams and of what is collected from them *)
LEMMA Typed ==
  ASSUME TypeOK
  PROVE  /\ sp \in Parser /\ cp \in Parser
         /\ c2s \in Seq(Message) /\ s2c \in Seq(Message)
         /\ \A i \in 1 .. Len(c2s) : c2s[i].url /\ c2s[i].msg \in 1 .. MaxPosts
         /\ \A i \in 1 .. Len(s2c) : /\ ~s2c[i].url /\ s2c[i].conn = "any"
                                     /\ s2c[i].msg \in 1 .. MaxPosts
         /\ req \in Requests /\ response \in Responses
         /\ posts \in Nat /\ MaxPosts \in Nat /\ MaxCuts \in Nat
<1>1. MaxPosts \in Nat /\ MaxCuts \in Nat
  BY LoopAssumption
<1>2. c2s \in Seq([msg : 1 .. MaxPosts, conn : {"none", "close", "keep-alive"}, url : {TRUE}])
  BY DEF TypeOK, LoopTypeOK
<1>3. s2c \in Seq([msg : 1 .. MaxPosts, conn : {"any"}, url : {FALSE}])
  BY DEF TypeOK, LoopTypeOK
<1>4. \A S, T : S \subseteq T => \A t \in Seq(S) : t \in Seq(T)
  OBVIOUS
<1>5. ASSUME NEW x \in [msg : 1 .. MaxPosts, conn : {"none", "close", "keep-alive"}, url : {TRUE}]
      PROVE  x \in Message /\ x.url /\ x.msg \in 1 .. MaxPosts
  <2>1. x.msg \in 1 .. MaxPosts /\ x.conn \in {"none", "close", "keep-alive"}
    OBVIOUS
  <2>2. x.url \in {TRUE}
    OBVIOUS
  <2>3. x.url = TRUE /\ x.url \in BOOLEAN
    BY <2>2
  <2>4. x = [msg |-> x.msg, conn |-> x.conn, url |-> x.url]
    OBVIOUS
  <2>5. x.msg \in Nat
    BY <1>1, <2>1
  <2>6. x \in Message
    BY <2>1, <2>3, <2>4, <2>5 DEF Message
  <2> QED BY <2>1, <2>3, <2>6
<1>6. ASSUME NEW x \in [msg : 1 .. MaxPosts, conn : {"any"}, url : {FALSE}]
      PROVE  x \in Message /\ ~x.url /\ x.conn = "any" /\ x.msg \in 1 .. MaxPosts
  <2>1. x.msg \in 1 .. MaxPosts /\ x.conn \in {"any"}
    OBVIOUS
  <2>2. x.url \in {FALSE}
    OBVIOUS
  <2>3. x.url = FALSE /\ x.url \in BOOLEAN
    BY <2>2
  <2>4. x = [msg |-> x.msg, conn |-> x.conn, url |-> x.url]
    OBVIOUS
  <2>5. x.msg \in Nat
    BY <1>1, <2>1
  <2>6. x \in Message
    BY <2>1, <2>3, <2>4, <2>5 DEF Message
  <2> QED BY <2>1, <2>3, <2>6
<1>7. c2s \in Seq(Message) /\ s2c \in Seq(Message)
  BY <1>2, <1>3, <1>4, <1>5, <1>6, Zenon
<1>11. \A S : \A t \in Seq(S) : \A i \in 1 .. Len(t) : t[i] \in S
  OBVIOUS
<1>8. \A i \in 1 .. Len(c2s) : c2s[i].url /\ c2s[i].msg \in 1 .. MaxPosts
  BY <1>2, <1>5, <1>11, Zenon
<1>9. \A i \in 1 .. Len(s2c) : /\ ~s2c[i].url /\ s2c[i].conn = "any"
                               /\ s2c[i].msg \in 1 .. MaxPosts
  BY <1>3, <1>6, <1>11, Zenon
<1>10. posts \in Nat
  BY <1>1 DEF TypeOK, CliTypeOK
<1> QED
  BY <1>1, <1>7, <1>8, <1>9, <1>10 DEF TypeOK, SrvTypeOK, CliTypeOK, Requests, Headings, Responses

LEMMA InitIInv == Init => IInv
<1> SUFFICES ASSUME Init
             PROVE  IInv
  OBVIOUS
<1> USE DEF Init, LoopInit, SrvInit, CliInit
<1>1. /\ FreshParser \in Parser /\ ParserInv(FreshParser, <<>>) /\ Going(FreshParser)
      /\ Over(FreshParser) = 0 /\ ~Ended(FreshParser) /\ Idle(FreshParser)
      /\ FreshParser.at = "start" /\ ~FreshParser.closed /\ FreshParser.done = 0
  <2>1. Len(<<>>) = 0
    OBVIOUS
  <2> QED BY <2>1, FreshKeeps
<1>2. TypeOK
  <2>1. LoopTypeOK
    BY LoopAssumption DEF LoopTypeOK
  <2>2. SrvTypeOK
    BY <1>1 DEF SrvTypeOK, NoRequest, Fragments
  <2>3. CliTypeOK
    BY <1>1, LoopAssumption DEF CliTypeOK, NoResponse, Fragments
  <2> QED BY <2>1, <2>2, <2>3 DEF TypeOK
<1>3. RequestInv /\ ResponseInv
  <2>1. sp.due = <<>> /\ cp.due = <<>>
    BY DEF FreshParser
  <2> QED BY <1>1, <2>1, FitsAny DEF RequestInv, ResponseInv
<1>4. HandedInv
  BY <1>1 DEF HandedInv
<1>5. RepliesInv
  BY DEF RepliesInv
<1>6. ServerInv /\ AheadInv /\ PostsInv
  BY <1>1 DEF ServerInv, AheadInv, ClosedWhileParsing, PostsInv
<1>7. ClientInv /\ AnswersInv /\ CloseInv /\ DiesOnlyIf
  BY <1>1 DEF ClientInv, AnswersInv, Failed, CloseInv, DiesOnlyIf
<1> QED BY <1>1, <1>2, <1>3, <1>4, <1>5, <1>6, <1>7 DEF IInv

(* The server's parser goes on, and the request with it. *)
LEMMA SrvParserStep ==
  ASSUME IInv, srv # "none",
         UNCHANGED <<c2s, s2c, link, fin, process, listening, srv, handed, unsent, cliVars>>,
         cuts' \in 0 .. MaxCuts, sp' \in Parser, ParserInv(sp', c2s), Going(sp'),
         req' \in Requests, Fits(req', sp', c2s),
         Over(sp) <= Over(sp'),
         ~sp'.closed \/ Ended(sp') => Over(sp') = Over(sp) /\ (~sp.closed \/ Ended(sp)),
         sp'.closed /\ ~Ended(sp') => srv # "open",
         "ahead" \notin conduct /\ srv # "open" /\ ~Idle(sp') =>
           ~Unread(sp', c2s) /\ ~Ended(sp')
  PROVE  IInv'
<1> USE DEF cliVars
<1>1. TypeOK'
  <2>1. LoopTypeOK'
    BY DEF IInv, TypeOK, LoopTypeOK
  <2>2. SrvTypeOK'
    BY DEF IInv, TypeOK, SrvTypeOK, Requests
  <2>3. CliTypeOK'
    BY DEF IInv, TypeOK, CliTypeOK
  <2> QED BY <2>1, <2>2, <2>3 DEF TypeOK
<1>2. (ParserInv(sp, c2s) /\ Going(sp) /\ RequestInv)'
  BY DEF RequestInv
<1>3. (ParserInv(cp, s2c) /\ Going(cp) /\ ResponseInv)'
  BY DEF IInv, ResponseInv
<1>4. HandedInv'
  <2>1. Len(handed) \in Nat /\ Over(sp) \in Int /\ Over(sp') \in Int
    BY DEF IInv, TypeOK, SrvTypeOK, Over, Parser
  <2> QED BY <2>1 DEF IInv, HandedInv
<1>5. RepliesInv'
  BY DEF IInv, RepliesInv, Running
<1>6. ServerInv'
  BY DEF IInv, ServerInv
<1>7. AheadInv'
  BY DEF IInv, AheadInv, ClosedWhileParsing
<1>8. PostsInv' /\ ClientInv'
  BY DEF IInv, PostsInv, ClientInv
<1>9. AnswersInv' /\ CloseInv' /\ DiesOnlyIf'
  BY DEF IInv, AnswersInv, Failed, CloseInv, DiesOnlyIf
<1> QED BY <1>1, <1>2, <1>3, <1>4, <1>5, <1>6, <1>7, <1>8, <1>9 DEF IInv

(* The client's parser goes on, and the response with it. *)
LEMMA CliParserStep ==
  ASSUME IInv, tcp = "open" \/ ~Idle(cp), Idle(sp),
         UNCHANGED <<listening, c2s, s2c, link, fin, process, tcp, posts, current,
                     answers, conduct, srvVars>>,
         cuts' \in 0 .. MaxCuts, cp' \in Parser, ParserInv(cp', s2c), Going(cp'),
         response' \in Responses, tcp # "closed" => FitsBy(response', cp', s2c),
         Over(cp') = Over(cp), ~cp'.closed
  PROVE  IInv'
<1> USE DEF srvVars
<1>1. TypeOK'
  <2>1. LoopTypeOK'
    BY DEF IInv, TypeOK, LoopTypeOK
  <2>2. SrvTypeOK'
    BY DEF IInv, TypeOK, SrvTypeOK
  <2>3. CliTypeOK'
    BY DEF IInv, TypeOK, CliTypeOK, Headings, Responses
  <2> QED BY <2>1, <2>2, <2>3 DEF TypeOK
<1>2. (ParserInv(sp, c2s) /\ Going(sp) /\ RequestInv)'
  BY DEF IInv, RequestInv
<1>3. (ParserInv(cp, s2c) /\ Going(cp) /\ ResponseInv)'
  BY DEF ResponseInv
<1>4. tcp \in {"open", "closing"}
  <2>1. Idle(FreshParser)
    BY DEF Idle, FreshParser
  <2> QED BY <2>1 DEF IInv, ClientInv, TypeOK, CliTypeOK
<1>5. ~Failed
  BY DEF IInv, AnswersInv
<1>6. HandedInv' /\ RepliesInv' /\ ServerInv'
  BY DEF IInv, HandedInv, RepliesInv, Running, ServerInv
<1>7. AheadInv'
  BY DEF IInv, AheadInv, ClosedWhileParsing
<1>8. PostsInv' /\ CloseInv' /\ DiesOnlyIf'
  BY DEF IInv, PostsInv, CloseInv, DiesOnlyIf
<1>9. ClientInv'
  BY <1>4 DEF IInv, ClientInv
<1>10. AnswersInv'
  BY <1>5 DEF IInv, AnswersInv, Failed
<1> QED BY <1>1, <1>2, <1>3, <1>6, <1>7, <1>8, <1>9, <1>10 DEF IInv
LEMMA SrvReadStep ==
  ASSUME IInv, SrvRead, UNCHANGED cliVars
  PROVE  IInv'
<1> USE Typed DEF SrvRead
<1>1. TypeOK /\ ParserInv(sp, c2s) /\ Going(sp) /\ Fits(req, sp, c2s)
  BY DEF IInv, RequestInv
<1>2. PICK e : e = Enter(sp)
  OBVIOUS
<1>3. /\ e \in Parser /\ ParserInv(e, c2s)
      /\ e.done = sp.done /\ e.closed = sp.closed /\ e.due = <<>> /\ e.busy
      /\ Fits(req, e, c2s)
  BY <1>1, <1>2, EnterKeeps, FitsEntered DEF Idle
<1>4. Unread(e, c2s) /\ sp' = Consume(e, c2s[e.done + 1]) /\ cuts' = cuts
  BY <1>2 DEF ParsesNext
<1>5. /\ sp' \in Parser /\ ParserInv(sp', c2s) /\ Going(sp')
      /\ ~e.closed => Over(sp') = e.done /\ (sp'.closed => Ended(sp'))
  BY <1>1, <1>3, <1>4, ConsumeKeeps
<1>6. Fits(req, sp', c2s)
  BY <1>1, <1>3, <1>4, FitsConsumed
<1>7. ~sp.closed /\ ~Ended(sp) /\ Over(sp) = sp.done /\ sp.done \in Nat
  BY <1>1 DEF IInv, ServerInv, Idle, Ended, Over, Parser
<1>8. cuts \in 0 .. MaxCuts
  BY <1>1 DEF TypeOK, LoopTypeOK
<1> QED BY <1>1, <1>3, <1>4, <1>5, <1>6, <1>7, <1>8, SrvParserStep

LEMMA SrvParseStep ==
  ASSUME IInv, SrvParse, UNCHANGED cliVars
  PROVE  IInv'
<1> USE Typed DEF SrvParse, Parses
<1>1. TypeOK /\ ParserInv(sp, c2s) /\ Going(sp) /\ Fits(req, sp, c2s)
  BY DEF IInv, RequestInv
<1>2. srv # "none" /\ ~Ended(sp) /\ Over(sp) = sp.done /\ sp.done \in Nat
  <2>1. sp # FreshParser
    BY DEF FreshParser
  <2> QED BY <1>1, <2>1 DEF IInv, ServerInv, Ended, Over, Parser
<1>3. "ahead" \notin conduct /\ srv # "open" => ~Unread(sp, c2s)
  BY <1>2 DEF IInv, AheadInv, ClosedWhileParsing, Idle
<1>4. sp.closed => srv # "open"
  BY <1>2 DEF IInv, ServerInv
<1>5. cuts \in 0 .. MaxCuts
  BY <1>1 DEF TypeOK, LoopTypeOK
<1>6. CASE ParsesNext(sp, c2s, sp')
  <2>1. Unread(sp, c2s) /\ sp' = Consume(sp, c2s[sp.done + 1]) /\ cuts' = cuts
    BY <1>6 DEF ParsesNext
  <2>2. /\ sp' \in Parser /\ ParserInv(sp', c2s) /\ Going(sp')
        /\ sp.closed => sp'.due = <<>> /\ sp'.closed /\ sp.done <= sp'.done
        /\ ~sp.closed => Over(sp') = sp.done /\ (sp'.closed => Ended(sp'))
    BY <1>1, <2>1, ConsumeKeeps
  <2>3. Fits(req, sp', c2s)
    BY <1>1, <2>1, FitsConsumed
  <2>4. sp.closed => ~Ended(sp') /\ Over(sp') = sp'.done
    BY <2>2 DEF Ended, Over
  <2> QED BY <1>1, <1>2, <1>3, <1>4, <1>5, <2>1, <2>2, <2>3, <2>4, SrvParserStep
<1>7. CASE Ends(sp, c2s, sp')
  <2>1. sp' = Leave(sp) /\ cuts' \in 0 .. MaxCuts
    BY <1>1, <1>5, <1>7 DEF Ends
  <2>2. /\ sp' \in Parser /\ ParserInv(sp', c2s) /\ Going(sp')
        /\ sp'.done = sp.done /\ sp'.closed = sp.closed /\ ~Ended(sp') /\ Over(sp') = Over(sp)
    BY <1>1, <2>1, LeaveKeeps
  <2>3. Fits(req, sp', c2s)
    BY <1>1, <2>1, FitsLeft
  <2>4. Unread(sp', c2s) = Unread(sp, c2s)
    BY <2>2 DEF Unread
  <2> QED BY <1>1, <1>2, <1>3, <1>4, <2>1, <2>2, <2>3, <2>4, SrvParserStep
<1> QED BY <1>6, <1>7

(* The callbacks that collect a request *)
LEMMA SrvCollectStep ==
  ASSUME IInv, UNCHANGED cliVars,
         OnMessageBegin \/ OnUrl \/ OnHeaderField \/ OnHeaderValue \/ OnBody
  PROVE  IInv'
<1>1. TypeOK /\ ParserInv(sp, c2s) /\ Going(sp) /\ Fits(req, sp, c2s)
  BY DEF IInv, RequestInv
<1>2. /\ sp.due # <<>> /\ sp.due[1].cb # "on_message_complete"
      /\ sp' = Called(sp) /\ req' = Noted(req, sp.due)
  BY DEF OnMessageBegin, OnUrl, OnHeaderField, OnHeaderValue, OnBody, SrvCall, Due,
         Noted, AddsValue
<1>3. UNCHANGED <<c2s, s2c, link, cuts, fin, process, listening, srv, handed, unsent, cliVars>>
  BY DEF OnMessageBegin, OnUrl, OnHeaderField, OnHeaderValue, OnBody, SrvCall
<1>4. /\ sp' \in Parser /\ ParserInv(sp', c2s) /\ Going(sp')
      /\ sp'.done = sp.done /\ sp'.closed = sp.closed
      /\ ~Ended(sp) => ~Ended(sp')
      /\ Ended(sp) => Ended(sp') \/ sp.due[1] = Complete
  BY <1>1, <1>2, CalledKeeps, Typed
<1>5. Ended(sp) => Ended(sp')
  BY <1>2, <1>4 DEF Complete, Callback
<1>6. Over(sp') = Over(sp) /\ Over(sp) \in Int
  BY <1>1, <1>4, <1>5, Typed DEF Over, Parser
<1>7. Fits(req', sp', c2s) /\ req' \in Requests
  BY <1>1, <1>2, FitsCalled, NotedType, Typed
<1>8. srv # "none"
  <2>1. sp # FreshParser
    BY <1>2 DEF FreshParser
  <2> QED BY <2>1 DEF IInv, ServerInv
<1>9. "ahead" \notin conduct /\ srv # "open" => ~Unread(sp', c2s) /\ ~Ended(sp')
  BY <1>2, <1>4, <1>5, <1>8 DEF IInv, AheadInv, ClosedWhileParsing, Idle, Unread
<1>10. sp'.closed /\ ~Ended(sp') => srv # "open"
  BY <1>4, <1>5 DEF IInv, ServerInv
<1>11. cuts' \in 0 .. MaxCuts
  BY <1>1, <1>3 DEF TypeOK, LoopTypeOK
<1> QED BY <1>3, <1>4, <1>5, <1>6, <1>7, <1>8, <1>9, <1>10, <1>11, SrvParserStep

LEMMA OnConnectedStep ==
  ASSUME IInv, OnConnected, UNCHANGED cliVars
  PROVE  IInv'
<1> USE Typed DEF OnConnected, cliVars
<1>1. TypeOK /\ srv = "none" /\ sp' = sp /\ sp = FreshParser
  BY DEF IInv, ServerInv
<1>2. /\ FreshParser \in Parser
      /\ Over(FreshParser) = 0 /\ ~Ended(FreshParser) /\ Idle(FreshParser)
      /\ FreshParser.at = "start" /\ ~FreshParser.closed /\ FreshParser.due = <<>>
  <2>1. Len(c2s) \in Nat
    BY <1>1
  <2> QED BY <2>1, FreshKeeps DEF FreshParser
<1>3. TypeOK'
  <2>1. LoopTypeOK' /\ CliTypeOK'
    BY <1>1 DEF TypeOK, LoopTypeOK, CliTypeOK
  <2>2. SrvTypeOK'
    BY <1>1 DEF TypeOK, SrvTypeOK, NoRequest, Fragments
  <2> QED BY <2>1, <2>2 DEF TypeOK
<1>4. (ParserInv(sp, c2s) /\ Going(sp) /\ RequestInv)'
  <2>1. RequestInv'
    BY <1>1, <1>2, FitsAny DEF RequestInv
  <2> QED BY <1>1, <2>1 DEF IInv
<1>5. (ParserInv(cp, s2c) /\ Going(cp) /\ ResponseInv)'
  BY DEF IInv, ResponseInv
<1>6. HandedInv'
  BY <1>1 DEF IInv, HandedInv
<1>7. RepliesInv'
  <2>1. Len(handed) = 0
    BY <1>1, <1>2 DEF IInv, HandedInv, TypeOK, SrvTypeOK
  <2>2. Len(s2c) \in Nat /\ Len(unsent) \in Nat
    BY <1>1 DEF TypeOK, SrvTypeOK
  <2> QED BY <1>1, <2>1, <2>2 DEF IInv, RepliesInv, Running
<1>8. ServerInv' /\ AheadInv'
  BY <1>1, <1>2 DEF IInv, ServerInv, AheadInv, ClosedWhileParsing
<1>9. PostsInv' /\ ClientInv' /\ AnswersInv'
  BY DEF IInv, PostsInv, ClientInv, AnswersInv, Failed
<1>10. CloseInv' /\ DiesOnlyIf'
  BY DEF IInv, CloseInv, DiesOnlyIf
<1> QED BY <1>3, <1>4, <1>5, <1>6, <1>7, <1>8, <1>9, <1>10 DEF IInv

LEMMA StopListeningStep ==
  ASSUME IInv, StopListening, UNCHANGED cliVars
  PROVE  IInv'
<1> USE DEF StopListening, cliVars
<1>1. fin \subseteq fin' /\ fin' \subseteq fin \cup {"server"}
  OBVIOUS
<1>2. TypeOK'
  <2>1. LoopTypeOK' /\ CliTypeOK'
    BY <1>1 DEF IInv, TypeOK, LoopTypeOK, CliTypeOK
  <2>2. SrvTypeOK'
    BY DEF IInv, TypeOK, SrvTypeOK
  <2> QED BY <2>1, <2>2 DEF TypeOK
<1>3. (ParserInv(sp, c2s) /\ Going(sp) /\ RequestInv)'
  BY DEF IInv, RequestInv
<1>4. (ParserInv(cp, s2c) /\ Going(cp) /\ ResponseInv)'
  BY DEF IInv, ResponseInv
<1>5. HandedInv' /\ RepliesInv'
  BY DEF IInv, HandedInv, RepliesInv, Running
<1>6. ServerInv' /\ AheadInv'
  BY <1>1 DEF IInv, ServerInv, AheadInv, ClosedWhileParsing
<1>7. PostsInv' /\ ClientInv' /\ AnswersInv'
  BY <1>1 DEF IInv, PostsInv, ClientInv, AnswersInv, Failed
<1>8. CloseInv' /\ DiesOnlyIf'
  BY <1>1 DEF IInv, CloseInv, DiesOnlyIf
<1> QED BY <1>2, <1>3, <1>4, <1>5, <1>6, <1>7, <1>8 DEF IInv

LEMMA SrvEofStep ==
  ASSUME IInv, SrvEof, UNCHANGED cliVars
  PROVE  IInv'
<1> USE DEF SrvEof, SrvClose, cliVars
<1>1. TypeOK'
  <2>1. LoopTypeOK' /\ CliTypeOK'
    BY DEF IInv, TypeOK, LoopTypeOK, CliTypeOK
  <2>2. SrvTypeOK'
    BY DEF IInv, TypeOK, SrvTypeOK
  <2> QED BY <2>1, <2>2 DEF TypeOK
<1>2. (ParserInv(sp, c2s) /\ Going(sp) /\ RequestInv)'
  BY DEF IInv, RequestInv
<1>3. (ParserInv(cp, s2c) /\ Going(cp) /\ ResponseInv)'
  BY DEF IInv, ResponseInv
<1>4. HandedInv' /\ RepliesInv'
  BY DEF IInv, HandedInv, RepliesInv, Running
<1>5. ServerInv' /\ AheadInv'
  BY DEF IInv, ServerInv, AheadInv, ClosedWhileParsing
<1>6. PostsInv' /\ ClientInv' /\ AnswersInv'
  BY DEF IInv, PostsInv, ClientInv, AnswersInv, Failed
<1>7. CloseInv' /\ DiesOnlyIf'
  BY DEF IInv, CloseInv, DiesOnlyIf
<1> QED BY <1>1, <1>2, <1>3, <1>4, <1>5, <1>6, <1>7 DEF IInv
(* An answer is written. *)
LEMMA AnswerWritten ==
  ASSUME IInv, UNCHANGED cliVars, NEW k \in 1 .. MaxPosts, s2c' = Append(s2c, Response(k))
  PROVE  /\ s2c' \in Seq([msg : 1 .. MaxPosts, conn : {"any"}, url : {FALSE}])
         /\ Len(s2c') = Len(s2c) + 1 /\ s2c'[Len(s2c) + 1].msg = k
         /\ \A i \in 1 .. Len(s2c) : s2c'[i] = s2c[i]
         /\ (ParserInv(cp, s2c) /\ Going(cp) /\ ResponseInv)'
         /\ AnswersInv'
<1> USE DEF cliVars
<1>1. TypeOK /\ MaxPosts \in Nat
  BY LoopAssumption DEF IInv
<1>2. PICK m : m = Response(k)
  OBVIOUS
<1>3. /\ m \in [msg : 1 .. MaxPosts, conn : {"any"}, url : {FALSE}]
      /\ m \in Message /\ m.msg = k
  BY <1>1, <1>2 DEF Response, Message
<1>4. s2c \in Seq([msg : 1 .. MaxPosts, conn : {"any"}, url : {FALSE}])
  BY <1>1 DEF TypeOK, LoopTypeOK
<1>5. /\ s2c' \in Seq([msg : 1 .. MaxPosts, conn : {"any"}, url : {FALSE}])
      /\ Len(s2c') = Len(s2c) + 1 /\ s2c'[Len(s2c) + 1] = m
      /\ \A i \in 1 .. Len(s2c) : s2c'[i] = s2c[i]
  <2>1. PICK S : S = [msg : 1 .. MaxPosts, conn : {"any"}, url : {FALSE}]
    OBVIOUS
  <2>2. s2c \in Seq(S) /\ m \in S /\ s2c' = Append(s2c, m)
    BY <1>2, <1>3, <1>4, <2>1
  <2>3. /\ s2c' \in Seq(S)
        /\ Len(s2c') = Len(s2c) + 1 /\ s2c'[Len(s2c) + 1] = m
        /\ \A i \in 1 .. Len(s2c) : s2c'[i] = s2c[i]
    BY <2>2, AppendProperties
  <2> QED BY <2>1, <2>3
<1>6. cp \in Parser /\ s2c \in Seq(Message) /\ ParserInv(cp, s2c) /\ Going(cp)
  BY <1>1, Typed DEF IInv
<1>7. ParserInv(cp, s2c') /\ (FitsBy(response, cp, s2c) => FitsBy(response, cp, s2c'))
  BY <1>2, <1>3, <1>6, StreamGrows, FitsMore
<1>8. (ParserInv(cp, s2c) /\ Going(cp) /\ ResponseInv)'
  BY <1>6, <1>7 DEF IInv, ResponseInv
<1>9. Over(cp) <= Len(s2c) /\ Over(cp) \in Int /\ Len(s2c) \in Nat
  BY <1>6 DEF Over, ParserInv, Parser
<1>10. \A i \in 1 .. Len(answers) : answers[i].code = "ok" => s2c'[i] = s2c[i]
  <2>1. \A i \in 1 .. Len(answers) : answers[i].code = "ok" => i <= Over(cp)
    BY DEF IInv, AnswersInv
  <2>2. Len(answers) \in Nat
    BY <1>1 DEF TypeOK, CliTypeOK
  <2> QED BY <1>5, <1>9, <2>1, <2>2
<1>11. AnswersInv'
  BY <1>10 DEF IInv, AnswersInv, Failed
<1> QED BY <1>3, <1>5, <1>8, <1>11

(* What the counters of the invariant say together *)
LEMMA Counted ==
  ASSUME IInv
  PROVE  /\ Len(c2s) \in Nat /\ Len(s2c) \in Nat /\ Len(handed) \in Nat
         /\ Len(unsent) \in Nat /\ Len(answers) \in Nat /\ posts \in Nat
         /\ Over(sp) \in Int /\ Over(cp) \in Int /\ sp.done \in Nat /\ cp.done \in Nat
         /\ Over(sp) <= Len(c2s) /\ Over(cp) <= Len(s2c)
         /\ Len(handed) <= Over(sp) /\ Len(s2c) <= Len(handed) /\ Len(c2s) <= posts
<1>1. TypeOK /\ ParserInv(sp, c2s) /\ ParserInv(cp, s2c)
  BY DEF IInv
<1>2. sp.done \in Nat /\ cp.done \in Nat
  BY <1>1, Typed DEF Parser
<1>3. /\ Len(c2s) \in Nat /\ Len(s2c) \in Nat /\ Len(handed) \in Nat
      /\ Len(unsent) \in Nat /\ Len(answers) \in Nat /\ posts \in Nat
  BY <1>1, Typed DEF TypeOK, SrvTypeOK, CliTypeOK
<1> QED BY <1>1, <1>2, <1>3 DEF IInv, HandedInv, RepliesInv, PostsInv, ParserInv, Over

LEMMA SrvMessageCompleteStep ==
  ASSUME IInv, SrvMessageComplete, UNCHANGED cliVars
  PROVE  IInv'
<1> USE DEF cliVars
<1>1. TypeOK /\ ParserInv(sp, c2s) /\ Going(sp)
  BY DEF IInv
<1>2. /\ Running /\ sp.due # <<>> /\ sp.due[1].cb = "on_message_complete"
      /\ sp' = Called(sp) /\ req' = NoRequest
      /\ UNCHANGED <<c2s, link, cuts, listening>>
  BY DEF SrvMessageComplete, SrvCall, Due
<1>3. /\ sp' \in Parser /\ ParserInv(sp', c2s) /\ Going(sp')
      /\ sp'.done = sp.done /\ sp'.at = sp.at /\ sp'.closed = sp.closed
      /\ Ended(sp) /\ sp'.due = <<>> /\ ~Ended(sp')
  <2>1. Callback("on_body", Brought("start", sp.cut)).cb # "on_message_complete"
    BY DEF Callback
  <2> QED BY <1>1, <1>2, <2>1, CalledKeeps, Typed
<1>4. /\ sp.done \in 1 .. Len(c2s) /\ Len(c2s) \in Nat
      /\ Over(sp) = sp.done - 1 /\ Over(sp') = sp.done
  BY <1>1, <1>3, Typed DEF Ended, Over, ParserInv, DueInv, Parser
<1>5. PICK t \in Message : t = c2s[sp.done] /\ t.msg \in 1 .. MaxPosts
  BY <1>1, <1>4, Typed
<1>6. /\ handed' = Append(handed, t.msg) /\ WriteResponse(t.msg)
      /\ CloseAfter(KeepsAlive(t.conn))
  BY <1>5 DEF SrvMessageComplete
<1>7. /\ Len(handed) = sp.done - 1 /\ handed \in Seq(1 .. MaxPosts)
      /\ unsent \in Seq(1 .. MaxPosts)
  BY <1>1, <1>3, <1>4 DEF IInv, HandedInv, TypeOK, SrvTypeOK
<1>8. /\ handed' \in Seq(1 .. MaxPosts)
      /\ Len(handed') = sp.done /\ handed'[sp.done] = t.msg
      /\ \A i \in 1 .. Len(handed) : handed'[i] = handed[i]
  BY <1>4, <1>5, <1>6, <1>7
<1>9. srv \in {"open", "closing"}
  BY <1>6 DEF WriteResponse
<1>10. \/ srv' = srv /\ fin' = fin /\ process' = process /\ KeepsAlive(t.conn)
       \/ /\ srv = "open" /\ srv' = "closing" /\ fin' = fin \cup {"server"}
          /\ process' = process
       \/ /\ srv = "closing" /\ srv' = srv /\ fin' = fin
          /\ process' = "httpd_closed_twice"
  BY <1>6, <1>9 DEF CloseAfter, SrvClose
<1>11. \/ s2c' = Append(s2c, Response(t.msg)) /\ unsent' = unsent /\ srv = "open" /\ unsent = <<>>
       \/ s2c' = s2c /\ unsent' = Append(unsent, t.msg) /\ srv = "open"
       \/ s2c' = s2c /\ unsent' = unsent /\ srv = "closing"
  BY <1>6 DEF WriteResponse
<1>12. /\ s2c' \in Seq([msg : 1 .. MaxPosts, conn : {"any"}, url : {FALSE}])
       /\ \/ Len(s2c') = Len(s2c) + 1 /\ s2c'[Len(s2c) + 1].msg = t.msg
             /\ s2c' # s2c
          \/ s2c' = s2c
       /\ \A i \in 1 .. Len(s2c) : s2c'[i] = s2c[i]
       /\ (ParserInv(cp, s2c) /\ Going(cp) /\ ResponseInv)'
       /\ AnswersInv'
  <2>1. CASE s2c' = s2c
    BY <1>1, <2>1 DEF IInv, ResponseInv, AnswersInv, Failed, TypeOK, LoopTypeOK
  <2>2. CASE s2c' = Append(s2c, Response(t.msg))
    <3>1. Len(s2c) \in Nat
      BY Counted
    <3> QED BY <1>5, <2>2, <3>1, AnswerWritten
  <2> QED BY <1>11, <2>1, <2>2
<1>13. "ahead" \notin conduct => srv = "open"
  BY <1>2, <1>3, <1>9 DEF IInv, AheadInv, ClosedWhileParsing, Idle
<1>14. TypeOK'
  <2>1. LoopTypeOK'
    BY <1>1, <1>2, <1>10, <1>12 DEF TypeOK, LoopTypeOK, Deaths
  <2>2. unsent' \in Seq(1 .. MaxPosts)
    <3>1. Append(unsent, t.msg) \in Seq(1 .. MaxPosts)
      BY <1>5, <1>7, AppendProperties
    <3> QED BY <1>7, <1>11, <3>1
  <2>3. req' \in Requests
    BY <1>2 DEF NoRequest, Requests, Fragments
  <2>4. SrvTypeOK'
    BY <1>3, <1>8, <1>9, <1>10, <2>2, <2>3 DEF SrvTypeOK, Requests
  <2>5. CliTypeOK'
    BY <1>1 DEF TypeOK, CliTypeOK
  <2> QED BY <2>1, <2>4, <2>5 DEF TypeOK
<1>15. (ParserInv(sp, c2s) /\ Going(sp) /\ RequestInv)'
  <2>1. sp'.at = "start"
    BY <1>3 DEF Ended
  <2>2. Fits(req', sp', c2s)
    BY <1>3, <2>1, FitsAny
  <2> QED BY <1>2, <1>3, <2>2 DEF RequestInv
<1>16. HandedInv'
  <2>1. \A i \in 1 .. Len(handed') : i \in 1 .. Len(handed) \/ i = sp.done
    BY <1>4, <1>7, <1>8
  <2>2. \A i \in 1 .. Len(handed') : handed'[i] = c2s[i].msg
    BY <1>5, <1>8, <2>1 DEF IInv, HandedInv
  <2> QED BY <1>2, <1>3, <1>4, <1>8, <2>2 DEF HandedInv
<1>17. RepliesInv'
  <2>1. /\ Len(s2c) \in Nat /\ Len(unsent) \in Nat
        /\ Len(s2c) <= Len(handed) /\ Len(s2c) + Len(unsent) <= Len(handed)
        /\ srv = "open" => Len(s2c) + Len(unsent) = Len(handed)
        /\ \A i \in 1 .. Len(s2c) : s2c[i].msg = handed[i]
        /\ \A i \in 1 .. Len(unsent) : unsent[i] = handed[Len(s2c) + i]
    BY <1>2, Counted DEF IInv, RepliesInv
  <2>2. \A i \in 1 .. Len(s2c) : s2c'[i].msg = handed'[i]
    BY <1>7, <1>8, <1>12, <2>1
  <2>3. \A i \in 1 .. Len(unsent) : unsent[i] = handed'[Len(s2c) + i]
    BY <1>4, <1>7, <1>8, <2>1
  <2>4. CASE s2c' = Append(s2c, Response(t.msg)) /\ unsent' = unsent /\ srv = "open" /\ unsent = <<>>
    <3>1. Len(s2c) + 1 = sp.done /\ Len(unsent) = 0
      BY <1>4, <1>7, <2>1, <2>4
    <3>2. Len(s2c') = sp.done /\ s2c'[sp.done].msg = t.msg
      <4>1. Len(s2c') = Len(s2c) + 1 /\ s2c'[Len(s2c) + 1].msg = t.msg
        BY <1>5, <2>4, AnswerWritten
      <4> QED BY <3>1, <4>1
    <3>3. \A i \in 1 .. Len(s2c') : s2c'[i].msg = handed'[i]
      <4>1. \A i \in 1 .. Len(s2c') : i \in 1 .. Len(s2c) \/ i = sp.done
        BY <2>1, <3>1, <3>2
      <4> QED BY <1>8, <2>2, <3>2, <4>1
    <3> QED BY <1>4, <1>8, <2>4, <3>1, <3>2, <3>3 DEF RepliesInv
  <2>5. CASE s2c' = s2c /\ unsent' = Append(unsent, t.msg) /\ srv = "open"
    <3>1. Len(unsent') = Len(unsent) + 1 /\ unsent'[Len(unsent) + 1] = t.msg
      BY <1>5, <1>7, <2>5
    <3>2. Len(s2c) + Len(unsent') = sp.done
      <4>1. Len(s2c) + Len(unsent) = sp.done - 1 /\ sp.done \in Nat
        BY <1>4, <1>7, <2>1, <2>5
      <4>2. Len(s2c) \in Nat /\ Len(unsent) \in Nat
        BY <2>1
      <4> QED BY <3>1, <4>1, <4>2
    <3>3. \A i \in 1 .. Len(unsent) : unsent'[i] = unsent[i]
      BY <1>5, <1>7, <2>5
    <3>4. \A i \in 1 .. Len(unsent') : unsent'[i] = handed'[Len(s2c) + i]
      <4>1. \A i \in 1 .. Len(unsent') : i \in 1 .. Len(unsent) \/ i = Len(unsent) + 1
        BY <2>1, <3>1
      <4>2. Len(s2c) + (Len(unsent) + 1) = sp.done
        BY <2>1, <3>1, <3>2
      <4> QED BY <1>8, <2>3, <3>1, <3>3, <4>1, <4>2
    <3> QED BY <1>4, <1>8, <2>1, <2>2, <2>5, <3>1, <3>2, <3>4 DEF RepliesInv
  <2>6. CASE s2c' = s2c /\ unsent' = unsent /\ srv = "closing"
    <3>1. srv' # "open"
      BY <1>10, <2>6
    <3>2. Len(s2c) <= Len(handed') /\ Len(s2c) + Len(unsent) <= Len(handed')
      BY <1>4, <1>7, <1>8, <2>1
    <3> QED BY <2>2, <2>3, <2>6, <3>1, <3>2 DEF RepliesInv
  <2> QED BY <1>11, <2>4, <2>5, <2>6
<1>18. ServerInv'
  <2>1. sp.closed => ~KeepsAlive(t.conn)
    BY <1>1, <1>3, <1>5 DEF ParserInv, KeepsAlive
  <2> QED BY <1>2, <1>3, <1>9, <1>10, <2>1 DEF IInv, ServerInv
<1>19. AheadInv'
  <2>1. "ahead" \notin conduct => ~Unread(sp', c2s)
    BY <1>3, <1>4, <1>7, Counted DEF IInv, AheadInv, Unread
  <2> QED BY <1>2, <1>3, <2>1 DEF IInv, AheadInv, ClosedWhileParsing
<1>20. PostsInv' /\ ClientInv'
  BY <1>2, <1>10 DEF IInv, PostsInv, ClientInv
<1>21. CloseInv'
  <2>1. Len(s2c) <= Len(s2c')
    BY <1>12, Counted
  <2>2. Len(s2c') \in Nat
    BY <1>12
  <2> QED BY <1>2, <1>10, <2>1, <2>2, Counted DEF IInv, CloseInv
<1>22. DiesOnlyIf'
  BY <1>2, <1>10, <1>13 DEF IInv, DiesOnlyIf, Running
<1> QED BY <1>12, <1>14, <1>15, <1>16, <1>17, <1>18, <1>19, <1>20, <1>21, <1>22 DEF IInv
LEMMA SrvWriteStep ==
  ASSUME IInv, SrvWrite, UNCHANGED cliVars
  PROVE  IInv'
<1> USE DEF cliVars
<1>1. /\ Running /\ srv = "open" /\ unsent # <<>> /\ unsent' = Tail(unsent)
      /\ UNCHANGED <<c2s, link, cuts, fin, listening, srv, req, sp, handed>>
      /\ \/ s2c' = Append(s2c, Response(Head(unsent))) /\ process' = process
         \/ "client" \in fin /\ process' = "httpd_write" /\ s2c' = s2c
  BY DEF SrvWrite
<1>2. TypeOK /\ unsent \in Seq(1 .. MaxPosts)
  BY DEF IInv, TypeOK, SrvTypeOK
<1>3. PICK k \in 1 .. MaxPosts : k = Head(unsent) /\ k = unsent[1]
  <2>1. \A S : \A t \in Seq(S) : t # <<>> => Head(t) \in S /\ Head(t) = t[1]
    OBVIOUS
  <2> QED BY <1>1, <1>2, <2>1, Zenon
<1>4. /\ unsent' \in Seq(1 .. MaxPosts) /\ Len(unsent) > 0
      /\ Len(unsent') = Len(unsent) - 1
      /\ \A i \in 1 .. Len(unsent') : unsent'[i] = unsent[i + 1]
  BY <1>1, <1>2
<1>5. /\ Len(s2c) + Len(unsent) = Len(handed)
      /\ \A i \in 1 .. Len(s2c) : s2c[i].msg = handed[i]
      /\ \A i \in 1 .. Len(unsent) : unsent[i] = handed[Len(s2c) + i]
  BY <1>1 DEF IInv, RepliesInv
<1>6. /\ Len(s2c) \in Nat /\ Len(unsent) \in Nat /\ Len(handed) \in Nat
      /\ Len(c2s) \in Nat /\ Len(handed) <= Len(c2s)
  BY Counted
<1>7. /\ s2c' \in Seq([msg : 1 .. MaxPosts, conn : {"any"}, url : {FALSE}])
      /\ Len(s2c) <= Len(s2c') /\ Len(s2c') \in Nat
      /\ (ParserInv(cp, s2c) /\ Going(cp) /\ ResponseInv)'
      /\ AnswersInv'
  <2>1. CASE s2c' = s2c
    BY <1>2, <1>6, <2>1 DEF IInv, ResponseInv, AnswersInv, Failed, TypeOK, LoopTypeOK
  <2>2. CASE s2c' = Append(s2c, Response(k))
    <3>1. /\ s2c' \in Seq([msg : 1 .. MaxPosts, conn : {"any"}, url : {FALSE}])
          /\ Len(s2c') = Len(s2c) + 1
          /\ (ParserInv(cp, s2c) /\ Going(cp) /\ ResponseInv)'
          /\ AnswersInv'
      BY <2>2, AnswerWritten, Zenon
    <3> QED BY <1>6, <3>1
  <2> QED BY <1>1, <1>3, <2>1, <2>2
<1>8. TypeOK'
  <2>1. LoopTypeOK'
    BY <1>1, <1>2, <1>7 DEF TypeOK, LoopTypeOK, Deaths
  <2>2. SrvTypeOK' /\ CliTypeOK'
    BY <1>1, <1>2, <1>4 DEF TypeOK, SrvTypeOK, CliTypeOK
  <2> QED BY <2>1, <2>2 DEF TypeOK
<1>9. (ParserInv(sp, c2s) /\ Going(sp) /\ RequestInv)'
  BY <1>1 DEF IInv, RequestInv
<1>10. HandedInv' /\ ServerInv' /\ AheadInv' /\ PostsInv' /\ ClientInv'
  BY <1>1 DEF IInv, HandedInv, ServerInv, AheadInv, ClosedWhileParsing, PostsInv, ClientInv
<1>11. RepliesInv'
  <2>1. CASE process' = "httpd_write" /\ s2c' = s2c
    BY <1>1, <2>1 DEF IInv, RepliesInv, Running
  <2>2. CASE s2c' = Append(s2c, Response(k))
    <3>1. /\ Len(s2c') = Len(s2c) + 1 /\ s2c'[Len(s2c) + 1].msg = k
          /\ \A i \in 1 .. Len(s2c) : s2c'[i] = s2c[i]
      BY <2>2, AnswerWritten
    <3>2. k = handed[Len(s2c) + 1]
      BY <1>3, <1>4, <1>5, <1>6
    <3>3. \A i \in 1 .. Len(s2c') : s2c'[i].msg = handed[i]
      <4>1. \A i \in 1 .. Len(s2c') : i \in 1 .. Len(s2c) \/ i = Len(s2c) + 1
        BY <1>6, <3>1
      <4> QED BY <1>5, <3>1, <3>2, <4>1
    <3>4. \A i \in 1 .. Len(unsent') : unsent'[i] = handed[Len(s2c') + i]
      <4>1. \A i \in 1 .. Len(unsent') :
              i + 1 \in 1 .. Len(unsent) /\ Len(s2c) + (i + 1) = Len(s2c') + i
        <5>1. Len(unsent') = Len(unsent) - 1 /\ Len(s2c') = Len(s2c) + 1
          BY <1>4, <3>1
        <5>2. Len(s2c) \in Nat /\ Len(unsent) \in Nat
          BY <1>6
        <5> QED BY <5>1, <5>2
      <4> QED BY <1>4, <1>5, <4>1
    <3>5. Len(s2c') + Len(unsent') = Len(handed) /\ Len(s2c') <= Len(handed)
      <4>1. Len(unsent') = Len(unsent) - 1 /\ Len(s2c') = Len(s2c) + 1
        BY <1>4, <3>1
      <4>2. /\ Len(s2c) \in Nat /\ Len(unsent) \in Nat /\ Len(unsent) > 0
            /\ Len(s2c) + Len(unsent) = Len(handed)
        BY <1>4, <1>5, <1>6
      <4> QED BY <4>1, <4>2
    <3> QED BY <1>1, <3>3, <3>4, <3>5 DEF RepliesInv
  <2> QED BY <1>1, <1>3, <2>1, <2>2
<1>12. CloseInv'
  BY <1>1, <1>6, <1>7 DEF IInv, CloseInv
<1>13. DiesOnlyIf'
  <2>1. "client" \in fin => "stopped_waiting" \in conduct \/ "server" \in fin
    <3>1. link = "accepted"
      BY <1>1, <1>2 DEF IInv, ServerInv
    <3>2. ~(Len(c2s) <= Len(s2c))
      BY <1>4, <1>5, <1>6
    <3> QED BY <3>1, <3>2 DEF IInv, CloseInv
  <2> QED BY <1>1, <2>1 DEF IInv, DiesOnlyIf, Running
<1> QED BY <1>7, <1>8, <1>9, <1>10, <1>11, <1>12, <1>13 DEF IInv

LEMMA SrvOnCloseStep ==
  ASSUME IInv, SrvOnClose, UNCHANGED cliVars
  PROVE  IInv'
<1> USE DEF cliVars
<1>1. /\ Running /\ srv = "closing" /\ Idle(sp)
      /\ \/ srv' = "closed" /\ process' = process
         \/ srv' = srv /\ process' = "httpd_write"
      /\ UNCHANGED <<c2s, s2c, link, cuts, fin, listening, req, sp, handed, unsent>>
  BY DEF SrvOnClose
<1>2. TypeOK'
  <2>1. LoopTypeOK' /\ CliTypeOK'
    BY <1>1 DEF IInv, TypeOK, LoopTypeOK, CliTypeOK, Deaths
  <2>2. SrvTypeOK'
    BY <1>1 DEF IInv, TypeOK, SrvTypeOK
  <2> QED BY <2>1, <2>2 DEF TypeOK
<1>3. (ParserInv(sp, c2s) /\ Going(sp) /\ RequestInv)'
  BY <1>1 DEF IInv, RequestInv
<1>4. (ParserInv(cp, s2c) /\ Going(cp) /\ ResponseInv)'
  BY <1>1 DEF IInv, ResponseInv
<1>5. HandedInv' /\ RepliesInv'
  BY <1>1 DEF IInv, HandedInv, RepliesInv, Running
<1>6. ServerInv' /\ AheadInv'
  BY <1>1 DEF IInv, ServerInv, AheadInv, ClosedWhileParsing
<1>7. PostsInv' /\ ClientInv' /\ AnswersInv'
  BY <1>1 DEF IInv, PostsInv, ClientInv, AnswersInv, Failed
<1>8. CloseInv' /\ DiesOnlyIf'
  BY <1>1 DEF IInv, CloseInv, DiesOnlyIf, ServerInv, Running
<1> QED BY <1>2, <1>3, <1>4, <1>5, <1>6, <1>7, <1>8 DEF IInv

LEMMA SrvIInv ==
  ASSUME IInv, SrvNext, UNCHANGED cliVars
  PROVE  IInv'
<1>1. CASE SrvCallback
  BY <1>1, SrvCollectStep, SrvMessageCompleteStep DEF SrvCallback
<1>2. CASE ~SrvCallback
  BY <1>2, OnConnectedStep, StopListeningStep, SrvReadStep, SrvParseStep, SrvEofStep,
     SrvWriteStep, SrvOnCloseStep DEF SrvNext
<1> QED BY <1>1, <1>2

-----------------------------------------------------------------------------
(* The steps of the client. *)

LEMMA CliReadStep ==
  ASSUME IInv, CliRead \/ CliParse, Idle(sp), UNCHANGED srvVars
  PROVE  IInv'
<1>1. TypeOK /\ ParserInv(cp, s2c) /\ Going(cp) /\ ~cp.closed /\ cp.due = <<>>
  BY DEF IInv, ClientInv, CliRead, CliParse, Idle, Parses
<1>2. tcp = "open" \/ ~Idle(cp)
  BY DEF CliRead, CliParse, Idle, Parses
<1>3. tcp # "closed" => FitsBy(response, cp, s2c)
  BY DEF IInv, ResponseInv
<1>4. UNCHANGED <<listening, c2s, s2c, link, fin, process, tcp, posts, current,
                  response, answers, conduct>>
  BY DEF CliRead, CliParse
<1>5. /\ cp \in Parser /\ s2c \in Seq(Message) /\ response \in Responses
      /\ \A i \in 1 .. Len(s2c) : /\ ~s2c[i].url /\ s2c[i].conn = "any"
  BY <1>1, Typed
<1>6. cuts \in 0 .. MaxCuts /\ MaxCuts \in Nat
  BY <1>1, LoopAssumption DEF TypeOK, LoopTypeOK
<1>7. Over(cp) = cp.done /\ ~Ended(cp) /\ cp.done \in Nat
  BY <1>1, <1>5 DEF Over, Ended, Parser
<1>8. tcp # "closed"
  BY <1>2 DEF IInv, ClientInv
<1>9. CASE \E e \in Parser : /\ ParserInv(e, s2c) /\ e.done = cp.done /\ ~e.closed /\ e.due = <<>>
                             /\ FitsBy(response, e, s2c)
                             /\ ParsesNext(e, s2c, cp')
  <2>1. PICK e \in Parser :
           /\ ParserInv(e, s2c) /\ e.done = cp.done /\ ~e.closed /\ e.due = <<>>
           /\ FitsBy(response, e, s2c)
           /\ ParsesNext(e, s2c, cp')
    BY <1>9
  <2>2. Unread(e, s2c) /\ cp' = Consume(e, s2c[e.done + 1]) /\ cuts' = cuts
    BY <2>1 DEF ParsesNext
  <2>3. /\ cp' \in Parser /\ ParserInv(cp', s2c) /\ Going(cp')
        /\ Over(cp') = cp.done /\ (cp'.closed => Ended(cp'))
    BY <1>5, <2>1, <2>2, ConsumeKeeps
  <2>4. FitsBy(response, cp', s2c)
    BY <1>5, <2>1, <2>2, FitsByConsumed
  <2>5. ~cp'.closed
    <3>1. Ended(cp') => cp'.done \in 1 .. Len(s2c)
      BY <2>3 DEF ParserInv, DueInv, Ended, Parser
    <3> QED BY <1>5, <2>3, <3>1 DEF ParserInv
  <2> QED BY <1>2, <1>4, <1>5, <1>6, <1>7, <2>2, <2>3, <2>4, <2>5, CliParserStep
<1>10. CASE CliRead
  <2>1. PICK e : e = Enter(cp)
    OBVIOUS
  <2>2. /\ e \in Parser /\ ParserInv(e, s2c)
        /\ e.done = cp.done /\ e.closed = cp.closed /\ e.due = cp.due
        /\ FitsBy(response, e, s2c)
    BY <1>1, <1>3, <1>5, <1>8, <2>1, EnterKeeps, FitsEntered
  <2>3. ParsesNext(e, s2c, cp')
    BY <1>10, <2>1 DEF CliRead
  <2> QED BY <1>1, <1>9, <2>2, <2>3
<1>11. CASE CliParse /\ ParsesNext(cp, s2c, cp')
  BY <1>1, <1>3, <1>5, <1>8, <1>9, <1>11
<1>12. CASE CliParse /\ Ends(cp, s2c, cp')
  <2>1. cp' = Leave(cp) /\ cuts' \in 0 .. MaxCuts /\ cp.busy
    BY <1>6, <1>12 DEF Ends, CliParse, Parses
  <2>2. /\ cp' \in Parser /\ ParserInv(cp', s2c) /\ Going(cp')
        /\ cp'.closed = cp.closed /\ Over(cp') = Over(cp)
    BY <1>1, <1>5, <2>1, LeaveKeeps
  <2>3. FitsBy(response, cp', s2c)
    BY <1>1, <1>3, <1>5, <1>8, <2>1, FitsByLeft
  <2> QED BY <1>1, <1>2, <1>4, <1>5, <2>1, <2>2, <2>3, CliParserStep
<1> QED BY <1>10, <1>11, <1>12 DEF CliParse

LEMMA CliCollectStep ==
  ASSUME IInv, Idle(sp), UNCHANGED srvVars,
         CliMessageBegin \/ CliHeaderField \/ CliHeaderValue \/ CliBody
  PROVE  IInv'
<1>1. TypeOK /\ ParserInv(cp, s2c) /\ Going(cp) /\ ~cp.closed
  BY DEF IInv, ClientInv
<1>2. /\ cp.due # <<>> /\ cp.due[1].cb # "on_message_complete"
      /\ cp' = Called(cp) /\ response' = NotedBy(response, cp.due)
  BY DEF CliMessageBegin, CliHeaderField, CliHeaderValue, CliBody, Collects, CliCall, Due,
         NotedBy, AddsHeader, AddsPart
<1>3. UNCHANGED <<listening, c2s, s2c, link, cuts, fin, process, tcp, posts, current,
                  answers, conduct>>
  BY DEF CliMessageBegin, CliHeaderField, CliHeaderValue, CliBody, Collects, CliCall
<1>4. /\ cp' \in Parser /\ ParserInv(cp', s2c) /\ Going(cp')
      /\ cp'.done = cp.done /\ cp'.closed = cp.closed
      /\ ~Ended(cp) => ~Ended(cp')
      /\ Ended(cp) => Ended(cp') \/ cp.due[1] = Complete
  BY <1>1, <1>2, CalledKeeps, Typed
<1>5. Over(cp') = Over(cp)
  BY <1>2, <1>4 DEF Over, Complete, Callback
<1>6. tcp # "closed" => FitsBy(response', cp', s2c)
  BY <1>1, <1>2, FitsByCalled, Typed DEF IInv, ResponseInv
<1>7. response' \in Responses
  BY <1>1, <1>2, NotedByType, Typed
<1>8. cuts' \in 0 .. MaxCuts
  BY <1>1, <1>3 DEF TypeOK, LoopTypeOK
<1>9. ~Idle(cp)
  BY <1>2 DEF Idle
<1> QED BY <1>1, <1>3, <1>4, <1>5, <1>6, <1>7, <1>8, <1>9, CliParserStep
(* A request is written. *)
LEMMA RequestWritten ==
  ASSUME IInv, UNCHANGED srvVars, NEW k \in 1 .. MaxPosts,
         NEW conn \in Connections \cup {"none"}, c2s' = Append(c2s, Request(k, conn))
  PROVE  /\ c2s' \in Seq([msg : 1 .. MaxPosts, conn : {"none", "close", "keep-alive"},
                          url : {TRUE}])
         /\ Len(c2s') = Len(c2s) + 1 /\ c2s'[Len(c2s) + 1].msg = k
         /\ \A i \in 1 .. Len(c2s) : c2s'[i] = c2s[i]
         /\ (ParserInv(sp, c2s) /\ Going(sp) /\ RequestInv)'
         /\ HandedInv'
<1> USE DEF srvVars
<1>1. TypeOK /\ MaxPosts \in Nat
  BY LoopAssumption DEF IInv
<1>2. PICK m : m = Request(k, conn)
  OBVIOUS
<1>3. /\ m \in [msg : 1 .. MaxPosts, conn : {"none", "close", "keep-alive"}, url : {TRUE}]
      /\ m \in Message /\ m.msg = k
  BY <1>1, <1>2, ConnectionsAssumption DEF Request, Message
<1>4. c2s \in Seq([msg : 1 .. MaxPosts, conn : {"none", "close", "keep-alive"}, url : {TRUE}])
  BY <1>1 DEF TypeOK, LoopTypeOK
<1>5. /\ c2s' \in Seq([msg : 1 .. MaxPosts, conn : {"none", "close", "keep-alive"},
                       url : {TRUE}])
      /\ Len(c2s') = Len(c2s) + 1 /\ c2s'[Len(c2s) + 1] = m
      /\ \A i \in 1 .. Len(c2s) : c2s'[i] = c2s[i]
  <2>1. PICK S : S = [msg : 1 .. MaxPosts, conn : {"none", "close", "keep-alive"}, url : {TRUE}]
    OBVIOUS
  <2>2. c2s \in Seq(S) /\ m \in S /\ c2s' = Append(c2s, m)
    BY <1>2, <1>3, <1>4, <2>1
  <2>3. /\ c2s' \in Seq(S)
        /\ Len(c2s') = Len(c2s) + 1 /\ c2s'[Len(c2s) + 1] = m
        /\ \A i \in 1 .. Len(c2s) : c2s'[i] = c2s[i]
    BY <2>2, AppendProperties
  <2> QED BY <2>1, <2>3
<1>6. sp \in Parser /\ c2s \in Seq(Message) /\ ParserInv(sp, c2s) /\ Going(sp)
  BY <1>1, Typed DEF IInv
<1>7. ParserInv(sp, c2s') /\ (Fits(req, sp, c2s) => Fits(req, sp, c2s'))
  BY <1>2, <1>3, <1>6, StreamGrows, FitsMore
<1>8. (ParserInv(sp, c2s) /\ Going(sp) /\ RequestInv)'
  BY <1>6, <1>7 DEF IInv, RequestInv
<1>9. \A i \in 1 .. Len(handed) : i \in 1 .. Len(c2s)
  BY Counted
<1>10. HandedInv'
  BY <1>5, <1>9 DEF IInv, HandedInv
<1> QED BY <1>3, <1>5, <1>8, <1>10

(* generic_on_response with an error, when there was none before *)
LEMMA FailStep ==
  ASSUME IInv, NEW code \in Codes \ {"ok"}, Fails(code),
         tcp \in {"resolving", "connecting", "open"}, Idle(cp),
         link = "none" \/ "server" \in fin,
         UNCHANGED <<listening, c2s, s2c, link, cuts, process, posts, current, response,
                     cp, conduct, srvVars>>
  PROVE  IInv'
<1> USE DEF srvVars
<1>1. TypeOK /\ tcp' = "closing" /\ fin' = fin \cup {"client"}
      /\ answers' = Append(answers, [msg |-> 0, code |-> code])
  BY DEF IInv, Fails, CliClose
<1>2. ~Failed
  BY DEF IInv, AnswersInv
<1>3. PICK a : a = [msg |-> 0, code |-> code]
  OBVIOUS
<1>4. a \in [msg : 0 .. MaxPosts, code : Codes] /\ a.code = code /\ code # "ok"
  <2>1. 0 \in 0 .. MaxPosts
    BY LoopAssumption
  <2> QED BY <1>3, <2>1
<1>5. PICK S : S = [msg : 0 .. MaxPosts, code : Codes]
  OBVIOUS
<1>6. answers \in Seq(S) /\ a \in S
  BY <1>1, <1>4, <1>5 DEF TypeOK, CliTypeOK
<1>7. /\ answers' \in Seq(S) /\ Len(answers') = Len(answers) + 1
      /\ answers'[Len(answers) + 1] = a /\ Len(answers) \in Nat
      /\ \A i \in 1 .. Len(answers) : answers'[i] = answers[i]
  BY <1>1, <1>3, <1>6, AppendProperties
<1>8. TypeOK'
  <2>1. LoopTypeOK' /\ SrvTypeOK'
    BY <1>1 DEF TypeOK, LoopTypeOK, SrvTypeOK
  <2>2. CliTypeOK'
    BY <1>1, <1>5, <1>7 DEF TypeOK, CliTypeOK
  <2> QED BY <2>1, <2>2 DEF TypeOK
<1>9. (ParserInv(sp, c2s) /\ Going(sp) /\ RequestInv)'
  BY DEF IInv, RequestInv
<1>10. (ParserInv(cp, s2c) /\ Going(cp) /\ ResponseInv)'
  BY DEF IInv, ResponseInv
<1>11. HandedInv' /\ RepliesInv' /\ ServerInv'
  BY <1>1 DEF IInv, HandedInv, RepliesInv, Running, ServerInv
<1>12. AheadInv' /\ PostsInv' /\ ClientInv'
  BY <1>1 DEF IInv, AheadInv, ClosedWhileParsing, PostsInv, ClientInv
<1>13. AnswersInv'
  <2>1. \A i \in 1 .. Len(answers') : i \in 1 .. Len(answers) \/ i = Len(answers')
    BY <1>7
  <2>2. Failed'
    BY <1>4, <1>7 DEF Failed
  <2>3. \A i \in 1 .. Len(answers) : answers[i].code = "ok"
    BY <1>2 DEF Failed
  <2>4. \A i \in 1 .. Len(answers) :
          answers'[i].code = "ok" /\ i <= Over(cp) /\ answers'[i].msg = s2c[i].msg
    BY <1>7, <2>3 DEF IInv, AnswersInv
  <2>5. answers'[Len(answers')].code # "ok"
    BY <1>4, <1>7
  <2>6. \A i \in 1 .. Len(answers') :
          IF answers'[i].code = "ok"
          THEN i <= Over(cp) /\ answers'[i].msg = s2c[i].msg
          ELSE i = Len(answers')
    BY <2>1, <2>4, <2>5
  <2> QED BY <1>1, <2>2, <2>6 DEF AnswersInv
<1>14. CloseInv' /\ DiesOnlyIf'
  BY <1>1 DEF IInv, CloseInv, DiesOnlyIf
<1> QED BY <1>8, <1>9, <1>10, <1>11, <1>12, <1>13, <1>14 DEF IInv

LEMMA OnResolvedStep ==
  ASSUME IInv, OnResolved, Idle(sp), UNCHANGED srvVars
  PROVE  IInv'
<1>1. /\ tcp = "resolving"
      /\ UNCHANGED <<listening, c2s, s2c, link, cuts, process, posts, current, response,
                     cp, conduct>>
  BY DEF OnResolved
<1>2. CASE Fails("resolve_failed")
  <2>1. Idle(cp) /\ link = "none"
    BY <1>1 DEF IInv, ClientInv, Idle, FreshParser
  <2> QED BY <1>1, <1>2, <2>1, FailStep DEF Codes
<1>3. CASE tcp' = "connecting" /\ UNCHANGED <<fin, answers>>
  <2> USE <1>1, <1>3 DEF srvVars
  <2>1. TypeOK'
    BY DEF IInv, TypeOK, LoopTypeOK, SrvTypeOK, CliTypeOK
  <2>2. (ParserInv(sp, c2s) /\ Going(sp) /\ RequestInv)'
    BY DEF IInv, RequestInv
  <2>3. (ParserInv(cp, s2c) /\ Going(cp) /\ ResponseInv)'
    BY DEF IInv, ResponseInv
  <2>4. HandedInv' /\ RepliesInv' /\ ServerInv'
    BY DEF IInv, HandedInv, RepliesInv, Running, ServerInv
  <2>5. AheadInv' /\ PostsInv' /\ ClientInv'
    BY DEF IInv, AheadInv, ClosedWhileParsing, PostsInv, ClientInv
  <2>6. AnswersInv' /\ CloseInv' /\ DiesOnlyIf'
    BY DEF IInv, AnswersInv, Failed, CloseInv, DiesOnlyIf
  <2> QED BY <2>1, <2>2, <2>3, <2>4, <2>5, <2>6 DEF IInv
<1> QED BY <1>2, <1>3 DEF OnResolved

LEMMA OnConnectFailedStep ==
  ASSUME IInv, OnConnectFailed, Idle(sp), UNCHANGED srvVars
  PROVE  IInv'
<1>1. /\ tcp = "connecting" /\ Fails("connection_failed")
      /\ UNCHANGED <<listening, c2s, s2c, link, cuts, process, posts, current, response,
                     cp, conduct>>
  BY DEF OnConnectFailed
<1>2. Idle(cp) /\ link = "none"
  BY <1>1 DEF IInv, ClientInv, Idle, FreshParser
<1> QED BY <1>1, <1>2, FailStep DEF Codes

LEMMA CliEofStep ==
  ASSUME IInv, CliEof, Idle(sp), UNCHANGED srvVars
  PROVE  IInv'
BY FailStep DEF Codes, CliEof

LEMMA OnConnectCancelledStep ==
  ASSUME IInv, OnConnectCancelled, Idle(sp), UNCHANGED srvVars
  PROVE  IInv'
<1> USE DEF OnConnectCancelled, srvVars, cliVars
<1>1. TypeOK'
  BY DEF IInv, TypeOK, LoopTypeOK, SrvTypeOK, CliTypeOK, Deaths
<1>2. (ParserInv(sp, c2s) /\ Going(sp) /\ RequestInv)'
  BY DEF IInv, RequestInv
<1>3. (ParserInv(cp, s2c) /\ Going(cp) /\ ResponseInv)'
  BY DEF IInv, ResponseInv
<1>4. HandedInv' /\ RepliesInv' /\ ServerInv'
  BY DEF IInv, HandedInv, RepliesInv, Running, ServerInv
<1>5. AheadInv' /\ PostsInv' /\ ClientInv'
  BY DEF IInv, AheadInv, ClosedWhileParsing, PostsInv, ClientInv
<1>6. AnswersInv' /\ CloseInv' /\ DiesOnlyIf'
  BY DEF IInv, AnswersInv, Failed, CloseInv, DiesOnlyIf, ClientInv
<1> QED BY <1>1, <1>2, <1>3, <1>4, <1>5, <1>6 DEF IInv

(* on_resolved behind a stop: the process dies of it. *)
LEMMA OnResolvedStoppedStep ==
  ASSUME IInv, OnResolvedStopped, Idle(sp), UNCHANGED srvVars
  PROVE  IInv'
<1> USE DEF OnResolvedStopped, srvVars, cliVars
<1>1. TypeOK'
  BY DEF IInv, TypeOK, LoopTypeOK, SrvTypeOK, CliTypeOK, Deaths
<1>2. (ParserInv(sp, c2s) /\ Going(sp) /\ RequestInv)'
  BY DEF IInv, RequestInv
<1>3. (ParserInv(cp, s2c) /\ Going(cp) /\ ResponseInv)'
  BY DEF IInv, ResponseInv
<1>4. HandedInv' /\ RepliesInv' /\ ServerInv'
  BY DEF IInv, HandedInv, RepliesInv, Running, ServerInv
<1>5. AheadInv' /\ PostsInv' /\ ClientInv'
  BY DEF IInv, AheadInv, ClosedWhileParsing, PostsInv, ClientInv
<1>6. AnswersInv' /\ CloseInv' /\ DiesOnlyIf'
  BY DEF IInv, AnswersInv, Failed, CloseInv, DiesOnlyIf, ClientInv
<1> QED BY <1>1, <1>2, <1>3, <1>4, <1>5, <1>6 DEF IInv

LEMMA CliOnCloseStep ==
  ASSUME IInv, CliOnClose, Idle(sp), UNCHANGED srvVars
  PROVE  IInv'
<1> USE DEF CliOnClose, srvVars, loopVars
<1>1. TypeOK'
  <2>1. response' \in Responses
    BY DEF NoResponse, Headings, Responses, Fragments
  <2> QED BY <2>1 DEF IInv, TypeOK, LoopTypeOK, SrvTypeOK, CliTypeOK, Headings, Responses
<1>2. (ParserInv(sp, c2s) /\ Going(sp) /\ RequestInv)'
  BY DEF IInv, RequestInv
<1>3. (ParserInv(cp, s2c) /\ Going(cp) /\ ResponseInv)'
  <2>1. CASE tcp = "closing"
    BY <2>1 DEF IInv, ResponseInv
  <2>2. CASE tcp = "abandoning"
    <3>1. cp \in Parser /\ cp.at = "start" /\ cp.due = <<>>
      BY <2>2, Typed DEF IInv, ClientInv, FreshParser
    <3>2. FitsBy(response', cp, s2c)
      BY <3>1, FitsAny
    <3> QED BY <3>2 DEF IInv, ResponseInv
  <2> QED BY <2>1, <2>2
<1>4. HandedInv' /\ RepliesInv' /\ ServerInv'
  BY DEF IInv, HandedInv, RepliesInv, Running, ServerInv
<1>5. AheadInv' /\ PostsInv' /\ ClientInv'
  BY DEF IInv, AheadInv, ClosedWhileParsing, PostsInv, ClientInv
<1>6. AnswersInv' /\ CloseInv' /\ DiesOnlyIf'
  BY DEF IInv, AnswersInv, Failed, CloseInv, DiesOnlyIf
<1> QED BY <1>1, <1>2, <1>3, <1>4, <1>5, <1>6 DEF IInv

LEMMA OnConnectStep ==
  ASSUME IInv, OnConnect, Idle(sp), UNCHANGED srvVars
  PROVE  IInv'
<1> USE DEF srvVars
<1>1. /\ tcp = "connecting" /\ tcp' = "open" /\ link' = "dialled" /\ cp' = FreshParser
      /\ c2s' = Append(c2s, Request(current.msg, current.conn))
      /\ UNCHANGED <<listening, s2c, cuts, fin, process, posts, current, response,
                     answers, conduct>>
  BY DEF OnConnect, SendRequest
<1>2. /\ TypeOK /\ cp' = cp /\ link = "none" /\ current.msg = posts /\ answers = <<>>
      /\ posts = Len(c2s) + 1
  BY <1>1 DEF IInv, ClientInv, PostsInv
<1>3. posts \in 1 .. MaxPosts /\ current.conn \in Connections \cup {"none"}
  BY <1>2, Counted DEF TypeOK, CliTypeOK
<1>4. /\ c2s' \in Seq([msg : 1 .. MaxPosts, conn : {"none", "close", "keep-alive"},
                       url : {TRUE}])
      /\ Len(c2s') = Len(c2s) + 1 /\ c2s'[Len(c2s) + 1].msg = posts
      /\ \A i \in 1 .. Len(c2s) : c2s'[i] = c2s[i]
      /\ (ParserInv(sp, c2s) /\ Going(sp) /\ RequestInv)'
      /\ HandedInv'
  BY <1>1, <1>2, <1>3, RequestWritten
<1>5. TypeOK'
  BY <1>1, <1>2, <1>4 DEF TypeOK, LoopTypeOK, SrvTypeOK, CliTypeOK
<1>6. (ParserInv(cp, s2c) /\ Going(cp) /\ ResponseInv)'
  BY <1>1, <1>2 DEF IInv, ResponseInv
<1>7. RepliesInv' /\ ServerInv'
  BY <1>1, <1>2 DEF IInv, RepliesInv, Running, ServerInv
<1>8. AheadInv'
  BY <1>1, <1>2 DEF IInv, AheadInv, ClosedWhileParsing
<1>9. PostsInv'
  <2>1. \A i \in 1 .. Len(c2s') : i \in 1 .. Len(c2s) \/ i = Len(c2s) + 1
    BY <1>4, Counted
  <2>2. "early" \notin conduct => \A i \in 1 .. Len(c2s') : c2s'[i].msg = i
    BY <1>2, <1>4, <2>1 DEF IInv, PostsInv
  <2>3. Len(c2s') = posts /\ posts \in Nat
    BY <1>2, <1>4, Counted
  <2> QED BY <1>1, <1>2, <2>2, <2>3 DEF PostsInv
<1>10. ClientInv' /\ AnswersInv'
  BY <1>1, <1>2 DEF IInv, ClientInv, AnswersInv, Failed
<1>11. CloseInv' /\ DiesOnlyIf'
  BY <1>1, <1>2 DEF IInv, CloseInv, DiesOnlyIf, ClientInv
<1> QED BY <1>4, <1>5, <1>6, <1>7, <1>8, <1>9, <1>10, <1>11 DEF IInv
(* The client may have given an answer, and nothing else has happened to   *)
(* what the application's calls are about.                                 *)
Answering ==
  /\ cp' \in Parser /\ ParserInv(cp', s2c) /\ Going(cp') /\ ~cp'.closed
  /\ response' \in Responses /\ FitsBy(response', cp', s2c)
  /\ answers' \in Seq([msg : 0 .. MaxPosts, code : Codes])
  /\ Over(cp) <= Over(cp') /\ Len(answers') = Over(cp')
  /\ \A i \in 1 .. Len(answers') :
       answers'[i].code = "ok" /\ answers'[i].msg = s2c[i].msg
  /\ tcp \in {"init", "resolving", "connecting"} => UNCHANGED <<cp, answers>>
  /\ tcp \in {"init", "resolving", "connecting", "open", "closing"}
  /\ Idle(sp)
  /\ UNCHANGED <<listening, s2c, link, cuts, process, srvVars>>

LEMMA AnsweringCounted ==
  ASSUME IInv, Answering
  PROVE  /\ Over(cp') \in Int /\ Over(cp') <= Len(s2c) /\ Len(answers') \in Nat
         /\ ~Failed'
<1>1. cp'.done \in Nat /\ cp'.done <= Len(s2c)
  BY DEF Answering, Parser, ParserInv
<1>2. Over(cp') \in Int /\ Over(cp') <= Len(s2c)
  BY <1>1, Counted DEF Over
<1>3. Len(answers') \in Nat
  BY DEF Answering
<1> QED BY <1>2, <1>3 DEF Answering, Failed

LEMMA AnsweringKeeps ==
  ASSUME IInv, Answering
  PROVE  RepliesInv' /\ link' = link /\ srv' = srv
<1>1. RepliesInv'
  BY DEF Answering, IInv, RepliesInv, Running, srvVars
<1> QED BY <1>1 DEF Answering, srvVars

(* uv_httpc_post *)
LEMMA PostStep ==
  ASSUME IInv, Answering, Post
  PROVE  IInv'
<1> USE DEF srvVars
<1>1. PICK conn \in Connections :
        /\ posts < MaxPosts /\ tcp \in {"init", "connecting", "open"} /\ posts' = posts + 1
        /\ current' = [conn |-> conn, msg |-> posts + 1]
        /\ IF tcp = "init" THEN tcp' = "resolving" /\ c2s' = c2s
           ELSE c2s' = Append(c2s, Request(posts + 1, conn)) /\ tcp' = tcp
        /\ conduct' = conduct \cup {x \in {"ahead"} : posts > Len(answers')}
                              \cup {x \in {"early"} : tcp = "connecting"}
        /\ fin' = fin
  BY DEF Post, SendRequest
<1>2. conduct \subseteq conduct' /\ ("early" \notin conduct' => tcp # "connecting")
      /\ ("ahead" \notin conduct' => "ahead" \notin conduct /\ ~(posts > Len(answers')))
      /\ conduct' \subseteq conduct \cup {"ahead", "early"}
  BY <1>1
<1>3. TypeOK /\ posts + 1 \in 1 .. MaxPosts /\ conn \in Connections \cup {"none"}
  BY <1>1, Counted, LoopAssumption DEF IInv, TypeOK, CliTypeOK
<1>4. /\ c2s' \in Seq([msg : 1 .. MaxPosts, conn : {"none", "close", "keep-alive"},
                       url : {TRUE}])
      /\ c2s' = c2s \/ /\ Len(c2s') = Len(c2s) + 1 /\ c2s'[Len(c2s) + 1].msg = posts + 1
                       /\ \A i \in 1 .. Len(c2s) : c2s'[i] = c2s[i]
      /\ (ParserInv(sp, c2s) /\ Going(sp) /\ RequestInv)'
      /\ HandedInv'
  <2>1. CASE tcp = "init"
    <3>1. c2s' = c2s
      BY <1>1, <2>1
    <3>2. c2s' \in Seq([msg : 1 .. MaxPosts, conn : {"none", "close", "keep-alive"},
                        url : {TRUE}])
      BY <1>3, <3>1 DEF TypeOK, LoopTypeOK
    <3> QED BY <3>1, <3>2 DEF Answering, IInv, RequestInv, HandedInv
  <2>2. CASE tcp # "init"
    <3>1. c2s' = Append(c2s, Request(posts + 1, conn)) /\ UNCHANGED srvVars
      BY <1>1, <2>2 DEF Answering
    <3> QED BY <1>3, <3>1, RequestWritten
  <2> QED BY <2>1, <2>2
<1>5. TypeOK'
  <2>1. LoopTypeOK'
    BY <1>1, <1>3, <1>4 DEF Answering, TypeOK, LoopTypeOK
  <2>2. SrvTypeOK'
    BY <1>3 DEF Answering, TypeOK, SrvTypeOK
  <2>3. current' \in [conn : Connections \cup {"none"}, msg : 0 .. MaxPosts]
    BY <1>1, <1>3, LoopAssumption
  <2>4. posts' \in 0 .. MaxPosts
    BY <1>1, <1>3, LoopAssumption
  <2>5. tcp' \in {"resolving", "connecting", "open"}
    BY <1>1
  <2>6. conduct' \subseteq {"ahead", "early", "stopped_resolving",
                           "stopped_connecting", "stopped_waiting"}
    BY <1>2, <1>3 DEF TypeOK, CliTypeOK
  <2>7. CliTypeOK'
    BY <2>3, <2>4, <2>5, <2>6 DEF Answering, CliTypeOK, Headings, Responses
  <2> QED BY <2>1, <2>2, <2>7 DEF TypeOK
<1>6. (ParserInv(cp, s2c) /\ Going(cp) /\ ResponseInv)'
  BY DEF Answering, ResponseInv
<1>7. RepliesInv' /\ ServerInv'
  BY <1>1, AnsweringKeeps DEF Answering, IInv, ServerInv
<1>8. AheadInv'
  <2>1. "ahead" \notin conduct' => posts' <= Over(cp') + 1
    BY <1>1, <1>2, Counted, AnsweringCounted DEF Answering
  <2> QED BY <2>1 DEF Answering, AheadInv, ClosedWhileParsing
<1>9. PostsInv'
  <2>1. /\ Len(c2s) \in Nat /\ posts \in Nat /\ current'.msg = posts + 1
        /\ tcp \in {"init", "open"} => Len(c2s) = posts
        /\ tcp = "connecting" => posts = Len(c2s) + 1
        /\ "early" \notin conduct => \A i \in 1 .. Len(c2s) : c2s[i].msg = i
    BY <1>1, Counted DEF IInv, PostsInv
  <2>2. CASE tcp = "init"
    BY <1>1, <1>2, <2>1, <2>2 DEF PostsInv
  <2>3. CASE tcp \in {"connecting", "open"}
    <3>1. c2s' # c2s
      <4>1. Len(Append(c2s, Request(posts + 1, conn))) # Len(c2s)
        BY <1>3, <2>1, Typed
      <4> QED BY <1>1, <2>3, <4>1
    <3>2. /\ Len(c2s') = Len(c2s) + 1 /\ c2s'[Len(c2s) + 1].msg = posts + 1
          /\ \A i \in 1 .. Len(c2s) : c2s'[i] = c2s[i]
      BY <1>4, <3>1
    <3>3. \A i \in 1 .. Len(c2s') : i \in 1 .. Len(c2s) \/ i = Len(c2s) + 1
      BY <2>1, <3>2
    <3>4. "early" \notin conduct' => \A i \in 1 .. Len(c2s') : c2s'[i].msg = i
      BY <1>2, <2>1, <2>3, <3>2, <3>3
    <3> QED BY <1>1, <2>1, <2>3, <3>2, <3>4 DEF PostsInv
  <2> QED BY <1>1, <2>2, <2>3
<1>10. ClientInv'
  BY <1>1, <1>2 DEF Answering, IInv, ClientInv
<1>11. AnswersInv'
  BY AnsweringCounted DEF Answering, AnswersInv
<1>12. CloseInv' /\ DiesOnlyIf'
  BY <1>1, <1>2 DEF Answering, IInv, CloseInv, DiesOnlyIf, ClientInv
<1> QED BY <1>4, <1>5, <1>6, <1>7, <1>8, <1>9, <1>10, <1>11, <1>12 DEF IInv

(* uv_httpc_stop *)
LEMMA StopStep ==
  ASSUME IInv, Answering, Stop
  PROVE  IInv'
<1> USE DEF srvVars
<1>1. /\ tcp \in {"init", "resolving", "connecting", "open"}
      /\ tcp' \in {"abandoning", "cancelling", "closing"}
      /\ tcp' = "abandoning" <=> tcp = "resolving"
      /\ tcp' = "cancelling" <=> tcp = "connecting"
      /\ fin' = fin \cup {"client"}
      /\ UNCHANGED <<c2s, posts, current>>
  BY DEF Stop, CliClose
<1>2. /\ conduct \subseteq conduct'
      /\ tcp = "resolving" => "stopped_resolving" \in conduct'
      /\ tcp = "connecting" => "stopped_connecting" \in conduct'
      /\ posts > Len(answers') => "stopped_waiting" \in conduct'
      /\ conduct' \subseteq
           conduct \cup {"stopped_resolving", "stopped_connecting", "stopped_waiting"}
  BY DEF Stop
<1>3. TypeOK'
  <2>1. LoopTypeOK' /\ SrvTypeOK'
    BY <1>1 DEF Answering, IInv, TypeOK, LoopTypeOK, SrvTypeOK
  <2>2. tcp' \in {"abandoning", "cancelling", "closing"}
    BY <1>1
  <2>3. conduct' \subseteq {"ahead", "early", "stopped_resolving",
                           "stopped_connecting", "stopped_waiting"}
    BY <1>2 DEF IInv, TypeOK, CliTypeOK
  <2>4. CliTypeOK'
    BY <1>1, <2>2, <2>3 DEF Answering, IInv, TypeOK, CliTypeOK, Headings, Responses
  <2> QED BY <2>1, <2>4 DEF TypeOK
<1>4. (ParserInv(sp, c2s) /\ Going(sp) /\ RequestInv)'
  BY <1>1 DEF Answering, IInv, RequestInv
<1>5. (ParserInv(cp, s2c) /\ Going(cp) /\ ResponseInv)'
  BY DEF Answering, ResponseInv
<1>6. HandedInv' /\ RepliesInv' /\ ServerInv'
  BY <1>1, AnsweringKeeps DEF Answering, IInv, HandedInv, ServerInv
<1>7. AheadInv'
  <2>1. "ahead" \notin conduct' => posts' <= Over(cp') + 1
    BY <1>1, <1>2, Counted, AnsweringCounted DEF Answering, IInv, AheadInv
  <2> QED BY <2>1 DEF Answering, AheadInv, ClosedWhileParsing
<1>8. PostsInv' /\ ClientInv'
  BY <1>1, <1>2 DEF Answering, IInv, PostsInv, ClientInv
<1>9. AnswersInv'
  BY AnsweringCounted DEF Answering, AnswersInv
<1>10. CloseInv'
  <2>1. ~(posts > Len(answers')) => Len(c2s) <= Len(s2c)
    BY Counted, AnsweringCounted DEF Answering
  <2> QED BY <1>1, <1>2, <2>1 DEF Answering, CloseInv
<1>11. DiesOnlyIf'
  BY <1>1, <1>2 DEF Answering, IInv, DiesOnlyIf
<1> QED BY <1>3, <1>4, <1>5, <1>6, <1>7, <1>8, <1>9, <1>10, <1>11 DEF IInv

(* An answer and no call *)
LEMMA AnswerStep ==
  ASSUME IInv, Answering, tcp \in {"open", "closing"},
         UNCHANGED <<c2s, fin, tcp, posts, current, conduct>>
  PROVE  IInv'
<1> USE DEF srvVars
<1>1. TypeOK'
  <2>1. LoopTypeOK' /\ SrvTypeOK'
    BY DEF Answering, IInv, TypeOK, LoopTypeOK, SrvTypeOK
  <2>2. CliTypeOK'
    BY DEF Answering, IInv, TypeOK, CliTypeOK, Headings, Responses
  <2> QED BY <2>1, <2>2 DEF TypeOK
<1>2. (ParserInv(sp, c2s) /\ Going(sp) /\ RequestInv)'
  BY DEF Answering, IInv, RequestInv
<1>3. (ParserInv(cp, s2c) /\ Going(cp) /\ ResponseInv)'
  BY DEF Answering, ResponseInv
<1>4. HandedInv' /\ RepliesInv' /\ ServerInv'
  BY AnsweringKeeps DEF Answering, IInv, HandedInv, ServerInv
<1>5. AheadInv'
  <2>1. "ahead" \notin conduct => posts <= Over(cp') + 1
    BY Counted, AnsweringCounted DEF Answering, IInv, AheadInv
  <2> QED BY <2>1 DEF Answering, AheadInv, ClosedWhileParsing
<1>6. PostsInv' /\ ClientInv'
  BY DEF Answering, IInv, PostsInv, ClientInv
<1>7. AnswersInv'
  BY AnsweringCounted DEF Answering, AnswersInv
<1>8. CloseInv' /\ DiesOnlyIf'
  BY DEF Answering, IInv, CloseInv, DiesOnlyIf
<1> QED BY <1>1, <1>2, <1>3, <1>4, <1>5, <1>6, <1>7, <1>8 DEF IInv

LEMMA CallsStep ==
  ASSUME IInv, Calls, Idle(sp), UNCHANGED srvVars
  PROVE  IInv'
<1>1. /\ UNCHANGED <<listening, s2c, link, cuts, process, response, cp, answers>>
      /\ tcp \in {"init", "resolving", "connecting", "open"}
      /\ Post \/ Stop
  BY DEF Calls, Post, Stop
<1>2. ~Failed
  BY <1>1 DEF IInv, AnswersInv
<1>3. Answering
  <2>1. cp \in Parser /\ response \in Responses
    BY Typed DEF IInv
  <2>2. FitsBy(response, cp, s2c)
    BY <1>1 DEF IInv, ResponseInv
  <2>3. \A i \in 1 .. Len(answers) : answers[i].code = "ok" /\ answers[i].msg = s2c[i].msg
    BY <1>2 DEF IInv, AnswersInv, Failed
  <2>4. answers \in Seq([msg : 0 .. MaxPosts, code : Codes])
    BY DEF IInv, TypeOK, CliTypeOK
  <2>5. Over(cp) <= Over(cp) /\ Len(answers) = Over(cp)
    BY <1>2, Counted DEF IInv, AnswersInv
  <2> QED BY <1>1, <2>1, <2>2, <2>3, <2>4, <2>5 DEF Answering, IInv, ClientInv
<1> QED BY <1>1, <1>3, PostStep, StopStep

LEMMA CliMessageCompleteStep ==
  ASSUME IInv, CliMessageComplete, Idle(sp), UNCHANGED srvVars
  PROVE  IInv'
<1>1. /\ cp.due # <<>> /\ cp.due[1].cb = "on_message_complete" /\ cp' = Called(cp)
      /\ answers' = Append(answers, [msg |-> s2c[cp.done].msg, code |-> "ok"])
      /\ response' = NoResponse
      /\ UNCHANGED <<listening, s2c, link, cuts, process>>
      /\ Post \/ Stop \/ UNCHANGED <<c2s, fin, tcp, posts, current, conduct>>
  BY DEF CliMessageComplete, CliCall, Due
<1>2. TypeOK /\ ParserInv(cp, s2c) /\ Going(cp) /\ ~cp.closed /\ cp \in Parser
  BY Typed DEF IInv, ClientInv
<1>3. /\ cp' \in Parser /\ ParserInv(cp', s2c) /\ Going(cp')
      /\ cp'.done = cp.done /\ cp'.at = cp.at /\ cp'.closed = cp.closed
      /\ Ended(cp) /\ cp'.due = <<>> /\ ~Ended(cp')
  <2>1. Callback("on_body", Brought("start", cp.cut)).cb # "on_message_complete"
    BY DEF Callback
  <2> QED BY <1>1, <1>2, <2>1, CalledKeeps, Typed
<1>4. /\ cp.done \in 1 .. Len(s2c) /\ Over(cp) = cp.done - 1 /\ Over(cp') = cp.done
  BY <1>2, <1>3, Counted DEF Ended, Over, ParserInv, DueInv
<1>5. ~Idle(cp)
  BY <1>1 DEF Idle
<1>6. ~Failed /\ tcp \in {"open", "closing"}
  <2>1. cp # FreshParser
    BY <1>1 DEF FreshParser
  <2> QED BY <1>2, <1>5, <2>1 DEF IInv, AnswersInv, ClientInv, TypeOK, CliTypeOK
<1>7. /\ Len(answers) = cp.done - 1
      /\ \A i \in 1 .. Len(answers) : answers[i].code = "ok" /\ answers[i].msg = s2c[i].msg
  BY <1>4, <1>6 DEF IInv, AnswersInv, Failed
<1>8. PICK a : a = [msg |-> s2c[cp.done].msg, code |-> "ok"]
  OBVIOUS
<1>9. PICK S : S = [msg : 0 .. MaxPosts, code : Codes]
  OBVIOUS
<1>10. a \in S /\ a.code = "ok" /\ a.msg = s2c[cp.done].msg
  <2>1. s2c[cp.done].msg \in 0 .. MaxPosts
    BY <1>2, <1>4, Typed
  <2> QED BY <1>8, <1>9, <2>1 DEF Codes
<1>11. /\ answers' \in Seq(S) /\ Len(answers') = Len(answers) + 1
       /\ answers'[Len(answers) + 1] = a
       /\ \A i \in 1 .. Len(answers) : answers'[i] = answers[i]
  <2>1. answers \in Seq(S) /\ answers' = Append(answers, a)
    BY <1>1, <1>2, <1>8, <1>9 DEF TypeOK, CliTypeOK
  <2> QED BY <1>10, <2>1, AppendProperties
<1>12. cp.done \in Nat /\ Len(answers) + 1 = cp.done
  BY <1>4, <1>7, Counted
<1>13. \A i \in 1 .. Len(answers') :
         answers'[i].code = "ok" /\ answers'[i].msg = s2c[i].msg
  <2>1. \A i \in 1 .. Len(answers') : i \in 1 .. Len(answers) \/ i = cp.done
    BY <1>11, <1>12, Counted
  <2> QED BY <1>7, <1>10, <1>11, <1>12, <2>1
<1>14. FitsBy(response', cp', s2c)
  BY <1>3, FitsAny DEF Ended
<1>15. response' \in Responses
  BY <1>1 DEF NoResponse, Responses, Fragments
<1>16. Over(cp) <= Over(cp') /\ Len(answers') = Over(cp')
  BY <1>4, <1>11, <1>12
<1>17. Answering
  BY <1>1, <1>2, <1>3, <1>6, <1>9, <1>11, <1>13, <1>14, <1>15, <1>16 DEF Answering
<1> QED BY <1>1, <1>6, <1>17, PostStep, StopStep, AnswerStep

LEMMA CliIInv ==
  ASSUME IInv, CliNext, Idle(sp), UNCHANGED srvVars
  PROVE  IInv'
<1>1. CASE CliCallback
  BY <1>1, CliCollectStep, CliMessageCompleteStep DEF CliCallback
<1>2. CASE ~CliCallback
  BY <1>2, CallsStep, OnResolvedStep, OnConnectStep, OnConnectFailedStep,
     OnConnectCancelledStep, OnResolvedStoppedStep, CliReadStep, CliEofStep, CliOnCloseStep DEF CliNext
<1> QED BY <1>1, <1>2

LEMMA StepIInv == IInv /\ [Next]_vars => IInv'
<1> SUFFICES ASSUME IInv, [Next]_vars
             PROVE  IInv'
  OBVIOUS
<1>1. CASE Idle(cp) /\ SrvNext /\ UNCHANGED cliVars
  BY <1>1, SrvIInv
<1>2. CASE Idle(sp) /\ CliNext /\ UNCHANGED srvVars
  BY <1>2, CliIInv
<1>3. CASE UNCHANGED vars
  <2> USE <1>3 DEF vars, loopVars, srvVars, cliVars
  <2>1. TypeOK'
    BY DEF IInv, TypeOK, LoopTypeOK, SrvTypeOK, CliTypeOK
  <2>2. (ParserInv(sp, c2s) /\ Going(sp) /\ RequestInv)'
    BY DEF IInv, RequestInv
  <2>3. (ParserInv(cp, s2c) /\ Going(cp) /\ ResponseInv)'
    BY DEF IInv, ResponseInv
  <2>4. HandedInv' /\ RepliesInv' /\ ServerInv'
    BY DEF IInv, HandedInv, RepliesInv, Running, ServerInv
  <2>5. AheadInv' /\ PostsInv' /\ ClientInv'
    BY DEF IInv, AheadInv, ClosedWhileParsing, PostsInv, ClientInv
  <2>6. AnswersInv' /\ CloseInv' /\ DiesOnlyIf'
    BY DEF IInv, AnswersInv, Failed, CloseInv, DiesOnlyIf
  <2> QED BY <2>1, <2>2, <2>3, <2>4, <2>5, <2>6 DEF IInv
<1> QED BY <1>1, <1>2, <1>3 DEF Next

LEMMA Invariance == Spec => []IInv
<1> QED BY InitIInv, StepIInv, PTL DEF Spec

-----------------------------------------------------------------------------
(* Every variable has its type: what a parser holds, what the programs     *)
(* collect, and what is written (uv_httpd.c, uv_httpc.c, llhttp.c).        *)
THEOREM TypeCorrect == Spec => []TypeOK
<1>1. IInv => TypeOK
  BY DEF IInv
<1> QED BY <1>1, Invariance, PTL

(* The last callback of a message is due, and the program has been given   *)
(* everything else.                                                        *)
LEMMA CompleteIsEnd ==
  ASSUME NEW p \in Parser, NEW stream, ParserInv(p, stream), Due(p, "on_message_complete")
  PROVE  /\ p.at = "start" /\ p.due = <<Complete>> /\ Collecting(p)
         /\ Current(p, stream) = stream[p.done]
<1>1. p.due # <<>> /\ p.due[1].cb = "on_message_complete"
  BY DEF Due
<1>2. CASE /\ p.at \notin {"start", "blank"} /\ ~p.closed
           /\ p.due = <<Callback(CallbackAt(p.at), Brought(p.at, p.cut))>>
  <2>1. p.due[1].cb = CallbackAt(p.at)
    BY <1>2 DEF Callback
  <2>2. CallbackAt(p.at) # "on_message_complete"
    BY <1>2 DEF CallbackAt, Parser, Places, SpanPieces
  <2> QED BY <1>1, <2>1, <2>2
<1>3. CASE /\ p.at = "start"
           /\ p.due = <<Callback("on_body", Brought("start", p.cut)), Complete>>
  BY <1>1, <1>3 DEF Callback
<1> QED BY <1>1, <1>2, <1>3 DEF ParserInv, DueInv, Collecting, Ended, Current

(* Which fragments of the header's value are the whole value               *)
LEMMA GivenIs ==
  ASSUME NEW cut
  PROVE  /\ Len(GivenAtEnd(cut)) >= 1
         /\ GivenAtEnd(cut)[1] = IF "value1" \in cut THEN <<1>> ELSE <<1, 2>>
         /\ GivenAtEnd(cut) = <<<<1, 2>>>> <=> "value1" \notin cut /\ "value2" \notin cut
<1>1. PICK e, o, t, w \in Fragments : e = <<>> /\ o = <<1>> /\ t = <<2>> /\ w = <<1, 2>>
  BY DEF Fragments
<1>2. o # w /\ t # w /\ e # w
  BY <1>1
<1>3. Brought("eoh", cut) = IF "value2" \in cut THEN e ELSE IF "value1" \in cut THEN t ELSE w
  BY <1>1 DEF Brought, Second
<1>4. CASE "value1" \notin cut /\ "value2" \notin cut
  <2>1. GivenAtEnd(cut) = Append(<<>>, w)
    BY <1>3, <1>4 DEF GivenAtEnd, GivenAtTwo, GivenAtOne
  <2>2. GivenAtEnd(cut) = <<w>>
    BY <2>1, AppendToEmpty
  <2> QED BY <1>1, <1>4, <2>2
<1>5. CASE "value1" \notin cut /\ "value2" \in cut
  <2>1. GivenAtEnd(cut) = Append(Append(<<>>, w), e)
    BY <1>1, <1>3, <1>5 DEF GivenAtEnd, GivenAtTwo, GivenAtOne, Second
  <2>2. Append(<<>>, w) \in Seq(Fragments) /\ Len(Append(<<>>, w)) = 1 /\ Append(<<>>, w)[1] = w
    OBVIOUS
  <2>3. Len(GivenAtEnd(cut)) = 2 /\ GivenAtEnd(cut)[1] = w
    BY <2>1, <2>2
  <2>4. GivenAtEnd(cut) # <<<<1, 2>>>>
    BY <2>3
  <2> QED BY <1>1, <1>5, <2>3, <2>4
<1>6. CASE "value1" \in cut /\ "value2" \notin cut
  <2>1. GivenAtEnd(cut) = Append(<<o>>, t)
    BY <1>1, <1>3, <1>6 DEF GivenAtEnd, GivenAtTwo, GivenAtOne
  <2>2. Len(GivenAtEnd(cut)) = 2 /\ GivenAtEnd(cut)[1] = o
    BY <2>1
  <2>3. GivenAtEnd(cut) # <<<<1, 2>>>>
    BY <2>2
  <2> QED BY <1>1, <1>6, <2>2, <2>3
<1>7. CASE "value1" \in cut /\ "value2" \in cut
  <2>1. GivenAtEnd(cut) = Append(Append(<<o>>, t), e)
    BY <1>1, <1>3, <1>7 DEF GivenAtEnd, GivenAtTwo, GivenAtOne, Second
  <2>2. /\ Append(<<o>>, t) \in Seq(Fragments) /\ Len(Append(<<o>>, t)) = 2
        /\ Append(<<o>>, t)[1] = o
    OBVIOUS
  <2>3. Len(GivenAtEnd(cut)) = 3 /\ GivenAtEnd(cut)[1] = o
    BY <2>1, <2>2
  <2>4. GivenAtEnd(cut) # <<<<1, 2>>>>
    BY <2>3
  <2> QED BY <1>1, <1>7, <2>3, <2>4
<1> QED BY <1>4, <1>5, <1>6, <1>7

LEMMA RequestIsWhole ==
  ASSUME IInv
  PROVE  RequestWhole
<1> SUFFICES ASSUME Due(sp, "on_message_complete"), NEW conn, conn = c2s[sp.done].conn
             PROVE  /\ req.url = <<1, 2>> <=> NotCut(sp, {"url1", "url2"})
                    /\ req.body = <<1, 2>> <=> NotCut(sp, {"body1"})
                    /\ KeepsAlive(conn) <=>
                         conn = "keep-alive" /\ NotCut(sp, {"key1", "key2", "value1"})
  BY DEF RequestWhole
<1>1. sp \in Parser /\ ParserInv(sp, c2s) /\ Fits(req, sp, c2s) /\ req \in Requests
  BY Typed DEF IInv, RequestInv
<1>2. /\ sp.at = "start" /\ sp.due = <<Complete>> /\ Collecting(sp)
      /\ Current(sp, c2s).conn = conn
  BY <1>1, CompleteIsEnd
<1>3. Noted(req, sp.due) = req
  BY <1>1, <1>2, NotedIs DEF Fragments
<1>4. Collected(req, "start", sp.cut, Current(sp, c2s))
  BY <1>1, <1>2, <1>3 DEF Fits
<1>5. PICK e, o, t, w \in Fragments : e = <<>> /\ o = <<1>> /\ t = <<2>> /\ w = <<1, 2>>
  BY DEF Fragments
<1>6. o # w /\ t # w /\ e # w
  BY <1>5
<1>7. req.url = w <=> NotCut(sp, {"url1", "url2"})
  <2>1. req.url = IF "url2" \in sp.cut THEN e ELSE IF "url1" \in sp.cut THEN t ELSE w
    BY <1>4, <1>5 DEF Collected, Brought, Second
  <2> QED BY <1>6, <2>1 DEF NotCut
<1>8. req.body = w <=> NotCut(sp, {"body1"})
  <2>1. req.body = IF "body1" \in sp.cut THEN t ELSE w
    BY <1>4, <1>5 DEF Collected, Brought, Second
  <2> QED BY <1>6, <2>1 DEF NotCut
<1>9. ASSUME conn = "keep-alive"
      PROVE  (\E i \in DOMAIN req.headers : req.headers[i].key /\ req.headers[i].value = w)
               <=> NotCut(sp, {"key1", "key2", "value1"})
  <2>1. HeaderAt("start", Current(sp, c2s))
    BY <1>2, <1>9 DEF HeaderAt
  <2>2. PICK g : g = GivenAtEnd(sp.cut)
    OBVIOUS
  <2>3. Shows(req, g, sp.cut)
    BY <1>4, <2>1, <2>2 DEF Collected, Given
  <2>4. g \in Seq(Fragments) /\ Len(g) >= 1
    <3>1. Given("start", sp.cut) \in Seq(Fragments)
      BY GivenType
    <3> QED BY <2>2, <3>1, GivenIs DEF Given
  <2>5. DOMAIN req.headers = 1 .. Len(g) /\ 1 \in 1 .. Len(g)
    BY <1>1, <2>3, <2>4 DEF Shows, Requests
  <2>6. g[1] = IF "value1" \in sp.cut THEN o ELSE w
    BY <1>5, <2>2, GivenIs
  <2> QED BY <1>6, <2>3, <2>5, <2>6 DEF Shows, Named, NotCut
<1> QED BY <1>5, <1>7, <1>8, <1>9 DEF KeepsAlive

LEMMA OneEqual == \A x, y : <<x>> = <<y>> => x = y
OBVIOUS

LEMMA ResponseIsWhole ==
  ASSUME IInv
  PROVE  ResponseWhole
<1> DEFINE Uncut == NotCut(cp, {"key1", "key2", "value1", "value2"})
<1> SUFFICES ASSUME Due(cp, "on_message_complete")
             PROVE  /\ response.headers = <<[name |-> <<1, 2>>, values |-> <<<<1, 2>>>>]>>
                         <=> Uncut
                    /\ response.body = <<1, 2>> <=> NotCut(cp, {"body1"})
  BY DEF ResponseWhole
<1>1. cp \in Parser /\ ParserInv(cp, s2c) /\ ~Idle(cp)
  BY Typed DEF IInv, Due, Idle
<1>2. FitsBy(response, cp, s2c)
  BY <1>1 DEF IInv, ResponseInv, ClientInv
<1>3. /\ cp.at = "start" /\ cp.due = <<Complete>> /\ Collecting(cp)
      /\ Current(cp, s2c) = s2c[cp.done]
  BY <1>1, CompleteIsEnd
<1>4. NotedBy(response, cp.due) = response
  BY <1>3, NotedByIs
<1>5. CollectedBy(response, "start", cp.cut, Current(cp, s2c))
  BY <1>2, <1>3, <1>4 DEF FitsBy
<1>6. HeaderAt("start", Current(cp, s2c))
  <2>1. cp.done \in 1 .. Len(s2c)
    BY <1>1, <1>3, Counted DEF ParserInv, DueInv
  <2>2. s2c[cp.done].conn = "any"
    BY <2>1, Typed DEF IInv
  <2> QED BY <1>3, <2>2 DEF HeaderAt
<1>7. PICK g : g = GivenAtEnd(cp.cut)
  OBVIOUS
<1>8. PICK before : before = MadeAtTwo(cp.cut)
  OBVIOUS
<1>9. PICK last : last = Header(Brought("colon", cp.cut), g)
  OBVIOUS
<1>10. response.headers = Append(before, last)
  BY <1>5, <1>6, <1>7, <1>8, <1>9 DEF CollectedBy, Made, Given
<1>11. PICK whole : whole = [name |-> <<1, 2>>, values |-> <<<<1, 2>>>>]
  OBVIOUS
<1>12. last = whole <=> last.name = <<1, 2>> /\ last.values = <<<<1, 2>>>>
  BY <1>9, <1>11 DEF Header
<1>13. response.headers = <<whole>> <=> Uncut
  <2>1. CASE Named(cp.cut)
    <3>1. response.headers = <<last>>
      <4>1. before = <<>>
        BY <1>8, <2>1 DEF Named, MadeAtTwo, MadeAtOne
      <4> QED BY <1>10, <4>1, AppendToEmpty
    <3>2. last.name = <<1, 2>>
      BY <1>9, <2>1 DEF Header, Named, Brought, Second
    <3>3. last.values = <<<<1, 2>>>> <=> "value1" \notin cp.cut /\ "value2" \notin cp.cut
      <4>1. last.values = g
        BY <1>9 DEF Header
      <4> QED BY <1>7, <4>1, GivenIs, Zenon
    <3>4. last = whole <=> Uncut
      BY <1>12, <2>1, <3>2, <3>3 DEF Named, NotCut
    <3>5. response.headers = <<whole>> <=> last = whole
      BY <3>1, OneEqual, Zenon
    <3> QED BY <3>4, <3>5
  <2>2. CASE ~Named(cp.cut)
    <3>1. before \in Seq(Headings) /\ Len(before) >= 1
      <4>1. CASE "key2" \notin cp.cut
        BY <1>8, <2>2, <4>1, MadeType DEF Named, MadeAtTwo, MadeAtOne
      <4>2. CASE "key2" \in cp.cut
        <5>1. MadeAtOne(cp.cut) \in Seq(Headings)
          BY MadeType
        <5> QED BY <1>8, <4>2, <5>1, MadeType DEF MadeAtTwo
      <4> QED BY <4>1, <4>2
    <3>2. Len(Append(before, last)) >= 2
      BY <3>1
    <3>3. Len(<<whole>>) = 1
      OBVIOUS
    <3>4. response.headers # <<whole>>
      BY <1>10, <3>2, <3>3
    <3> QED BY <2>2, <3>4 DEF Named, NotCut
  <2> QED BY <2>1, <2>2
<1>14. response.body = <<1, 2>> <=> NotCut(cp, {"body1"})
  <2>1. PICK t, w \in Fragments : t = <<2>> /\ w = <<1, 2>>
    BY DEF Fragments
  <2>2. t # w
    BY <2>1
  <2>3. response.body = IF "body1" \in cp.cut THEN t ELSE w
    BY <1>5, <2>1 DEF CollectedBy, Brought, Second
  <2> QED BY <2>1, <2>2, <2>3 DEF NotCut
<1> QED BY <1>11, <1>13, <1>14

(* What the ends of reads do to a message of either direction: url, body   *)
(* and keep-alive of a request, headers and body of a response are whole   *)
(* exactly if no read ended within them, or just behind the URL, the       *)
(* header's name or its value where that matters (on_url, on_header_field, *)
(* on_header_value, on_body of both programs, headers_contains,            *)
(* headers_append_key, headers_append_value).                              *)
THEOREM MessagesCutExactly == Spec => []MessagesWhole
<1>1. IInv => MessagesWhole
  BY RequestIsWhole, ResponseIsWhole DEF MessagesWhole
<1> QED BY <1>1, Invariance, PTL

(* on_request is called once for every request, in the order they were     *)
(* written, however many there are and however they arrive (uv_httpd.c     *)
(* on_read, on_message_complete).                                          *)
THEOREM RequestsHandedOnce == Spec => []HandedOnce
<1>1. ASSUME IInv
      PROVE  HandedOnce
  <2>1. \A i \in DOMAIN handed : i \in 1 .. Len(handed)
    BY <1>1 DEF IInv, TypeOK, SrvTypeOK
  <2>2. Len(handed) <= Len(c2s) /\ \A i \in DOMAIN handed : handed[i] = c2s[i].msg
    BY <1>1, <2>1, Counted DEF IInv, HandedInv
  <2>3. ASSUME srv = "open", Idle(sp), ~Unread(sp, c2s)
        PROVE  Len(handed) = Len(c2s)
    <3>1. ~Ended(sp) /\ Over(sp) = sp.done
      BY <2>3 DEF Idle, Ended, Over
    <3>2. Len(handed) = sp.done
      BY <1>1, <2>3, <3>1 DEF IInv, ServerInv, HandedInv
    <3> QED BY <1>1, <2>2, <2>3, <3>2, Counted DEF Unread
  <2> QED BY <2>2, <2>3 DEF HandedOnce
<1> QED BY <1>1, Invariance, PTL

(* The k-th on_response is the answer to the k-th post of an application   *)
(* that does not post before the connection is up, and none follows one    *)
(* with an error (uv_httpc.c send_request, on_connect,                     *)
(* on_message_complete, generic_on_response).                              *)
THEOREM AnswersInOrder == Spec => []AnswersAsPosted
<1>1. ASSUME IInv
      PROVE  AnswersAsPosted
  <2>1. SUFFICES ASSUME NEW i \in DOMAIN answers
                 PROVE  /\ answers[i].code # "ok" => i = Len(answers)
                        /\ answers[i].code = "ok" /\ "early" \notin conduct =>
                             answers[i].msg = i
    BY DEF AnswersAsPosted
  <2>2. i \in 1 .. Len(answers)
    BY <1>1 DEF IInv, TypeOK, CliTypeOK
  <2>3. IF answers[i].code = "ok"
        THEN i <= Over(cp) /\ answers[i].msg = s2c[i].msg
        ELSE i = Len(answers)
    BY <1>1, <2>2 DEF IInv, AnswersInv
  <2>4. ASSUME i <= Over(cp), "early" \notin conduct
        PROVE  s2c[i].msg = i
    <3>1. i \in 1 .. Len(s2c) /\ i \in 1 .. Len(handed) /\ i \in 1 .. Len(c2s)
      BY <1>1, <2>2, <2>4, Counted
    <3> QED BY <1>1, <2>4, <3>1 DEF IInv, RepliesInv, HandedInv, PostsInv
  <2> QED BY <2>3, <2>4
<1> QED BY <1>1, Invariance, PTL

(* What the process can die of: a second uv_close of the server's handle   *)
(* only after a pipelined post, of the client's only after a stop during   *)
(* the look-up or while connecting, a closed handle connected only after a *)
(* stop during the look-up, a failed write only after a stop before the    *)
(* answer or when the server has closed (uv_httpd.c on_message_complete,   *)
(* on_write; uv_httpc.c on_resolved, on_connect, uv_httpc_stop).           *)
THEOREM DeathsExplained == Spec => []DiesOnlyIf
<1>1. IInv => DiesOnlyIf
  BY DEF IInv
<1> QED BY <1>1, Invariance, PTL
=============================================================================
