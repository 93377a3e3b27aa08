------------------------------ MODULE HttpLoop ------------------------------
(***************************************************************************)
(* What uvlib's HTTP server and HTTP client share when they run on one     *)
(* event loop, as in uv_httpc_test_main: the connection between them and   *)
(* the process.                                                            *)
(***************************************************************************)
EXTENDS Llhttp

CONSTANTS
  MaxPosts,   \* bound: calls of uv_httpc_post
  MaxCuts     \* bound: reads that leave some of what has been written behind

ASSUME LoopAssumption == MaxPosts \in Nat /\ MaxCuts \in Nat

VARIABLES
  listening,  \* the server's handle listens
  c2s, s2c,   \* the messages written by the client and by the server, in order
  link,       \* "none", "dialled" (connected, not accepted yet), "accepted"
  cuts,       \* how many reads have left something behind
  fin,        \* which ends have closed: "client", "server"
  process     \* "runs", or what it died of

loopVars == <<listening, c2s, s2c, link, cuts, fin, process>>

(* libuv aborts in uv_close when the handle is closing already; on_write   *)
(* of the server asserts that its status is 0; the client may connect a    *)
(* handle that is closed.                                                  *)
Deaths == {"httpd_closed_twice", "httpd_write", "httpc_closed_twice",
           "httpc_connects_closed"}

Running == process = "runs"

LoopTypeOK ==
  /\ listening \in BOOLEAN
  /\ c2s \in Seq([msg : 1 .. MaxPosts, conn : {"none", "close", "keep-alive"},
                  url : {TRUE}])
  /\ s2c \in Seq([msg : 1 .. MaxPosts, conn : {"any"}, url : {FALSE}])
  /\ link \in {"none", "dialled", "accepted"}
  /\ cuts \in 0 .. MaxCuts
  /\ fin \subseteq {"client", "server"}
  /\ process \in Deaths \cup {"runs"}

LoopInit ==
  /\ listening = TRUE
  /\ c2s = <<>> /\ s2c = <<>>
  /\ link = "none" /\ cuts = 0 /\ fin = {}
  /\ process = "runs"

(* There is something in the stream that has not been parsed. *)
Unread(p, stream) == p.done < Len(stream)

(* The pieces that a read has brought are parsed one by one, *)
ParsesNext(p, stream, q) ==
  /\ Unread(p, stream)
  /\ q = Consume(p, stream[p.done + 1])
  /\ UNCHANGED cuts

(* and it has brought all that was written, or some of it.                 *)
Ends(p, stream, q) ==
  /\ q = Leave(p)
  /\ IF Unread(p, stream) THEN cuts < MaxCuts /\ cuts' = cuts + 1
     ELSE UNCHANGED cuts

=============================================================================
