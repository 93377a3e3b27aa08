---------------------------- MODULE MCUvTcpServer ----------------------------
(***************************************************************************)
(* Instances of UvTcpServer for TLC: streams of two or three pieces.       *)
(***************************************************************************)
EXTENDS UvTcpServer, MCFrames

AllStreams ==
  {a \o b : a, b \in Good \cup Noise}
    \cup {a \o Plain \o c : a \in Noise, c \in Noise \cup {Plain}}
    \cup {a \o b \o Plain : a \in {Plain, Nesting}, b \in Refused}
    \cup {a \o WithLF \o c : a, c \in {Plain, Nesting}}

=============================================================================
