-------------------------- MODULE MCServerDemoReader --------------------------
(***************************************************************************)
(* Instances of ServerDemoReader for TLC.  The buffer holds 40 bytes: three *)
(* short frames, or one long one and a part of the next, so that one read  *)
(* may bring several frames and a full buffer is moved within three.       *)
(***************************************************************************)
EXTENDS ServerDemoReader, MCFrames

MCBuffSize == 40

AllStreams ==
  {a \o b : a \in (Good \cup Noise), b \in {Plain, Nesting}}
    \cup {Nesting \o Plain \o c : c \in {Nesting, Swallows, BadTail, TooLong}}
    \cup {a \o b \o c : a \in {Plain, Nesting}, b, c \in Good}
    \cup {TooLong \o Nesting \o Plain}

=============================================================================
