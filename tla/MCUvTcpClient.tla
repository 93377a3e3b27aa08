---------------------------- MODULE MCUvTcpClient ----------------------------
(***************************************************************************)
(* Instance of UvTcpClient for TLC: two timers (one whose close callback   *)
(* is due and its successor) and three calls of uv_tcpclient_stop.         *)
(***************************************************************************)
EXTENDS UvTcpClient

CONSTANTS t1, t2

TwoTimers == {t1, t2}

=============================================================================
