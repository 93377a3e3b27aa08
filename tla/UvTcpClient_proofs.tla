-------------------------- MODULE UvTcpClient_proofs --------------------------
(***************************************************************************)
(* Proofs about UvTcpClient, for any set of timers and any bounds.         *)
(*                                                                         *)
(* The invariants hold each other up: that at most one of look-up, handle, *)
(* on_connect(cli, 0) and timer exists keeps a handle from being           *)
(* overwritten; that a running timer is in no closing list, and TCP only   *)
(* when it is closing, makes every uv_close the first one for its handle.  *)
(* Inv is their conjunction.                                               *)
(***************************************************************************)
EXTENDS UvTcpClient, SequenceTheorems, TLAPS

Inv ==
  /\ TypeOK
  /\ OneAtATime
  /\ ConnectedHasHandle
  /\ OwnBytesOnly
  /\ ClosedOnce
  /\ ArmedNotClosed
  /\ NowWhileClosing

(* What pushing a handle on a closing list leaves *)
LEMMA PushProperties ==
  ASSUME NEW S, NEW s \in Seq(S), NEW h \in S
  PROVE  /\ Append(s, h) \in Seq(S)
         /\ \A g : InSeq(g, Append(s, h)) <=> InSeq(g, s) \/ g = h
         /\ NoRepeat(s) /\ ~InSeq(h, s) => NoRepeat(Append(s, h))
<1>1. /\ Append(s, h) \in Seq(S)
      /\ Len(Append(s, h)) = Len(s) + 1
      /\ \A i \in 1 .. Len(s) : Append(s, h)[i] = s[i]
      /\ Append(s, h)[Len(s) + 1] = h
      /\ Len(s) \in Nat
  OBVIOUS
<1>2. ASSUME NEW g
      PROVE  InSeq(g, Append(s, h)) <=> InSeq(g, s) \/ g = h
  BY <1>1 DEF InSeq
<1>3. ASSUME NoRepeat(s), ~InSeq(h, s)
      PROVE  NoRepeat(Append(s, h))
  BY <1>1, <1>3 DEF NoRepeat, InSeq
<1>4. QED BY <1>1, <1>2, <1>3

(* What popping its last handle leaves *)
LEMMA PopProperties ==
  ASSUME NEW S, NEW s \in Seq(S), s # <<>>
  PROVE  /\ SubSeq(s, 1, Len(s) - 1) \in Seq(S)
         /\ s[Len(s)] \in S
         /\ InSeq(s[Len(s)], s)
         /\ \A g : g # s[Len(s)] =>
                   (InSeq(g, SubSeq(s, 1, Len(s) - 1)) <=> InSeq(g, s))
         /\ NoRepeat(s) => /\ NoRepeat(SubSeq(s, 1, Len(s) - 1))
                           /\ ~InSeq(s[Len(s)], SubSeq(s, 1, Len(s) - 1))
<1> DEFINE t == SubSeq(s, 1, Len(s) - 1)
<1>1. /\ Len(s) \in Nat \ {0}
      /\ t \in Seq(S)
      /\ Len(t) = Len(s) - 1
      /\ \A i \in 1 .. Len(t) : t[i] = s[i]
      /\ s[Len(s)] \in S
  <2>1. Len(s) \in Nat \ {0} /\ s \in [1 .. Len(s) -> S]
    BY EmptySeq, LenProperties
  <2>2. \A i \in 1 .. Len(s) : s[i] \in S
    BY <2>1
  <2>3. \A i \in 1 .. Len(s) - 1 : s[i] \in S
    BY <2>1, <2>2
  <2>4. /\ t \in Seq(S)
        /\ Len(t) = IF 1 <= Len(s) - 1 THEN Len(s) - 1 ELSE 0
        /\ \A i \in 1 .. Len(s) - 1 : t[i] = s[i]
    BY <2>1, <2>3, SubSeqProperties
  <2>5. QED BY <2>1, <2>2, <2>4
<1> HIDE DEF t
<1>2. InSeq(s[Len(s)], s)
  BY <1>1 DEF InSeq
<1>3. ASSUME NEW g, g # s[Len(s)]
      PROVE  InSeq(g, t) <=> InSeq(g, s)
  BY <1>1, <1>3 DEF InSeq
<1>4. ASSUME NoRepeat(s)
      PROVE  NoRepeat(t) /\ ~InSeq(s[Len(s)], t)
  BY <1>1, <1>4 DEF NoRepeat, InSeq
<1>5. QED BY <1>1, <1>2, <1>3, <1>4 DEF t

LEMMA EmptyList ==
  /\ <<>> \in Seq(Handles)
  /\ NoRepeat(<<>>)
  /\ \A h : ~InSeq(h, <<>>)
BY DEF NoRepeat, InSeq

LEMMA InitInv == Init => Inv
<1> SUFFICES ASSUME Init PROVE Inv
  OBVIOUS
<1>1. TypeOK
  <2>1. closing \in Seq(Handles) /\ now \in Seq(Handles)
    BY EmptyList, Zenon DEF Init
  <2>2. writes \in 0 .. MaxWrites /\ stops \in 0 .. MaxStops
    BY BoundsAssumption DEF Init
  <2>3. QED BY <2>1, <2>2 DEF Init, TypeOK
<1>2. ClosedOnce
  BY EmptyList, Zenon DEF Init, ClosedOnce
<1>3. OneAtATime /\ ConnectedHasHandle /\ OwnBytesOnly /\ ArmedNotClosed
  BY DEF Init, OneAtATime, ConnectedHasHandle, OwnBytesOnly, ArmedNotClosed
<1>4. NowWhileClosing
  BY DEF Init, NowWhileClosing
<1>5. QED BY <1>1, <1>2, <1>3, <1>4 DEF Inv

(* Steps that touch neither the handles nor what is alive *)
LEMMA QuietSteps ==
  ASSUME Inv,
         \/ SetReconn \/ Send \/ SendToNoHandle \/ Free \/ OnRead \/ OnWrite
         \/ OnResolveFailed \/ UNCHANGED vars
  PROVE  Inv'
<1> USE DEF Inv, TypeOK, OneAtATime, ConnectedHasHandle, OwnBytesOnly,
            ClosedOnce, ArmedNotClosed, NowWhileClosing, loopVars, linkVars, userVars
<1>1. CASE SetReconn BY <1>1 DEF SetReconn
<1>2. CASE Send BY <1>2, BoundsAssumption DEF Send
<1>3. CASE Free BY <1>3 DEF Free
<1>4. CASE OnRead BY <1>4 DEF OnRead, Polls
<1>5. CASE OnWrite BY <1>5, BoundsAssumption DEF OnWrite, Polls
<1>6. CASE OnResolveFailed BY <1>6 DEF OnResolveFailed, Polls
<1>7. CASE UNCHANGED vars BY <1>7 DEF vars
<1>8. CASE SendToNoHandle BY <1>8 DEF SendToNoHandle
<1>9. QED BY <1>1, <1>2, <1>3, <1>4, <1>5, <1>6, <1>7, <1>8

(* The loop's own step: the closing list is handed over, never mixed. *)
LEMMA PhaseSteps == Inv /\ NextPhase => Inv'
<1> SUFFICES ASSUME Inv, NextPhase PROVE Inv'
  OBVIOUS
<1> USE EmptyList DEF Inv, TypeOK, OneAtATime, ConnectedHasHandle,
        OwnBytesOnly, ClosedOnce, ArmedNotClosed, NowWhileClosing, linkVars, userVars
<1>1. CASE phase = "timers" BY <1>1 DEF NextPhase
<1>2. CASE phase = "closing" BY <1>2 DEF NextPhase
<1>3. CASE phase = "poll" BY <1>3 DEF NextPhase
<1>4. QED BY <1>1, <1>2, <1>3

(* The steps that begin something *)
LEMMA BeginSteps ==
  ASSUME Inv, Start \/ OnResolved \/ OnConnect
  PROVE  Inv'
<1> USE DEF Inv, TypeOK, OneAtATime, ConnectedHasHandle, OwnBytesOnly,
            ClosedOnce, ArmedNotClosed, NowWhileClosing, userVars
<1>1. CASE Start BY <1>1 DEF Start
<1>2. CASE OnResolved
  <2>1. buf' \subseteq {"this", "earlier"}
    BY <1>2 DEF OnResolved
  <2>2. writes' \in 0 .. MaxWrites
    BY <1>2, BoundsAssumption DEF OnResolved
  <2>3. QED BY <1>2, <2>1, <2>2 DEF OnResolved, Polls
<1>3. CASE OnConnect BY <1>3 DEF OnConnect, Polls, ClearBuffer
<1>4. QED BY <1>1, <1>2, <1>3

(* Steps that call uv_close: the handle is in no closing list before. *)
LEMMA UvCloseSteps ==
  ASSUME Inv, Stop \/ OnConnectFailed \/ OnEof \/ OnReconn
  PROVE  Inv'
<1> USE HandlesAssumption
        DEF Inv, TypeOK, OneAtATime, ConnectedHasHandle, OwnBytesOnly,
            ClosedOnce, ArmedNotClosed, NowWhileClosing, userVars, loopVars,
            linkVars, Handles
<1>1. ASSUME NEW h \in Handles, closing' = Append(closing, h)
      PROVE  /\ closing' \in Seq(Handles)
             /\ \A g : InSeq(g, closing') <=> InSeq(g, closing) \/ g = h
             /\ NoRepeat(closing) /\ ~InSeq(h, closing) => NoRepeat(closing')
  BY <1>1, PushProperties
<1>2. CASE Stop /\ tcp \in {"connecting", "open"}
  BY <1>1, <1>2, BoundsAssumption DEF Stop, UvClose
<1>3. CASE Stop /\ tcp \notin {"connecting", "open"}
  BY <1>3, BoundsAssumption DEF Stop
<1>4. CASE OnConnectFailed BY <1>1, <1>4 DEF OnConnectFailed, Polls, UvClose
<1>5. CASE OnEof BY <1>1, <1>5 DEF OnEof, Polls, UvClose
<1>6. CASE OnReconn
  <2>1. PICK h \in Timers : h = reconn
    BY <1>6 DEF OnReconn
  <2>2. closing' = Append(closing, h)
    BY <1>6, <2>1 DEF OnReconn, UvClose
  <2>3. /\ closing' \in Seq(Handles) /\ NoRepeat(closing')
        /\ \A g : InSeq(g, closing') <=> InSeq(g, closing) \/ g = h
    BY <1>1, <1>6, <2>1, <2>2 DEF OnReconn
  <2>4. armed /\ ~resolver /\ tcp = "null" /\ user = "running"
    BY <1>6 DEF OnReconn
  <2>5. ClosedOnce'
    BY <1>6, <2>1, <2>3, <2>4 DEF OnReconn
  <2>6. QED BY <1>6, <2>3, <2>4, <2>5 DEF OnReconn
<1>7. QED BY <1>2, <1>3, <1>4, <1>5, <1>6

(* Close callbacks: the handle leaves the list for good. *)
LEMMA CloseSteps ==
  ASSUME Inv, OnClose \/ OnCloseReconnTimer
  PROVE  Inv'
<1> USE HandlesAssumption
        DEF Inv, TypeOK, OneAtATime, ConnectedHasHandle, OwnBytesOnly,
            ClosedOnce, ArmedNotClosed, NowWhileClosing, userVars, Handles
<1>1. ASSUME NEW h, Closes(h)
      PROVE  /\ now' \in Seq(Handles)
             /\ InSeq(h, now) /\ ~InSeq(h, now')
             /\ \A g : g # h => (InSeq(g, now') <=> InSeq(g, now))
             /\ NoRepeat(now')
             /\ phase = "closing"
  <2>1. now \in Seq(Handles) /\ NoRepeat(now) /\ now # <<>>
    BY <1>1 DEF Closes
  <2>2. h = now[Len(now)] /\ now' = SubSeq(now, 1, Len(now) - 1)
    BY <1>1 DEF Closes
  <2> DEFINE last == now[Len(now)]
             rest == SubSeq(now, 1, Len(now) - 1)
  <2>3. /\ rest \in Seq(Handles)
        /\ InSeq(last, now) /\ ~InSeq(last, rest)
        /\ \A g : g # last => (InSeq(g, rest) <=> InSeq(g, now))
        /\ NoRepeat(rest)
    <3> HIDE DEF Handles
    <3> QED BY <2>1, PopProperties, Zenon
  <2> HIDE DEF last, rest
  <2>4. h = last /\ now' = rest
    BY <2>2 DEF last, rest
  <2>5. QED BY <1>1, <2>3, <2>4 DEF Closes
<1>c. ASSUME Closes(TCP)
      PROVE  tcp = "closing" /\ ~resolver /\ ~armed /\ user = "running"
  BY <1>1, <1>c
<1>2. CASE OnClose
  <2>2. /\ Closes(TCP) /\ tcp' = "null" /\ inClose' = TRUE /\ writes' = 0
        /\ UNCHANGED <<phase, closing, fresh, resolver, reconn, armed,
                       connected, buf, enableReconn, user, stops, process>>
    BY <1>2 DEF OnClose
  <2>3. TypeOK'
    <3> HIDE DEF ClosedOnce, ArmedNotClosed, Handles
    <3>1. writes' \in 0 .. MaxWrites
      BY <2>2, BoundsAssumption
    <3>2. now' \in Seq(Handles)
      BY <1>1, <2>2
    <3>3. QED BY <2>2, <3>1, <3>2
  <2>4. ClosedOnce' /\ NowWhileClosing'
    BY <1>1, <1>c, <2>2
  <2>5. OneAtATime' /\ ConnectedHasHandle' /\ OwnBytesOnly' /\ ArmedNotClosed'
    BY <1>c, <2>2
  <2>6. QED BY <2>3, <2>4, <2>5
<1>4. CASE OnCloseReconnTimer
  <2>1. PICK h \in Timers :
          /\ Closes(h)
          /\ process' = IF user = "freed" THEN "freed"
                        ELSE IF h # reconn THEN "assert" ELSE "runs"
          /\ reconn' = IF process' = "runs" THEN NULL ELSE reconn
    BY <1>4 DEF OnCloseReconnTimer
  <2>2. h = reconn => ~armed
    BY <1>1, <2>1
  <2>3. QED
    BY <1>1, <1>4, <2>1, <2>2 DEF OnCloseReconnTimer
<1>5. QED BY <1>2, <1>4

(* The end of on_close: a timer is started that is in no closing list, or  *)
(* nothing is left.                                                        *)
LEMMA ReturnSteps ==
  ASSUME Inv, OnCloseReturned
  PROVE  Inv'
<1>1. /\ inClose' = FALSE /\ connected' = FALSE
      /\ UNCHANGED <<phase, closing, now, fresh, resolver, tcp, buf, writes,
                     enableReconn, stops, process>>
  BY DEF OnCloseReturned, Disconnected, loopVars
<1>2. /\ process = "runs" /\ phase = "closing" /\ user = "running"
      /\ tcp = "null" /\ ~resolver /\ ~armed
  BY DEF OnCloseReturned, Running, Inv, OneAtATime, NowWhileClosing, TypeOK
<1>3. CASE enableReconn
  <2>1. reconn' \in FreeTimers /\ armed' = TRUE /\ user' = user
    BY <1>3 DEF OnCloseReturned, ReconnectOrReport
  <2>2. \A t \in FreeTimers : t \in Timers /\ ~InSeq(t, now) /\ ~InSeq(t, closing)
    BY DEF FreeTimers, InSeq
  <2>3. TypeOK'
    BY <1>1, <2>1, <2>2 DEF Inv, TypeOK
  <2>4. ClosedOnce' /\ NowWhileClosing'
    BY <1>1, <1>2 DEF Inv, ClosedOnce, NowWhileClosing
  <2>5. ArmedNotClosed'
    BY <1>1, <2>1, <2>2 DEF ArmedNotClosed
  <2>6. OneAtATime' /\ ConnectedHasHandle' /\ OwnBytesOnly'
    BY <1>1, <1>2, <2>1 DEF Inv, OneAtATime, ConnectedHasHandle, OwnBytesOnly
  <2>7. QED BY <2>3, <2>4, <2>5, <2>6 DEF Inv
<1>4. CASE ~enableReconn
  <2>1. user' = "idle" /\ UNCHANGED <<reconn, armed>>
    BY <1>4 DEF OnCloseReturned, ReconnectOrReport
  <2>2. TypeOK'
    BY <1>1, <2>1 DEF Inv, TypeOK
  <2>3. ClosedOnce' /\ NowWhileClosing' /\ ArmedNotClosed'
    BY <1>1, <1>2, <2>1 DEF Inv, ClosedOnce, NowWhileClosing, ArmedNotClosed
  <2>4. OneAtATime' /\ ConnectedHasHandle' /\ OwnBytesOnly'
    BY <1>1, <1>2, <2>1 DEF Inv, OneAtATime, ConnectedHasHandle, OwnBytesOnly
  <2>5. QED BY <2>2, <2>3, <2>4 DEF Inv
<1>5. QED BY <1>3, <1>4

LEMMA NextInv == Inv /\ [Next]_vars => Inv'
BY QuietSteps, PhaseSteps, BeginSteps, UvCloseSteps, CloseSteps, ReturnSteps
   DEF Next

(* Inv holds in every reachable state (client_init and every callback and  *)
(* function of uv_tcpclient.c).                                            *)
THEOREM Invariance == Spec => []Inv
BY InitInv, NextInv, PTL DEF Spec

(* The variables of the client keep their types: only timers and the       *)
(* client's handle reach uv_close (all of uv_tcpclient.c).                 *)
THEOREM TypeCorrect == Spec => []TypeOK
<1>1. Inv => TypeOK BY DEF Inv
<1>2. QED BY <1>1, Invariance, PTL

(* Look-up, handle, the application's on_connect(cli, 0) and reconnect     *)
(* timer exclude each other, and none is left once on_close has been       *)
(* called (uv_tcpclient_start, on_resolved, on_close, on_reconn).          *)
THEOREM NeverTwoAtATime == Spec => []OneAtATime
<1>1. Inv => OneAtATime BY DEF Inv
<1>2. QED BY <1>1, Invariance, PTL

(* uv_tcpclient_send finds connected set without a handle that is or was   *)
(* connected nowhere but in the on_connect(cli, 0) of on_close, where it   *)
(* does (uv_tcpclient_send, on_close).                                     *)
THEOREM SendHasHandle == Spec => []ConnectedHasHandle
<1>1. Inv => ConnectedHasHandle BY DEF Inv
<1>2. QED BY <1>1, Invariance, PTL

(* Bytes of an earlier connection never reach on_parse (on_connect).       *)
THEOREM OwnBytes == Spec => []OwnBytesOnly
<1>1. Inv => OwnBytesOnly BY DEF Inv
<1>2. QED BY <1>1, Invariance, PTL

(* No handle is closed twice, whatever order stop, failure, end of stream  *)
(* and the timer come in (uv_tcpclient_stop, on_connect, on_read,          *)
(* on_reconn).                                                             *)
THEOREM NeverClosedTwice == Spec => []ClosedOnce
<1>1. Inv => ClosedOnce BY DEF Inv
<1>2. QED BY <1>1, Invariance, PTL

-----------------------------------------------------------------------------
(* Without uv_tcpclient_stop no other handle is closed in the round of the *)
(* loop in which the reconnect timer is.                                   *)

Pending(h) == InSeq(h, now) \/ InSeq(h, closing)

(* A timer whose close callback is due is still the client's, and the next *)
(* connection is not made, nor given up, before the callback has run.      *)
TimerAlone ==
  stops = 0 =>
    \A h \in Timers : Pending(h) =>
      /\ h = reconn
      /\ user = "running"
      /\ ~inClose
      /\ tcp \in {"null", "connecting"}
      /\ phase = "timers" => tcp = "null"
      /\ phase = "poll" => tcp = "null" \/ fresh
      /\ phase = "closing" => ~InSeq(h, closing)

LEMMA InitAlone == Init => TimerAlone /\ TimerOutlivedOnlyAfterStop
BY EmptyList DEF Init, TimerAlone, Pending, TimerOutlivedOnlyAfterStop

(* What a close callback finds, and what it leaves *)
LEMMA ClosesPending ==
  ASSUME Inv, NEW h, Closes(h)
  PROVE  /\ InSeq(h, now) /\ ~InSeq(h, now')
         /\ \A g : InSeq(g, now') => InSeq(g, now)
         /\ phase = "closing"
<1>1. now \in Seq(Handles) /\ NoRepeat(now) /\ now # <<>>
  BY DEF Closes, Inv, TypeOK, ClosedOnce
<1>2. h = now[Len(now)] /\ now' = SubSeq(now, 1, Len(now) - 1)
  BY DEF Closes
<1>3. QED
  BY <1>1, <1>2, PopProperties DEF Closes

LEMMA NextAlone ==
  Inv /\ TimerAlone /\ TimerOutlivedOnlyAfterStop /\ [Next]_vars =>
    TimerAlone' /\ TimerOutlivedOnlyAfterStop'
<1> SUFFICES ASSUME Inv, TimerAlone, TimerOutlivedOnlyAfterStop, [Next]_vars
             PROVE  TimerAlone' /\ TimerOutlivedOnlyAfterStop'
  OBVIOUS
<1>0. stops \in Nat
  BY BoundsAssumption DEF Inv, TypeOK
<1> USE DEF TimerAlone, Pending, TimerOutlivedOnlyAfterStop, loopVars,
            linkVars, userVars, Running
<1>1. CASE NextPhase
  <2>1. CASE phase = "timers" BY <1>1, <2>1 DEF NextPhase
  <2>2. CASE phase = "poll" BY <1>1, <2>2, EmptyList DEF NextPhase
  <2>3. CASE phase = "closing" BY <1>1, <2>3, EmptyList DEF NextPhase
  <2>4. QED BY <2>1, <2>2, <2>3 DEF Inv, TypeOK
<1>2. CASE Stop
  BY <1>0, <1>2 DEF Stop
<1>3. CASE Start
  BY <1>3 DEF Start
<1>4. CASE SetReconn \/ Send \/ SendToNoHandle \/ Free
  BY <1>4 DEF SetReconn, Send, SendToNoHandle, Free
<1>5. CASE OnRead \/ OnWrite
  BY <1>5 DEF OnRead, OnWrite, Polls
<1>6. CASE OnReconn
  <2>1. PICK h \in Timers : h = reconn
    BY <1>6 DEF OnReconn, Inv, ArmedNotClosed
  <2>2. \A g : InSeq(g, closing') <=> InSeq(g, closing) \/ g = h
    <3>1. closing \in Seq(Handles) /\ h \in Handles
      BY <2>1 DEF Inv, TypeOK, Handles
    <3>2. closing' = Append(closing, h)
      BY <1>6, <2>1 DEF OnReconn, UvClose
    <3>3. QED BY <3>1, <3>2, PushProperties
  <2>3. /\ armed /\ tcp = "null" /\ user = "running" /\ phase = "timers"
        /\ ~inClose
    BY <1>6 DEF OnReconn, Inv, OneAtATime
  <2>4. ~Pending(h)
    BY <2>1, <2>3 DEF Inv, ArmedNotClosed
  <2>5. QED BY <1>6, <2>1, <2>2, <2>3, <2>4 DEF OnReconn
<1>7. CASE OnResolved
  BY <1>7 DEF OnResolved, Polls
<1>8. CASE OnResolveFailed
  BY <1>8 DEF OnResolveFailed, Polls
<1>9. CASE OnConnect \/ OnConnectFailed \/ OnEof
  <2>1. stops = 0 => \A h \in Timers : ~Pending(h)
    BY <1>9 DEF OnConnect, OnConnectFailed, OnEof, Polls
  <2>2. CASE OnConnect
    BY <2>1, <2>2 DEF OnConnect, Polls
  <2>3. CASE OnConnectFailed \/ OnEof
    <3>1. \A h \in Timers : InSeq(h, closing') => InSeq(h, closing)
      <4>1. closing \in Seq(Handles) /\ TCP \in Handles
        BY DEF Inv, TypeOK, Handles
      <4>2. closing' = Append(closing, TCP)
        BY <2>3 DEF OnConnectFailed, OnEof, UvClose
      <4>3. QED BY <4>1, <4>2, PushProperties, HandlesAssumption
    <3>2. QED BY <2>1, <2>3, <3>1 DEF OnConnectFailed, OnEof, Polls
  <2>4. QED BY <1>9, <2>2, <2>3
<1>10. CASE OnClose
  <2>1. Closes(TCP) /\ UNCHANGED <<closing, stops, process>>
    BY <1>10 DEF OnClose
  <2>2. tcp = "closing"
    BY <2>1, ClosesPending DEF Inv, ClosedOnce
  <2>3. stops = 0 => \A h \in Timers : ~Pending(h)
    BY <2>2
  <2>4. \A h \in Timers : InSeq(h, now') => InSeq(h, now)
    BY <2>1, ClosesPending
  <2>5. QED BY <2>1, <2>3, <2>4
<1>11. CASE OnCloseReconnTimer
  <2>1. PICK h \in Timers :
          /\ Closes(h)
          /\ process' = IF user = "freed" THEN "freed"
                        ELSE IF h # reconn THEN "assert" ELSE "runs"
    BY <1>11 DEF OnCloseReconnTimer
  <2>2. /\ InSeq(h, now) /\ ~InSeq(h, now') /\ phase = "closing"
        /\ \A g : InSeq(g, now') => InSeq(g, now)
    BY <2>1, ClosesPending
  <2>3. UNCHANGED <<phase, closing, fresh, tcp, stops, user>>
    BY <1>11 DEF OnCloseReconnTimer
  <2>4. stops = 0 => h = reconn /\ user = "running"
    BY <2>2
  <2>5. stops = 0 => \A g \in Timers : ~Pending(g)'
    BY <2>2, <2>3, <2>4
  <2>6. TimerAlone'
    BY <2>3, <2>5
  <2>7. TimerOutlivedOnlyAfterStop'
    BY <1>0, <2>1, <2>3, <2>4
  <2>8. QED BY <2>6, <2>7
<1>12. CASE OnCloseReturned
  <2>1. /\ inClose /\ inClose' = FALSE
        /\ UNCHANGED <<phase, closing, now, fresh, tcp, stops, process>>
    BY <1>12 DEF OnCloseReturned
  <2>2. stops = 0 => \A h \in Timers : ~Pending(h)
    BY <2>1
  <2>3. QED BY <2>1, <2>2
<1>13. CASE UNCHANGED vars
  BY <1>13 DEF vars
<1>14. QED
  BY <1>1, <1>2, <1>3, <1>4, <1>5, <1>6, <1>7, <1>8, <1>9, <1>10, <1>11,
     <1>12, <1>13 DEF Next

(* The assertion of on_close_reconn_timer holds, and timer->data is the    *)
(* client's, in every run in which the application never calls             *)
(* uv_tcpclient_stop (on_reconn, on_close, on_close_reconn_timer).         *)
THEOREM TimerOutlives == Spec => []TimerOutlivedOnlyAfterStop
BY InitAlone, NextAlone, Invariance, PTL DEF Spec

-----------------------------------------------------------------------------
(* The refinement: each step is one of AutoLink, or leaves the link alone. *)

LEMMA LinkStep == Inv /\ [Next]_vars => [Promise!LinkNext]_(Promise!linkAuto)
<1> SUFFICES ASSUME Inv, [Next]_vars
             PROVE  [Promise!LinkNext]_(Promise!linkAuto)
  OBVIOUS
<1> USE DEF Promise!LinkNext, Promise!linkAuto, link, Running, loopVars,
            linkVars, userVars
<1>1. CASE Start
  <2>1. link = "off" /\ link' = "down" /\ UNCHANGED enableReconn
    BY <1>1 DEF Start, Inv, TypeOK, OneAtATime, ConnectedHasHandle
  <2>2. QED BY <2>1 DEF Promise!TurnOn
<1>2. CASE SetReconn BY <1>2 DEF SetReconn, Promise!SetAuto
<1>3. CASE OnConnect
  <2>1. link = "down" /\ link' = "up" /\ UNCHANGED enableReconn
    BY <1>3 DEF OnConnect, Polls, Inv, OneAtATime, ConnectedHasHandle
  <2>2. QED BY <2>1 DEF Promise!GoUp
<1>4. CASE OnCloseReturned
  <2>1. link \in {"down", "up"} /\ UNCHANGED enableReconn
    BY <1>4 DEF OnCloseReturned, Inv, OneAtATime
  <2>2. CASE enableReconn
    <3>1. link' = "down"
      BY <1>4, <2>1, <2>2 DEF OnCloseReturned, Disconnected, ReconnectOrReport
    <3>2. QED BY <2>1, <2>2, <3>1 DEF Promise!GoDown
  <2>3. CASE ~enableReconn
    <3>1. link' = "off"
      BY <1>4, <2>3 DEF OnCloseReturned, ReconnectOrReport
    <3>2. QED BY <2>1, <2>3, <3>1 DEF Promise!TurnOff
  <2>4. QED BY <2>2, <2>3
<1>5. CASE OnCloseReconnTimer
  <2>1. UNCHANGED <<enableReconn, user, connected>> /\ process = "runs"
    BY <1>5 DEF OnCloseReconnTimer, Closes
  <2>2. QED BY <2>1 DEF Promise!Die
<1>6. CASE OnResolveFailed BY <1>6 DEF OnResolveFailed, Polls, Promise!Die
<1>7. CASE Free BY <1>7 DEF Free
<1>8. CASE NextPhase BY <1>8 DEF NextPhase
<1>9. CASE Stop BY <1>9 DEF Stop
<1>10. CASE Send BY <1>10 DEF Send
<1>11. CASE OnReconn BY <1>11 DEF OnReconn
<1>12. CASE OnResolved BY <1>12 DEF OnResolved, Polls
<1>13. CASE OnConnectFailed BY <1>13 DEF OnConnectFailed, Polls
<1>14. CASE OnRead BY <1>14 DEF OnRead, Polls
<1>15. CASE OnEof BY <1>15 DEF OnEof, Polls
<1>16. CASE OnWrite BY <1>16 DEF OnWrite, Polls
<1>17. CASE UNCHANGED vars BY <1>17 DEF vars
<1>18. CASE OnClose BY <1>18 DEF OnClose
<1>19. CASE SendToNoHandle
  BY <1>19 DEF SendToNoHandle, Promise!Die
<1>20. QED
  BY <1>1, <1>2, <1>3, <1>4, <1>5, <1>6, <1>7, <1>8, <1>9, <1>10, <1>11,
     <1>12, <1>13, <1>14, <1>15, <1>16, <1>17, <1>18, <1>19 DEF Next

(* The client implements AutoLink: the application hears of its connection *)
(* in the order AutoLink gives (all callbacks of uv_tcpclient.c).          *)
THEOREM RefinesAutoLink == Spec => ImplementsAutoLink
<1>1. Init => Promise!LinkInit
  BY DEF Init, Promise!LinkInit, link, Running
<1>2. QED
  BY <1>1, LinkStep, Invariance, PTL DEF Spec, ImplementsAutoLink, Promise!Spec

=============================================================================
