--------------------------- MODULE ServerDemo_proofs ---------------------------
(***************************************************************************)
(* Proofs about the two parts of server_demo that the worker runs besides  *)
(* reading.                                                                *)
(*                                                                         *)
(* ServerDemoCommands, for any hosts, passwords and number of commands: no *)
(* command is lost or sent twice because the mutex is held by the console  *)
(* while it queues and by the worker from its first send() to its clear()  *)
(* (Locked), so that the queue it clears is the queue it has sent          *)
(* (EachCommandOnce, Position).                                            *)
(*                                                                         *)
(* SwitchAlarms, for any zones, times and resolution of the clock: the     *)
(* times of the code are whole seconds and those of the properties ticks,  *)
(* and Apart and Near carry one over to the other.  The cache is bounded   *)
(* as of the last switch_check_timeout (NoneOverdue), which is at most     *)
(* LoopTime ticks ago (CheckedLately).                                     *)
(***************************************************************************)
EXTENDS ServerDemoCommands, SwitchAlarms, TLAPS

(* Who holds the mutex *)
Locked ==
  /\ mutex = "worker" <=> worker \in {"send", "clear"}
  /\ mutex = "console" <=> console = "push"

(* How far the worker's loop over the queue is *)
Position ==
  /\ worker \notin {"send", "clear"} => next = 0
  /\ worker = "clear" => next = Len(evnts)
  /\ next <= Len(sent)

(* The console has a command in hand, the worker a client. *)
InHand ==
  /\ console \in {"wait", "push"} => cmd \in Event
  /\ console = "scan" => cmd = "DISARM"
  /\ worker \in {"lock", "send"} => clientSock # None

(* clientAcct is that of the client once it has reported. *)
AcctIsCurrent == clientSock # None /\ reported => clientAcct = clientSock

(* The inductive invariant *)
IInv ==
  /\ TypeOK
  /\ Locked
  /\ Position
  /\ InHand
  /\ AcctIsCurrent
  /\ EachCommandOnce
  /\ AddressedAfterReport

-----------------------------------------------------------------------------
LEMMA AppendAt ==
  ASSUME NEW S, NEW s \in Seq(S), NEW x \in S
  PROVE  /\ Append(s, x) \in Seq(S)
         /\ Len(Append(s, x)) = Len(s) + 1
         /\ Len(s) \in Nat
         /\ \A i \in 1 .. Len(s) : Append(s, x)[i] = s[i]
         /\ Append(s, x)[Len(s) + 1] = x
OBVIOUS

LEMMA EmptyAt ==
  \A S : <<>> \in Seq(S) /\ Len(<<>>) = 0
OBVIOUS

LEMMA InitIInv == Init => IInv
<1> SUFFICES ASSUME Init PROVE IInv
  OBVIOUS
<1>1. TypeOK
  <2>1. evnts \in Seq(Event) /\ typed \in Seq(Command) /\ sent \in Seq(Packet)
        /\ Len(evnts) = 0
    BY EmptyAt, Zenon DEF Init
  <2>2. next \in 0 .. Len(evnts)
    BY <2>1 DEF Init
  <2>3. mutex \in {None, "console", "worker"} /\ cmd \in Event \cup {None}
        /\ clientSock \in Machine \cup {None} /\ clientAcct \in Machine \cup {None}
        /\ pwd \in Password \cup {Partial}
    BY DEF Init
  <2> QED BY <2>1, <2>2, <2>3 DEF Init, TypeOK
<1>2. Locked /\ InHand /\ AcctIsCurrent
  BY CommandAssumption DEF Init, Locked, InHand, AcctIsCurrent
<1>p. Position
  <2>1. next = 0 /\ Len(sent) = 0 /\ worker = "top"
    BY EmptyAt DEF Init
  <2> QED BY <2>1 DEF Position
<1>3. EachCommandOnce /\ AddressedAfterReport
  <2>1. next = 0 /\ Len(sent) = 0 /\ Len(typed) = 0 /\ Len(evnts) = 0
    BY EmptyAt DEF Init
  <2> QED BY <2>1 DEF EachCommandOnce, AddressedAfterReport
<1> QED BY <1>1, <1>2, <1>p, <1>3 DEF IInv

(* Steps that leave the queue, what was sent and the client alone *)
LEMMA QuietStep ==
  ASSUME IInv,
         \/ TypeCommand \/ ScanPassword \/ ConsoleLock \/ Quit \/ Join
         \/ WhileRunning \/ CheckQueue \/ WorkerLock \/ EndSend
         \/ UNCHANGED demoVars
  PROVE  IInv'
<1> USE DEF consoleVars, workerVars
<1>0. TypeOK /\ Locked /\ Position /\ InHand /\ AcctIsCurrent /\ EachCommandOnce
      /\ AddressedAfterReport
  BY DEF IInv
<1>1. UNCHANGED <<evnts, next, clientSock, clientAcct, reported, typed, sent>>
  BY DEF TypeCommand, ScanPassword, ConsoleLock, Quit, Join, WhileRunning,
     CheckQueue, WorkerLock, EndSend, demoVars
<1>2. /\ running' \in BOOLEAN
      /\ mutex' \in {None, "console", "worker"}
      /\ pwd' \in Password \cup {Partial}
      /\ console' \in {"getc", "scan", "wait", "push", "join", "done"}
      /\ cmd' \in Event \cup {None}
      /\ worker' \in {"top", "accept", "read", "check", "lock", "send", "clear", "done"}
  BY <1>0 DEF TypeOK, TypeCommand, ScanPassword, ConsoleLock, Quit, Join, WhileRunning,
     CheckQueue, WorkerLock, EndSend, Lock, demoVars
<1>3. TypeOK'
  BY <1>0, <1>1, <1>2 DEF TypeOK
<1>4. Locked'
  BY <1>0, CommandAssumption DEF Locked, TypeOK, TypeCommand, ScanPassword, ConsoleLock, Quit, Join,
     WhileRunning, CheckQueue, WorkerLock, EndSend, Lock, demoVars
<1>5. Position'
  BY <1>0, <1>1 DEF Position, TypeCommand, ScanPassword, ConsoleLock, Quit, Join,
     WhileRunning, CheckQueue, WorkerLock, EndSend, demoVars
<1>6. InHand'
  <2>1. CASE TypeCommand \/ ScanPassword \/ ConsoleLock \/ Quit \/ Join
    BY <1>0, <1>1, <2>1 DEF InHand, Event, TypeCommand, ScanPassword, ConsoleLock, Quit, Join
  <2>2. CASE WhileRunning \/ CheckQueue \/ WorkerLock \/ EndSend
    BY <1>0, <1>1, <2>2 DEF InHand, WhileRunning, CheckQueue, HasClient, WorkerLock,
       EndSend
  <2>3. CASE UNCHANGED demoVars
    BY <1>0, <2>3 DEF InHand, demoVars
  <2> QED BY <2>1, <2>2, <2>3
<1>7. AcctIsCurrent' /\ EachCommandOnce' /\ AddressedAfterReport'
  BY <1>0, <1>1 DEF AcctIsCurrent, EachCommandOnce, AddressedAfterReport
<1> QED BY <1>3, <1>4, <1>5, <1>6, <1>7 DEF IInv

(* The worker accepts, hears or loses a client. *)
LEMMA ClientStep ==
  ASSUME IInv, DoAccept \/ DoRead
  PROVE  IInv'
<1> USE DEF consoleVars
<1>0. TypeOK /\ Locked /\ Position /\ InHand /\ AcctIsCurrent /\ EachCommandOnce
      /\ AddressedAfterReport
  BY DEF IInv
<1>1. /\ UNCHANGED <<running, mutex, evnts, pwd, console, cmd, next, typed, sent>>
      /\ worker \notin {"send", "clear"}
      /\ worker' \in {"read", "check"}
  BY DEF DoAccept, DoRead
<1>2. /\ clientSock' \in Machine \cup {None}
      /\ clientAcct' \in Machine \cup {None}
      /\ reported' \in BOOLEAN
  BY <1>0 DEF TypeOK, DoAccept, DoRead, ReportedAcct
<1>3. TypeOK'
  BY <1>0, <1>1, <1>2 DEF TypeOK
<1>4. Locked' /\ Position' /\ InHand'
  BY <1>0, <1>1 DEF Locked, Position, InHand
<1>5. AcctIsCurrent'
  BY <1>0 DEF AcctIsCurrent, DoAccept, DoRead, ReportedAcct
<1>6. EachCommandOnce' /\ AddressedAfterReport'
  BY <1>0, <1>1 DEF EachCommandOnce, AddressedAfterReport
<1> QED BY <1>3, <1>4, <1>5, <1>6 DEF IInv

LEMMA PushStep ==
  ASSUME IInv, ConsolePush
  PROVE  IInv'
<1> DEFINE c == [event |-> cmd, pwd |-> IF cmd = "DISARM" THEN pwd ELSE None]
<1>0. TypeOK /\ Locked /\ Position /\ InHand /\ AcctIsCurrent /\ EachCommandOnce
      /\ AddressedAfterReport
  BY DEF IInv
<1>1. /\ console = "push"
      /\ evnts' = Append(evnts, cmd)
      /\ typed' = Append(typed, c)
      /\ mutex' = None /\ console' = "getc" /\ cmd' = None
      /\ UNCHANGED <<running, pwd, worker, next, clientSock, clientAcct, reported, sent>>
  BY DEF ConsolePush, workerVars
<1>2. worker \notin {"send", "clear"} /\ next = 0
  BY <1>0, <1>1 DEF Locked, Position
<1>3. cmd \in Event /\ pwd \in Password \cup {Partial} /\ c \in Command /\ c.event = cmd
  BY <1>0, <1>1 DEF InHand, TypeOK, Command
<1> HIDE DEF c
<1>4. evnts \in Seq(Event) /\ typed \in Seq(Command) /\ Len(sent) \in Nat
  BY <1>0 DEF TypeOK
<1>5. /\ evnts' \in Seq(Event)
      /\ Len(evnts') = Len(evnts) + 1 /\ Len(evnts) \in Nat
      /\ \A i \in 1 .. Len(evnts) : evnts'[i] = evnts[i]
      /\ evnts'[Len(evnts) + 1] = cmd
  BY <1>1, <1>3, <1>4, AppendAt
<1>6. /\ typed' \in Seq(Command)
      /\ Len(typed') = Len(typed) + 1 /\ Len(typed) \in Nat
      /\ \A i \in 1 .. Len(typed) : typed'[i] = typed[i]
      /\ typed'[Len(typed) + 1] = c
  BY <1>1, <1>3, <1>4, AppendAt
<1>7. TypeOK'
  BY <1>0, <1>1, <1>2, <1>5, <1>6 DEF TypeOK
<1>8. Locked' /\ Position' /\ InHand' /\ AcctIsCurrent'
  BY <1>0, <1>1, <1>2, CommandAssumption DEF Locked, Position, InHand, AcctIsCurrent
<1>9. EachCommandOnce'
  <2>1. /\ Len(typed) = Len(sent) + Len(evnts)
        /\ \A i \in 1 .. Len(typed) :
             typed[i].event = IF i <= Len(sent) THEN sent[i].event
                              ELSE evnts[i - Len(sent)]
    BY <1>0, <1>2, <1>4 DEF EachCommandOnce
  <2>2. ASSUME NEW i \in 1 .. Len(typed')
        PROVE  typed'[i].event = IF i <= Len(sent) THEN sent[i].event
                                 ELSE evnts'[i - Len(sent)]
    <3>1. CASE i \in 1 .. Len(typed)
      <4>1. ~ i <= Len(sent) => i - Len(sent) \in 1 .. Len(evnts)
        BY <1>4, <1>5, <2>1, <3>1
      <4> QED BY <1>5, <1>6, <2>1, <3>1, <4>1
    <3>2. CASE i = Len(typed) + 1
      <4>1. ~ i <= Len(sent) /\ i - Len(sent) = Len(evnts) + 1
        BY <1>4, <1>5, <2>1, <3>2
      <4> QED BY <1>3, <1>5, <1>6, <3>2, <4>1
    <3> QED BY <1>6, <3>1, <3>2
  <2>3. next' = 0 /\ sent' = sent /\ Len(sent) - 0 = Len(sent)
    BY <1>1, <1>2, <1>4
  <2>4. Len(typed') = Len(sent) + Len(evnts')
    BY <1>4, <1>5, <1>6, <2>1
  <2> QED BY <2>2, <2>3, <2>4 DEF EachCommandOnce
<1>10. AddressedAfterReport'
  BY <1>0, <1>1 DEF AddressedAfterReport
<1> QED BY <1>7, <1>8, <1>9, <1>10 DEF IInv

LEMMA SendStep ==
  ASSUME IInv, SendNext
  PROVE  IInv'
<1> USE DEF consoleVars
<1> DEFINE e == evnts[next + 1]
           p == [event |-> e, pwd |-> IF e = "DISARM" THEN pwd ELSE None,
                 acct |-> clientAcct, to |-> clientSock, reported |-> reported]
<1>0. TypeOK /\ Locked /\ Position /\ InHand /\ AcctIsCurrent /\ EachCommandOnce
      /\ AddressedAfterReport
  BY DEF IInv
<1>1. /\ worker = "send" /\ next < Len(evnts)
      /\ sent' = Append(sent, p) /\ next' = next + 1
      /\ UNCHANGED <<running, mutex, evnts, pwd, console, cmd, worker,
                     clientSock, clientAcct, reported, typed>>
  BY DEF SendNext
<1>2. /\ evnts \in Seq(Event) /\ next \in 0 .. Len(evnts) /\ Len(evnts) \in Nat
      /\ sent \in Seq(Packet) /\ typed \in Seq(Command) /\ Len(typed) \in Nat
  BY <1>0 DEF TypeOK
<1>3. e \in Event /\ clientSock \in Machine
  <2>1. next + 1 \in 1 .. Len(evnts)
    BY <1>1, <1>2
  <2> QED BY <1>0, <1>1, <1>2, <2>1 DEF InHand, TypeOK
<1>4. p \in Packet
  BY <1>0, <1>3 DEF TypeOK, Packet
<1>5. p.event = e /\ p.acct = clientAcct /\ p.to = clientSock /\ p.reported = reported
  OBVIOUS
<1> HIDE DEF p
<1>6. /\ sent' \in Seq(Packet)
      /\ Len(sent') = Len(sent) + 1 /\ Len(sent) \in Nat
      /\ \A i \in 1 .. Len(sent) : sent'[i] = sent[i]
      /\ sent'[Len(sent) + 1] = p
  BY <1>1, <1>2, <1>4, AppendAt
<1>7. next' \in 0 .. Len(evnts')
  BY <1>1, <1>2
<1>8. TypeOK'
  BY <1>0, <1>1, <1>6, <1>7 DEF TypeOK
<1>9. Locked' /\ InHand' /\ AcctIsCurrent'
  BY <1>0, <1>1 DEF Locked, InHand, AcctIsCurrent
<1>p. Position'
  <2>1. next + 1 <= Len(sent) + 1
    BY <1>0, <1>2, <1>6 DEF Position
  <2> QED BY <1>1, <1>6, <2>1 DEF Position
<1>10. EachCommandOnce'
  <2> DEFINE done == Len(sent) - next
  <2>1. /\ Len(typed) = done + Len(evnts)
        /\ \A i \in 1 .. Len(typed) :
             typed[i].event = IF i <= done THEN sent[i].event ELSE evnts[i - done]
        /\ \A i \in 1 .. next : sent[done + i].event = evnts[i]
    BY <1>0 DEF EachCommandOnce
  <2>2. /\ Len(sent') - next' = done /\ done \in Int /\ done + Len(evnts) \in Nat
        /\ done <= Len(sent)
    BY <1>1, <1>2, <1>6, <2>1
  <2>3. ASSUME NEW i \in 1 .. Len(typed)
        PROVE  typed[i].event = IF i <= done THEN sent'[i].event ELSE evnts[i - done]
    <3>1. i <= done => i \in 1 .. Len(sent)
      BY <2>2, <1>6
    <3> QED BY <1>6, <2>1, <3>1
  <2>4. ASSUME NEW i \in 1 .. next + 1
        PROVE  sent'[done + i].event = evnts[i]
    <3>1. CASE i = next + 1
      <4>1. done + i = Len(sent) + 1
        BY <1>2, <1>6, <3>1
      <4> QED BY <1>5, <1>6, <3>1, <4>1
    <3>2. CASE i \in 1 .. next
      <4>1. done + i \in 1 .. Len(sent)
        BY <1>0, <1>2, <1>6, <2>1, <3>2 DEF Position
      <4> QED BY <1>6, <2>1, <3>2, <4>1
    <3> QED BY <1>2, <3>1, <3>2
  <2> HIDE DEF done
  <2> QED BY <1>1, <2>1, <2>2, <2>3, <2>4 DEF EachCommandOnce
<1>11. AddressedAfterReport'
  <2>1. ASSUME NEW i \in 1 .. Len(sent'), sent'[i].reported
        PROVE  sent'[i].acct = sent'[i].to
    <3>1. CASE i \in 1 .. Len(sent)
      BY <1>0, <1>6, <2>1, <3>1 DEF AddressedAfterReport
    <3>2. CASE i = Len(sent) + 1
      <4>1. clientSock # None
        BY <1>0, <1>1 DEF InHand
      <4>2. reported
        BY <1>5, <1>6, <2>1, <3>2
      <4>3. clientAcct = clientSock
        BY <1>0, <4>1, <4>2 DEF AcctIsCurrent
      <4> QED BY <1>5, <1>6, <3>2, <4>3
    <3> QED BY <1>6, <3>1, <3>2
  <2> QED BY <2>1 DEF AddressedAfterReport
<1> QED BY <1>8, <1>9, <1>p, <1>10, <1>11 DEF IInv

LEMMA ClearStep ==
  ASSUME IInv, ClearQueue
  PROVE  IInv'
<1> USE DEF consoleVars
<1>0. TypeOK /\ Locked /\ Position /\ InHand /\ AcctIsCurrent /\ EachCommandOnce
      /\ AddressedAfterReport
  BY DEF IInv
<1>1. /\ worker = "clear" /\ worker' = "top"
      /\ evnts' = <<>> /\ next' = 0 /\ mutex' = None
      /\ UNCHANGED <<running, pwd, console, cmd, clientSock, clientAcct, reported,
                     typed, sent>>
  BY DEF ClearQueue, Restart
<1>2. /\ next = Len(evnts) /\ mutex = "worker" /\ console # "push"
      /\ Len(evnts) \in Nat /\ Len(sent) \in Nat /\ Len(typed) \in Nat
  BY <1>0, <1>1 DEF Position, Locked, TypeOK
<1>3. evnts' \in Seq(Event) /\ Len(evnts') = 0
  BY <1>1, EmptyAt
<1>4. TypeOK'
  BY <1>0, <1>1, <1>3 DEF TypeOK
<1>5. Locked' /\ Position' /\ InHand' /\ AcctIsCurrent' /\ AddressedAfterReport'
  BY <1>0, <1>1, <1>2, CommandAssumption DEF Locked, Position, InHand, AcctIsCurrent,
     AddressedAfterReport
<1>6. EachCommandOnce'
  <2> DEFINE done == Len(sent) - Len(evnts)
  <2>1. /\ Len(typed) = done + Len(evnts)
        /\ \A i \in 1 .. Len(typed) :
             typed[i].event = IF i <= done THEN sent[i].event ELSE evnts[i - done]
        /\ \A i \in 1 .. Len(evnts) : sent[done + i].event = evnts[i]
    BY <1>0, <1>2 DEF EachCommandOnce
  <2>2. Len(typed) = Len(sent) /\ Len(sent') - next' = Len(sent)
    BY <1>1, <1>2, <2>1
  <2>3. ASSUME NEW i \in 1 .. Len(typed)
        PROVE  typed[i].event = sent[i].event
    <3>1. CASE i <= done
      BY <2>1, <3>1
    <3>2. CASE ~ i <= done
      <4>1. i - done \in 1 .. Len(evnts) /\ done + (i - done) = i
        BY <1>2, <2>1, <3>2
      <4> QED BY <2>1, <3>2, <4>1
    <3> QED BY <3>1, <3>2
  <2>4. \A i \in 1 .. Len(typed) : i <= Len(sent)
    BY <1>2, <2>2
  <2> HIDE DEF done
  <2> QED BY <1>1, <1>2, <1>3, <2>2, <2>3, <2>4 DEF EachCommandOnce
<1> QED BY <1>4, <1>5, <1>6 DEF IInv

-----------------------------------------------------------------------------
LEMMA StepIInv == IInv /\ [Next]_demoVars => IInv'
BY QuietStep, ClientStep, PushStep, SendStep, ClearStep DEF Next, Console, Worker

LEMMA Invariance == Spec => []IInv
BY InitIInv, StepIInv, PTL DEF Spec

(* The state of both threads has its types; in particular the worker never *)
(* sends without a client, and its loop stays inside the queue although    *)
(* the console appends to it (the lock_guards of the two threads).         *)
THEOREM TypeCorrect == Spec => []TypeOK
BY Invariance, PTL DEF IInv

(* Every command is sent exactly once and in the order typed, or is still  *)
(* queued (push_back, the loop over evntsWaiting4Send and its clear()).    *)
THEOREM CommandsOnce == Spec => []EachCommandOnce
BY Invariance, PTL DEF IInv

(* What is sent to a client that has reported bears that client's account  *)
(* (clientAcct in do_handle).                                              *)
THEOREM AddressedRight == Spec => []AddressedAfterReport
BY Invariance, PTL DEF IInv

-----------------------------------------------------------------------------
(* The switch alarms *)


(* The worker has been through its loop lately. *)
CheckedLately == now - checked <= LoopTime

(* switch_check_timeout has left no zone that was due. *)
NoneOverdue ==
  \A z \in DOMAIN switch_alarms : Second(checked) - switch_alarms[z] <= SWITCH_TIMEOUT

(* The last alarm of a cached zone was reported or came soon after it. *)
HeardSoon ==
  \A z \in DOMAIN switch_alarms : Second(heard[z]) - switch_alarms[z] <= DEDUP_GAP

(* The inductive invariant *)
SwitchInv ==
  /\ SwitchTypeOK
  /\ CheckedLately
  /\ CacheIsOpenAlarms
  /\ NoneOverdue
  /\ HeardSoon

-----------------------------------------------------------------------------
(* Seconds and ticks *)

LEMMA SecondIs ==
  ASSUME NEW t \in Nat
  PROVE  /\ Second(t) \in Nat
         /\ PerSecond * Second(t) <= t
         /\ t < PerSecond * Second(t) + PerSecond
BY SwitchAssumption DEF Second

LEMMA Times ==
  ASSUME NEW p \in Nat, NEW a \in Int, NEW b \in Int, a <= b
  PROVE  p * a <= p * b
OBVIOUS

(* More than k seconds on the code's clock are more than k seconds. *)
LEMMA Apart ==
  ASSUME NEW a \in Nat, NEW b \in Nat, NEW k \in Int, Second(a) - Second(b) > k
  PROVE  a - b > k * PerSecond
<1> DEFINE d == Second(a) - Second(b)
<1>1. /\ PerSecond \in Nat /\ Second(a) \in Nat /\ Second(b) \in Nat
      /\ PerSecond * Second(a) <= a /\ b < PerSecond * Second(b) + PerSecond
  BY SecondIs, SwitchAssumption
<1>2. PerSecond * (k + 1) <= PerSecond * d
  <2>1. k + 1 \in Int /\ d \in Int /\ k + 1 <= d
    BY <1>1
  <2> HIDE DEF d
  <2> QED BY <1>1, <2>1, Times
<1>3. /\ PerSecond * d = PerSecond * Second(a) - PerSecond * Second(b)
      /\ PerSecond * (k + 1) = PerSecond * k + PerSecond
      /\ PerSecond * k = k * PerSecond /\ PerSecond * k \in Int
      /\ PerSecond * Second(a) \in Int /\ PerSecond * Second(b) \in Int
  BY <1>1
<1> HIDE DEF d
<1> QED BY <1>1, <1>2, <1>3

(* At most k seconds on the code's clock are less than k + 1 seconds. *)
LEMMA Near ==
  ASSUME NEW a \in Nat, NEW b \in Nat, NEW k \in Int, Second(a) - Second(b) <= k
  PROVE  a - b < (k + 1) * PerSecond
<1> DEFINE d == Second(a) - Second(b)
<1>1. /\ PerSecond \in Nat /\ Second(a) \in Nat /\ Second(b) \in Nat
      /\ PerSecond * Second(b) <= b /\ a < PerSecond * Second(a) + PerSecond
  BY SecondIs, SwitchAssumption
<1>2. PerSecond * d <= PerSecond * k
  <2>1. d \in Int /\ d <= k
    BY <1>1
  <2> HIDE DEF d
  <2> QED BY <1>1, <2>1, Times
<1>3. /\ PerSecond * d = PerSecond * Second(a) - PerSecond * Second(b)
      /\ (k + 1) * PerSecond = PerSecond * k + PerSecond
      /\ PerSecond * k \in Int
      /\ PerSecond * Second(a) \in Int /\ PerSecond * Second(b) \in Int
  BY <1>1
<1> HIDE DEF d
<1> QED BY <1>1, <1>2, <1>3

LEMMA SecondMonotone ==
  ASSUME NEW a \in Nat, NEW b \in Nat, a <= b
  PROVE  Second(a) <= Second(b)
<1> SUFFICES ASSUME ~ Second(a) <= Second(b) PROVE FALSE
  OBVIOUS
<1>1. Second(a) \in Nat /\ Second(b) \in Nat
  BY SecondIs
<1>2. Second(a) - Second(b) > 0
  BY <1>1
<1>3. a - b > 0 * PerSecond
  BY <1>2, Apart
<1> QED BY <1>3, SwitchAssumption

(* What the cache says of a zone *)
LEMMA Cached ==
  ASSUME SwitchInv, NEW z \in DOMAIN switch_alarms
  PROVE  /\ z \in Zone
         /\ last[z].event = "BURGLAR"
         /\ switch_alarms[z] = Second(last[z].at)
         /\ switch_alarms[z] \in Nat
         /\ last[z].at \in 0 .. now
         /\ heard[z] \in 0 .. now
         /\ now \in Nat /\ checked \in 0 .. now
<1>1. now \in Nat /\ checked \in 0 .. now
  BY SwitchAssumption DEF SwitchInv, SwitchTypeOK
<1>2. z \in Zone /\ heard[z] \in 0 .. now
  BY DEF SwitchInv, SwitchTypeOK
<1>3. last[z].at \in 0 .. now
  BY <1>2 DEF SwitchInv, SwitchTypeOK
<1>4. last[z].event = "BURGLAR" /\ switch_alarms[z] = Second(last[z].at)
  BY <1>2 DEF SwitchInv, CacheIsOpenAlarms
<1>5. switch_alarms[z] \in Nat
  <2>1. last[z].at \in Nat
    BY <1>1, <1>3
  <2> QED BY <1>4, <2>1, SecondIs
<1> QED BY <1>1, <1>2, <1>3, <1>4, <1>5

-----------------------------------------------------------------------------
LEMMA InitSwitchInv == SwitchInit => SwitchInv
<1> SUFFICES ASSUME SwitchInit PROVE SwitchInv
  OBVIOUS
<1>1. DOMAIN switch_alarms = {}
  BY DEF SwitchInit
<1>2. SwitchTypeOK
  <2>1. now = 0 /\ 0 \in 0 .. now /\ 0 \in 0 .. MaxTime
    BY SwitchAssumption DEF SwitchInit
  <2>2. last \in [Zone -> [event : {"BURGLAR", "BURGLAR_RECOVER"}, at : 0 .. now]]
    BY <2>1 DEF SwitchInit
  <2>3. heard \in [Zone -> 0 .. now]
    BY <2>1 DEF SwitchInit
  <2> QED BY <1>1, <2>1, <2>2, <2>3 DEF SwitchInit, SwitchTypeOK
<1>3. CheckedLately
  BY SwitchAssumption DEF SwitchInit, CheckedLately
<1>4. CacheIsOpenAlarms
  BY <1>1 DEF SwitchInit, CacheIsOpenAlarms
<1>5. NoneOverdue /\ HeardSoon
  BY <1>1 DEF NoneOverdue, HeardSoon
<1> QED BY <1>2, <1>3, <1>4, <1>5 DEF SwitchInv

(* Recovering zones keeps what is said of the others. *)
LEMMA Recovering ==
  ASSUME SwitchInv, NEW Z \in SUBSET DOMAIN switch_alarms, Recover(Z),
         UNCHANGED <<now, connected, heard>>
  PROVE  /\ DOMAIN switch_alarms' = DOMAIN switch_alarms \ Z
         /\ \A z \in DOMAIN switch_alarms \ Z : switch_alarms'[z] = switch_alarms[z]
         /\ \A z \in DOMAIN switch_alarms' : switch_alarms'[z] \in 0 .. Second(now)
         /\ last' \in [Zone -> [event : {"BURGLAR", "BURGLAR_RECOVER"}, at : 0 .. now]]
         /\ CacheIsOpenAlarms'
         /\ HeardSoon'
<1>0. SwitchTypeOK /\ CacheIsOpenAlarms /\ HeardSoon /\ now \in Nat
  BY SwitchAssumption DEF SwitchInv, SwitchTypeOK
<1>1. /\ DOMAIN switch_alarms' = DOMAIN switch_alarms \ Z
      /\ \A z \in DOMAIN switch_alarms \ Z : switch_alarms'[z] = switch_alarms[z]
  BY DEF Recover, Forget
<1>2. /\ last' = [z \in Zone |-> IF z \in Z
                                THEN [event |-> "BURGLAR_RECOVER", at |-> now]
                                ELSE last[z]]
      /\ \A z \in Zone : last'[z] = IF z \in Z
                                   THEN [event |-> "BURGLAR_RECOVER", at |-> now]
                                   ELSE last[z]
  BY DEF Recover
<1>3. last' \in [Zone -> [event : {"BURGLAR", "BURGLAR_RECOVER"}, at : 0 .. now]]
  BY <1>0, <1>2 DEF SwitchTypeOK
<1>4. \A z \in DOMAIN switch_alarms' : switch_alarms'[z] \in 0 .. Second(now)
  BY <1>0, <1>1 DEF SwitchTypeOK
<1>5. CacheIsOpenAlarms'
  <2>1. DOMAIN switch_alarms' = {z \in Zone : last'[z].event = "BURGLAR"}
    BY <1>0, <1>1, <1>2 DEF CacheIsOpenAlarms
  <2>2. \A z \in DOMAIN switch_alarms' : switch_alarms'[z] = Second(last'[z].at)
    BY <1>0, <1>1, <1>2 DEF CacheIsOpenAlarms
  <2> QED BY <2>1, <2>2 DEF CacheIsOpenAlarms, Second
<1>6. HeardSoon'
  BY <1>0, <1>1 DEF HeardSoon, Second
<1> QED BY <1>1, <1>3, <1>4, <1>5, <1>6

(* An alarm: suppressed, or reported and cached *)
LEMMA AlarmStep ==
  ASSUME SwitchInv, NEW zone \in Zone, Handle(zone, "BURGLAR")
  PROVE  SwitchInv'
<1>0. /\ SwitchTypeOK /\ CheckedLately /\ CacheIsOpenAlarms /\ NoneOverdue /\ HeardSoon
      /\ now \in Nat /\ checked \in 0 .. now
  BY SwitchAssumption DEF SwitchInv, SwitchTypeOK
<1>1. /\ SwitchFilter(zone)
      /\ heard' = [heard EXCEPT ![zone] = now]
      /\ UNCHANGED <<now, checked, connected>>
  BY DEF Handle, SwitchEvents
<1>2. /\ heard' \in [Zone -> 0 .. now]
      /\ heard'[zone] = now
      /\ \A z \in Zone : z # zone => heard'[z] = heard[z]
  <2>1. heard \in [Zone -> 0 .. now] /\ now \in 0 .. now
    BY <1>0 DEF SwitchTypeOK
  <2> QED BY <1>1, <2>1
<1>3. Second(now) \in Nat /\ Second(checked) <= Second(now) /\ Second(checked) \in Nat
  BY <1>0, SecondIs, SecondMonotone
<1>4. CASE Repeated(zone)
  <2>1. UNCHANGED <<switch_alarms, last>>
    BY <1>1, <1>4 DEF SwitchFilter
  <2>2. SwitchTypeOK'
    BY <1>0, <1>1, <1>2, <2>1 DEF SwitchTypeOK, Second
  <2>3. CheckedLately' /\ CacheIsOpenAlarms' /\ NoneOverdue'
    BY <1>0, <1>1, <2>1 DEF CheckedLately, CacheIsOpenAlarms, NoneOverdue, Second
  <2>4. HeardSoon'
    <3>1. ASSUME NEW z \in DOMAIN switch_alarms
          PROVE  Second(heard'[z]) - switch_alarms[z] <= DEDUP_GAP
      <4>1. CASE z = zone
        <5>1. switch_alarms[z] \in Nat
          BY Cached
        <5> QED BY <1>2, <1>3, <1>4, <4>1, <5>1, SwitchAssumption DEF Repeated
      <4>2. CASE z # zone
        <5>1. z \in Zone
          BY Cached
        <5> QED BY <1>0, <1>2, <4>2, <5>1 DEF HeardSoon
      <4> QED BY <4>1, <4>2
    <3> QED BY <2>1, <3>1 DEF HeardSoon, Second
  <2> QED BY <2>2, <2>3, <2>4 DEF SwitchInv
<1>5. CASE ~ Repeated(zone)
  <2>1. /\ Cache(zone)
        /\ last' = [last EXCEPT ![zone] = [event |-> "BURGLAR", at |-> now]]
    BY <1>1, <1>5 DEF SwitchFilter
  <2>2. /\ DOMAIN switch_alarms' = DOMAIN switch_alarms \cup {zone}
        /\ switch_alarms'[zone] = Second(now)
        /\ \A z \in DOMAIN switch_alarms : z # zone => switch_alarms'[z] = switch_alarms[z]
    BY <2>1 DEF Cache
  <2>3. [event |-> "BURGLAR", at |-> now] \in
          [event : {"BURGLAR", "BURGLAR_RECOVER"}, at : 0 .. now]
    BY <1>0
  <2>4. last \in [Zone -> [event : {"BURGLAR", "BURGLAR_RECOVER"}, at : 0 .. now]]
    BY <1>0 DEF SwitchTypeOK
  <2>5. /\ last' \in [Zone -> [event : {"BURGLAR", "BURGLAR_RECOVER"}, at : 0 .. now]]
        /\ last'[zone] = [event |-> "BURGLAR", at |-> now]
        /\ \A z \in Zone : z # zone => last'[z] = last[z]
    BY <2>1, <2>3, <2>4
  <2>6. \A z \in DOMAIN switch_alarms' : switch_alarms'[z] \in 0 .. Second(now)
    BY <1>0, <1>3, <2>2 DEF SwitchTypeOK
  <2>7. SwitchTypeOK'
    BY <1>0, <1>1, <1>2, <2>2, <2>5, <2>6 DEF SwitchTypeOK, Second
  <2>8. CheckedLately'
    BY <1>0, <1>1 DEF CheckedLately
  <2>9. CacheIsOpenAlarms'
    <3>1. DOMAIN switch_alarms' = {z \in Zone : last'[z].event = "BURGLAR"}
      BY <1>0, <2>2, <2>5 DEF CacheIsOpenAlarms
    <3>2. \A z \in DOMAIN switch_alarms' : switch_alarms'[z] = Second(last'[z].at)
      BY <1>0, <2>2, <2>5 DEF CacheIsOpenAlarms
    <3> QED BY <3>1, <3>2 DEF CacheIsOpenAlarms, Second
  <2>10. NoneOverdue'
    <3>1. \A z \in DOMAIN switch_alarms' :
            Second(checked) - switch_alarms'[z] <= SWITCH_TIMEOUT
      BY <1>0, <1>3, <2>2, SwitchAssumption DEF NoneOverdue
    <3> QED BY <1>1, <3>1 DEF NoneOverdue, Second
  <2>11. HeardSoon'
    <3>1. \A z \in DOMAIN switch_alarms' :
            Second(heard'[z]) - switch_alarms'[z] <= DEDUP_GAP
      BY <1>0, <1>2, <1>3, <2>2, SwitchAssumption DEF HeardSoon, SwitchTypeOK
    <3> QED BY <3>1 DEF HeardSoon, Second
  <2> QED BY <2>7, <2>8, <2>9, <2>10, <2>11 DEF SwitchInv
<1> QED BY <1>4, <1>5

(* A disarm: all zones recover. *)
LEMMA DisarmStep ==
  ASSUME SwitchInv, NEW zone \in Zone, NEW event \in SwitchEvent, event # "BURGLAR",
         Handle(zone, event)
  PROVE  SwitchInv'
<1>0. SwitchTypeOK /\ CheckedLately /\ NoneOverdue
  BY DEF SwitchInv
<1>1. Recover(DOMAIN switch_alarms) /\ UNCHANGED <<now, checked, connected, heard>>
  BY DEF Handle, SwitchEvents
<1>2. /\ DOMAIN switch_alarms' = {}
      /\ last' \in [Zone -> [event : {"BURGLAR", "BURGLAR_RECOVER"}, at : 0 .. now]]
      /\ CacheIsOpenAlarms'
      /\ HeardSoon'
  BY <1>1, Recovering
<1>3. SwitchTypeOK' /\ CheckedLately' /\ NoneOverdue'
  BY <1>0, <1>1, <1>2 DEF SwitchTypeOK, CheckedLately, NoneOverdue
<1> QED BY <1>2, <1>3 DEF SwitchInv

LEMMA CheckStep ==
  ASSUME SwitchInv, CheckTimeout
  PROVE  SwitchInv'
<1>0. SwitchTypeOK /\ now \in Nat
  BY SwitchAssumption DEF SwitchInv, SwitchTypeOK
<1>1. Recover(Due) /\ checked' = now /\ UNCHANGED <<now, connected, heard>>
      /\ Due \in SUBSET DOMAIN switch_alarms
  BY DEF CheckTimeout, Due
<1>2. /\ DOMAIN switch_alarms' = DOMAIN switch_alarms \ Due
      /\ \A z \in DOMAIN switch_alarms \ Due : switch_alarms'[z] = switch_alarms[z]
      /\ \A z \in DOMAIN switch_alarms' : switch_alarms'[z] \in 0 .. Second(now)
      /\ last' \in [Zone -> [event : {"BURGLAR", "BURGLAR_RECOVER"}, at : 0 .. now]]
      /\ CacheIsOpenAlarms'
      /\ HeardSoon'
  BY <1>1, Recovering
<1>3. SwitchTypeOK'
  BY <1>0, <1>1, <1>2 DEF SwitchTypeOK, Second
<1>4. CheckedLately'
  BY <1>0, <1>1, SwitchAssumption DEF CheckedLately
<1>5. NoneOverdue'
  <2>1. ASSUME NEW z \in DOMAIN switch_alarms'
        PROVE  Second(now) - switch_alarms'[z] <= SWITCH_TIMEOUT
    <3>1. z \in DOMAIN switch_alarms /\ z \notin Due /\ switch_alarms'[z] = switch_alarms[z]
      BY <1>2
    <3>2. Second(now) \in Nat /\ switch_alarms[z] \in Nat
      BY <1>0, <3>1, SecondIs, Cached
    <3> QED BY <3>1, <3>2, SwitchAssumption DEF Due
  <2> QED BY <1>1, <2>1 DEF NoneOverdue, Second
<1> QED BY <1>2, <1>3, <1>4, <1>5 DEF SwitchInv

LEMMA TickStep ==
  ASSUME SwitchInv, Tick
  PROVE  SwitchInv'
<1>0. SwitchTypeOK /\ CheckedLately /\ CacheIsOpenAlarms /\ NoneOverdue /\ HeardSoon
      /\ now \in Nat /\ checked \in 0 .. now /\ MaxTime \in Nat
  BY SwitchAssumption DEF SwitchInv, SwitchTypeOK
<1>1. /\ now < MaxTime /\ now - checked < LoopTime /\ now' = now + 1
      /\ UNCHANGED <<checked, connected, switch_alarms, last, heard>>
  BY DEF Tick
<1>2. 0 .. now \subseteq 0 .. now' /\ now' \in 0 .. MaxTime /\ now' \in Nat
  BY <1>0, <1>1
<1>3. Second(now) <= Second(now') /\ Second(now) \in Nat /\ Second(now') \in Nat
  BY <1>0, <1>1, <1>2, SecondMonotone, SecondIs
<1>4. SwitchTypeOK'
  <2>1. last \in [Zone -> [event : {"BURGLAR", "BURGLAR_RECOVER"}, at : 0 .. now']]
    BY <1>0, <1>2 DEF SwitchTypeOK
  <2>2. heard \in [Zone -> 0 .. now']
    BY <1>0, <1>2 DEF SwitchTypeOK
  <2>3. \A z \in DOMAIN switch_alarms : switch_alarms[z] \in 0 .. Second(now')
    BY <1>0, <1>3 DEF SwitchTypeOK
  <2> QED BY <1>0, <1>1, <1>2, <2>1, <2>2, <2>3 DEF SwitchTypeOK, Second
<1>5. CheckedLately'
  BY <1>0, <1>1, SwitchAssumption DEF CheckedLately
<1>6. CacheIsOpenAlarms' /\ NoneOverdue' /\ HeardSoon'
  BY <1>0, <1>1 DEF CacheIsOpenAlarms, NoneOverdue, HeardSoon, Second
<1> QED BY <1>4, <1>5, <1>6 DEF SwitchInv

LEMMA OtherStep ==
  ASSUME SwitchInv, HostComes \/ HostGoes \/ UNCHANGED switchVars
  PROVE  SwitchInv'
<1>1. /\ UNCHANGED <<now, checked, switch_alarms, last, heard>>
      /\ connected' \in BOOLEAN
  BY DEF SwitchInv, SwitchTypeOK, HostComes, HostGoes, switchVars
<1> QED
  BY <1>1 DEF SwitchInv, SwitchTypeOK, CheckedLately, CacheIsOpenAlarms, NoneOverdue, HeardSoon,
     Second

LEMMA StepSwitchInv == SwitchInv /\ [SwitchNext]_switchVars => SwitchInv'
<1> SUFFICES ASSUME SwitchInv, [SwitchNext]_switchVars PROVE SwitchInv'
  OBVIOUS
<1>1. ASSUME NEW zone \in Zone, NEW event \in SwitchEvent, Handle(zone, event)
      PROVE  SwitchInv'
  BY <1>1, AlarmStep, DisarmStep
<1> QED
  BY <1>1, CheckStep, TickStep, OtherStep DEF SwitchNext

LEMMA SwitchInvariance == SwitchSpec => []SwitchInv
BY InitSwitchInv, StepSwitchInv, PTL DEF SwitchSpec

-----------------------------------------------------------------------------
(* The cache and the clocks have their types (switch_alarms of             *)
(* server_demo.cpp).                                                       *)
THEOREM SwitchTypeCorrect == SwitchSpec => []SwitchTypeOK
BY SwitchInvariance, PTL DEF SwitchInv

(* The zones cached are those whose last report is an alarm, with its time *)
(* (switch_filter, swithc_all_clear and switch_check_timeout).             *)
THEOREM CacheCorrect == SwitchSpec => []CacheIsOpenAlarms
BY SwitchInvariance, PTL DEF SwitchInv

LEMMA Recovered == SwitchInv => RecoveredInTime
<1> SUFFICES ASSUME SwitchInv, NEW z \in Zone, last[z].event = "BURGLAR"
             PROVE  now - last[z].at < (SWITCH_TIMEOUT + 1) * PerSecond + LoopTime
  BY DEF RecoveredInTime
<1> DEFINE at == last[z].at
           most == (SWITCH_TIMEOUT + 1) * PerSecond
<1>1. z \in DOMAIN switch_alarms
  BY DEF SwitchInv, CacheIsOpenAlarms
<1>2. /\ switch_alarms[z] = Second(at) /\ at \in Nat
      /\ now \in Nat /\ checked \in Nat
  BY <1>1, Cached
<1>3. Second(checked) - Second(at) <= SWITCH_TIMEOUT
  BY <1>1, <1>2 DEF SwitchInv, NoneOverdue
<1>4. checked - at < most
  BY <1>2, <1>3, Near, SwitchAssumption
<1>5. now - checked <= LoopTime /\ LoopTime \in Nat /\ most \in Int
  BY SwitchAssumption DEF SwitchInv, CheckedLately
<1> HIDE DEF at, most
<1>6. now - at < most + LoopTime
  BY <1>2, <1>4, <1>5
<1> QED BY <1>6 DEF at, most

(* An alarm is open for less than SWITCH_TIMEOUT seconds, one more for     *)
(* time(), and one loop of the worker (switch_check_timeout).              *)
THEOREM RecoveryInTime == SwitchSpec => []RecoveredInTime
BY SwitchInvariance, Recovered, PTL

LEMMA ApartStep ==
  ASSUME SwitchInv, SwitchNext, NEW z \in Zone, last[z].event = "BURGLAR",
         last'[z] # last[z], last'[z].event = "BURGLAR"
  PROVE  last'[z].at - last[z].at > (DEDUP_GAP - 1) * PerSecond
<1>1. PICK zone \in Zone : Handle(zone, "BURGLAR") /\ ~ Repeated(zone)
  <2>1. CASE CheckTimeout
    BY <2>1 DEF CheckTimeout, Recover
  <2>2. CASE HostComes \/ HostGoes \/ Tick
    BY <2>2 DEF HostComes, HostGoes, Tick
  <2>3. ASSUME NEW zone \in Zone, NEW event \in SwitchEvent, Handle(zone, event)
        PROVE  event = "BURGLAR" /\ ~ Repeated(zone)
    BY <2>3 DEF Handle, SwitchEvents, Recover, SwitchFilter
  <2> QED BY <2>1, <2>2, <2>3 DEF SwitchNext
<1>2. last' = [last EXCEPT ![zone] = [event |-> "BURGLAR", at |-> now]]
  BY <1>1 DEF Handle, SwitchEvents, SwitchFilter
<1>3. zone = z /\ last'[z].at = now
  BY <1>2 DEF SwitchInv, SwitchTypeOK
<1>4. z \in DOMAIN switch_alarms
  BY DEF SwitchInv, CacheIsOpenAlarms
<1>5. /\ switch_alarms[z] = Second(last[z].at) /\ last[z].at \in Nat /\ now \in Nat
  BY <1>4, Cached
<1>6. Second(now) - Second(last[z].at) > DEDUP_GAP - 1
  <2>1. Second(now) \in Nat /\ Second(last[z].at) \in Nat
    BY <1>5, SecondIs
  <2> QED BY <1>1, <1>3, <1>4, <1>5, <2>1, SwitchAssumption DEF Repeated
<1> QED BY <1>3, <1>5, <1>6, Apart, SwitchAssumption

(* Two alarms reported for a zone without a recovery in between are more   *)
(* than DEDUP_GAP - 1 seconds apart (switch_filter).                       *)
THEOREM AlarmsFarApart == SwitchSpec => AlarmsApart
<1>1. SwitchInv /\ [SwitchNext]_switchVars =>
        [\A z \in Zone :
           last[z].event = "BURGLAR" /\ last'[z] # last[z] /\ last'[z].event = "BURGLAR"
             => last'[z].at - last[z].at > (DEDUP_GAP - 1) * PerSecond]_switchVars
  BY ApartStep
<1> QED BY <1>1, SwitchInvariance, PTL DEF SwitchSpec, AlarmsApart

LEMMA RecoverStep ==
  ASSUME SwitchInv, SwitchNext, checked' # checked, NEW z \in Zone, last'[z] # last[z]
  PROVE  /\ now - last[z].at > SWITCH_TIMEOUT * PerSecond
         /\ now - heard[z] > (SWITCH_TIMEOUT - DEDUP_GAP) * PerSecond
<1>1. CheckTimeout
  BY DEF SwitchNext, Handle, HostComes, HostGoes, Tick
<1>2. z \in Due
  BY <1>1 DEF CheckTimeout, Recover
<1>3. z \in DOMAIN switch_alarms /\ Second(now) - switch_alarms[z] > SWITCH_TIMEOUT
  BY <1>2 DEF Due
<1>4. /\ switch_alarms[z] = Second(last[z].at) /\ switch_alarms[z] \in Nat
      /\ last[z].at \in Nat /\ heard[z] \in Nat /\ now \in Nat
  BY <1>3, Cached
<1>5. now - last[z].at > SWITCH_TIMEOUT * PerSecond
  BY <1>3, <1>4, Apart, SwitchAssumption
<1>6. Second(now) - Second(heard[z]) > SWITCH_TIMEOUT - DEDUP_GAP
  <2>1. Second(now) \in Nat /\ Second(heard[z]) \in Nat
    BY <1>4, SecondIs
  <2>2. Second(heard[z]) - switch_alarms[z] <= DEDUP_GAP
    BY <1>3 DEF SwitchInv, HeardSoon
  <2> QED BY <1>3, <1>4, <2>1, <2>2, SwitchAssumption
<1>7. now - heard[z] > (SWITCH_TIMEOUT - DEDUP_GAP) * PerSecond
  BY <1>4, <1>6, Apart, SwitchAssumption
<1> QED BY <1>5, <1>7

(* A recovery that switch_check_timeout reports is not early, counted from *)
(* the alarm reported and from the last one suppressed.                    *)
THEOREM RecoveriesNotEarly == SwitchSpec => RecoveryNotEarly
<1>1. SwitchInv /\ [SwitchNext]_switchVars =>
        [checked' # checked =>
           \A z \in Zone :
             last'[z] # last[z] =>
               /\ now - last[z].at > SWITCH_TIMEOUT * PerSecond
               /\ now - heard[z] > (SWITCH_TIMEOUT - DEDUP_GAP) * PerSecond]_switchVars
  BY RecoverStep
<1> QED BY <1>1, SwitchInvariance, PTL DEF SwitchSpec, RecoveryNotEarly
=============================================================================
