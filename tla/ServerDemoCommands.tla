-------------------------- MODULE ServerDemoCommands --------------------------
(***************************************************************************)
(* Remote control in server_demo                                           *)
(* (src/examples/server_demo/server_demo.cpp): the console (the main       *)
(* thread) reads commands from stdin and queues them; the worker thread    *)
(* accepts one client at a time, learns its account from its packets and   *)
(* sends it what is queued.  The threads share evntsWaiting4Send, guarded  *)
(* by mutex except for one call of empty(), and pwd, clientSock and        *)
(* running, guarded by nothing.                                            *)
(*                                                                         *)
(* What do_read does with the bytes of a client is in ServerDemoReader;    *)
(* here it either finds nothing, or a report of the client, or finds it    *)
(* gone.                                                                   *)
(***************************************************************************)
EXTENDS Naturals, Sequences

CONSTANTS
  Machine,     \* the alarm hosts that may connect, by their account
  Password,    \* the six-digit passwords a user may type
  MaxCommands  \* bound: how many commands are typed

CONSTANTS
  None,        \* no client, no account, no thread
  Partial      \* what pwd holds while scanf is at it, or after a string of
               \* another length than six

ASSUME CommandAssumption ==
  /\ MaxCommands \in Nat
  /\ None \notin Machine \cup {"console", "worker"}
  /\ Partial \notin Password

Event == {"ARM_AWAY", "DISARM", "EMERGENCY"}

VARIABLES
  running,      \* cleared by 'q'
  mutex,        \* None, "console" or "worker"
  evnts,        \* evntsWaiting4Send
  pwd,          \* the password buffer
  console,      \* "getc", "scan", "wait" (for mutex), "push", "join", "done"
  cmd,          \* the event the console is about to queue
  worker,       \* "top", "accept", "read", "check", "lock", "send", "clear",
                \* "done"
  next,         \* while sending: how many events of evnts are already sent
  clientSock,   \* the machine that is connected, or None
  clientAcct,   \* the account in the last report of any client
  reported,     \* the present client has reported since it connected
  typed,        \* the commands queued so far, each with its password
  sent          \* the packets given to send() so far

demoVars == <<running, mutex, evnts, pwd, console, cmd, worker, next,
              clientSock, clientAcct, reported, typed, sent>>

consoleVars == <<running, console, cmd, pwd, typed>>
workerVars  == <<worker, next, clientSock, clientAcct, reported, sent>>

Command == [event : Event, pwd : Password \cup {Partial, None}]
Packet  == [event : Event, pwd : Password \cup {Partial, None},
            acct : Machine \cup {None}, to : Machine, reported : BOOLEAN]

TypeOK ==
  /\ running \in BOOLEAN
  /\ mutex \in {None, "console", "worker"}
  /\ evnts \in Seq(Event)
  /\ pwd \in Password \cup {Partial}
  /\ console \in {"getc", "scan", "wait", "push", "join", "done"}
  /\ cmd \in Event \cup {None}
  /\ worker \in {"top", "accept", "read", "check", "lock", "send", "clear", "done"}
  /\ next \in 0 .. Len(evnts)
  /\ clientSock \in Machine \cup {None}
  /\ clientAcct \in Machine \cup {None}
  /\ reported \in BOOLEAN
  /\ typed \in Seq(Command)
  /\ sent \in Seq(Packet)

Init ==
  /\ running = TRUE
  /\ mutex = None
  /\ evnts = <<>>
  /\ pwd = Partial
  /\ console = "getc" /\ cmd = None
  /\ worker = "top" /\ next = 0
  /\ clientSock = None /\ clientAcct = None /\ reported = FALSE
  /\ typed = <<>> /\ sent = <<>>

-----------------------------------------------------------------------------
(* The console thread *)

(* getc returns 'a', 'e' or 'd'. *)
TypeCommand ==
  /\ console = "getc"
  /\ Len(typed) < MaxCommands
  /\ \E e \in Event :
       /\ cmd' = e
       /\ console' = IF e = "DISARM" THEN "scan" ELSE "wait"
  /\ UNCHANGED <<running, pwd, typed, mutex, evnts, workerVars>>

(* scanf writes pwd byte by byte, and again while it has not six digits.   *)
ScanPassword ==
  /\ console = "scan"
  /\ \/ pwd' = Partial /\ UNCHANGED console
     \/ pwd' \in Password /\ console' = "wait"
  /\ UNCHANGED <<running, cmd, typed, mutex, evnts, workerVars>>

ConsoleLock ==
  /\ console = "wait"
  /\ mutex = None
  /\ mutex' = "console"
  /\ console' = "push"
  /\ UNCHANGED <<running, cmd, pwd, typed, evnts, workerVars>>

(* push_back, and the lock_guard ends *)
ConsolePush ==
  /\ console = "push"
  /\ evnts' = Append(evnts, cmd)
  /\ typed' = Append(typed, [event |-> cmd, pwd |-> IF cmd = "DISARM" THEN pwd ELSE None])
  /\ mutex' = None
  /\ console' = "getc"
  /\ cmd' = None
  /\ UNCHANGED <<running, pwd, workerVars>>

(* getc returns 'q'. *)
Quit ==
  /\ console = "getc"
  /\ running' = FALSE
  /\ console' = "join"
  /\ UNCHANGED <<cmd, pwd, typed, mutex, evnts, workerVars>>

Join ==
  /\ console = "join"
  /\ worker = "done"
  /\ console' = "done"
  /\ UNCHANGED <<running, cmd, pwd, typed, mutex, evnts, workerVars>>

-----------------------------------------------------------------------------
(* The worker thread *)

WhileTrue ==   \* mutant: running is not looked at
  /\ worker = "top"
  /\ worker' = "accept"
  /\ UNCHANGED <<next, clientSock, clientAcct, reported, sent, mutex, evnts, consoleVars>>

WhileRunning ==
  /\ worker = "top"
  /\ worker' = IF running THEN "accept" ELSE "done"
  /\ UNCHANGED <<next, clientSock, clientAcct, reported, sent, mutex, evnts, consoleVars>>

(* do_accept: there may be a client waiting. *)
DoAccept ==
  /\ worker = "accept"
  /\ worker' = "read"
  /\ \/ /\ clientSock = None
        /\ clientSock' \in Machine
        /\ reported' = FALSE
     \/ UNCHANGED <<clientSock, reported>>
  /\ UNCHANGED <<next, clientAcct, sent, mutex, evnts, consoleVars>>

FirstAcct ==   \* mutant: an account once learned is kept
  IF clientAcct = None THEN clientSock ELSE clientAcct

(* pkt.acct of a report *)
ReportedAcct == clientSock

(* do_read: nothing arrived, or the client reported (AID_HB, AID_ADM_CID), *)
(* or it has gone.                                                         *)
DoRead ==
  /\ worker = "read"
  /\ worker' = "check"
  /\ \/ UNCHANGED <<clientSock, clientAcct, reported>>
     \/ /\ clientSock # None
        /\ clientAcct' = ReportedAcct
        /\ reported' = TRUE
        /\ UNCHANGED clientSock
     \/ /\ clientSock # None
        /\ clientSock' = None
        /\ UNCHANGED <<clientAcct, reported>>
  /\ UNCHANGED <<next, sent, mutex, evnts, consoleVars>>

HasReported == clientSock # None /\ reported   \* mutant: sending waits for a report

HasClient == clientSock # None

(* clientSock and empty() are looked at without the mutex: while the       *)
(* console is in push_back, empty() may say anything.                      *)
CheckQueue ==
  /\ worker = "check"
  /\ \E empty \in BOOLEAN :
       /\ mutex = "console" \/ empty = (evnts = <<>>)
       /\ worker' = IF HasClient /\ ~ empty THEN "lock" ELSE "top"
  /\ UNCHANGED <<next, clientSock, clientAcct, reported, sent, mutex, evnts, consoleVars>>

LockFree == UNCHANGED mutex   \* mutant: the worker takes no lock

Lock == mutex = None /\ mutex' = "worker"

WorkerLock ==
  /\ worker = "lock"
  /\ Lock
  /\ worker' = "send"
  /\ UNCHANGED <<next, clientSock, clientAcct, reported, sent, evnts, consoleVars>>

(* One round of the for loop: ademco_make_hb_packet and send(), the result *)
(* of which is not looked at.                                              *)
SendNext ==
  /\ worker = "send"
  /\ next < Len(evnts)
  /\ LET e == evnts[next + 1]
     IN  sent' = Append(sent, [event |-> e, pwd |-> IF e = "DISARM" THEN pwd ELSE None,
                               acct |-> clientAcct, to |-> clientSock,
                               reported |-> reported])
  /\ next' = next + 1
  /\ UNCHANGED <<worker, clientSock, clientAcct, reported, mutex, evnts, consoleVars>>

EndSend ==
  /\ worker = "send"
  /\ next = Len(evnts)
  /\ worker' = "clear"
  /\ UNCHANGED <<next, clientSock, clientAcct, reported, sent, mutex, evnts, consoleVars>>

(* "for (auto e : evntsWaiting4Send)" begins anew. *)
Restart == next' = 0

(* evntsWaiting4Send.clear(), and the lock_guard ends *)
ClearQueue ==
  /\ worker = "clear"
  /\ evnts' = <<>>
  /\ Restart
  /\ mutex' = None
  /\ worker' = "top"
  /\ UNCHANGED <<clientSock, clientAcct, reported, sent, consoleVars>>

-----------------------------------------------------------------------------
Console == TypeCommand \/ ScanPassword \/ ConsoleLock \/ ConsolePush \/ Quit \/ Join
Worker  == WhileRunning \/ DoAccept \/ DoRead \/ CheckQueue \/ WorkerLock
             \/ SendNext \/ EndSend \/ ClearQueue

Next == Console \/ Worker

Spec == Init /\ [][Next]_demoVars

(* Both threads are scheduled, and a thread that waits for a mutex that is *)
(* released again and again gets it; nobody has to type anything.          *)
FairSpec ==
  /\ Spec
  /\ WF_demoVars(ConsolePush) /\ WF_demoVars(Join) /\ SF_demoVars(ConsoleLock)
  /\ WF_demoVars(Worker) /\ SF_demoVars(WorkerLock)

-----------------------------------------------------------------------------
(* Every command is sent exactly once and in the order typed, or is still  *)
(* queued, however the console's push_back falls between the worker's      *)
(* unlocked empty(), its loop and its clear().                             *)
EachCommandOnce ==
  LET done == Len(sent) - next
      queue(i) == IF i <= done THEN sent[i].event ELSE evnts[i - done]
  IN  /\ Len(typed) = done + Len(evnts)
      /\ \A i \in 1 .. Len(typed) : typed[i].event = queue(i)
      /\ \A i \in 1 .. next : sent[done + i].event = evnts[i]

(* Once a client has reported, what is sent to it bears its account        *)
(* (clientAcct is overwritten by every report in do_handle).               *)
AddressedAfterReport ==
  \A i \in 1 .. Len(sent) : sent[i].reported => sent[i].acct = sent[i].to

(* 'q' ends the program: the worker sees running, whatever it is doing,    *)
(* and main's join returns.                                                *)
QuitTerminates == (console = "join") ~> (console = "done" /\ worker = "done")

(* What is queued while a client is connected is sent, unless the client   *)
(* leaves or the program is ended.                                         *)
QueueDrains ==
  (evnts # <<>> /\ clientSock # None)
    ~> (evnts = <<>> \/ clientSock = None \/ ~ running)

(* docs/README.md:25: the center sends a disarm command with the password  *)
(* in xdata.  So the password sent is the one typed for that command.      *)
DisarmPasswordKept ==
  \A i \in 1 .. Len(sent) : i <= Len(typed) => sent[i].pwd = typed[i].pwd
=============================================================================
