------------------------------- MODULE HttpRelay -------------------------------
(***************************************************************************)
(* httprelay (src/examples/httprelay/httprelay.c): alarm hosts connect over *)
(* TCP and report numbered events; each is posted to an HTTP server and    *)
(* acknowledged to the host.                                               *)
(*                                                                         *)
(* The relay is one event loop: a callback of uv_tcpserver.c is one step   *)
(* here, including the HTTP requests it makes, which block the loop until  *)
(* they succeed, fail or time out.  UvTcpServer shows that on_tcp_parse is *)
(* called once for each packet of a connection, in order.                  *)
(*                                                                         *)
(* The hosts and the network are the environment.  Every packet of a host  *)
(* bears its account, which is not empty.  A host has one event            *)
(* outstanding, repeats it until it hears the ACK with its seq, and after  *)
(* losing a connection opens another, of which the relay may hear first.   *)
(*                                                                         *)
(* machine_info_t's ademco_id, type and status are written and never read; *)
(* they are left out.                                                      *)
(***************************************************************************)
EXTENDS Naturals, Sequences, FiniteSets

CONSTANTS
  Machine,    \* the hosts, by the account their packets bear
  Conn,       \* bound: the connections that are ever made, numbered as they come
  None,       \* no account, no connection
  MaxEvents,  \* bound: the events of a host
  MaxExtra,   \* bound: heartbeats, repetitions and other packets of a connection
  MaxFailed   \* bound: the HTTP requests that fail

ASSUME RelayAssumption ==
  /\ Conn \subseteq Nat
  /\ None \notin Machine \cup Conn
  /\ MaxEvents \in 0 .. 1943   \* the numbers of events are no event codes
  /\ MaxExtra \in Nat
  /\ MaxFailed \in Nat

VARIABLES
  \* the hosts
  link,       \* the connection a host uses, or None
  acked,      \* how many of its events were acknowledged to a host
  \* the network
  owner,      \* the host that made a connection
  sentOn,     \* the last event a connection has carried
  extra,      \* how many other packets a connection has carried
  toRelay,    \* packets on their way from the host, by connection
  toMachine,  \* the seqs of the ACKs on their way to the host
  \* the relay
  client,     \* "none", "open", "closing" (uv_close called), "closed"
  acct,       \* machine_info_t.acct of a connection
  posted,     \* the HTTP requests made, in order
  failed      \* which of them the HTTP server did not get

machineVars == <<link, acked>>
netVars     == <<owner, sentOn, extra, toRelay, toMachine>>
relayVars   == <<client, acct, posted, failed>>
httpVars    == <<machineVars, netVars, relayVars>>

Ids    == {"NULL", "ADM-CID", "DUH"}   \* HENG-BO is handled like ADM-CID
Events == 1 .. MaxEvents

OFFLINE == 1944   \* EVENT_OFFLINE
ONLINE  == 1946   \* EVENT_ONLINE

(* event is 0 (EVENT_INVALID_EVENT) unless the packet reports one; it also *)
(* stands for the packet's seq.                                            *)
Packet == [id : Ids, event : 0 .. MaxEvents]

Post == [conn : Conn, acct : Machine, event : Events \cup {ONLINE, OFFLINE}]

TypeOK ==
  /\ link \in [Machine -> Conn \cup {None}]
  /\ acked \in [Machine -> 0 .. MaxEvents]
  /\ owner \in [Conn -> Machine \cup {None}]
  /\ sentOn \in [Conn -> 0 .. MaxEvents]
  /\ extra \in [Conn -> 0 .. MaxExtra]
  /\ toRelay \in [Conn -> Seq(Packet)]
  /\ toMachine \in [Conn -> Seq(0 .. MaxEvents)]
  /\ client \in [Conn -> {"none", "open", "closing", "closed"}]
  /\ acct \in [Conn -> Machine \cup {None}]
  /\ posted \in Seq(Post)
  /\ failed \subseteq DOMAIN posted

Init ==
  /\ link = [m \in Machine |-> None]
  /\ acked = [m \in Machine |-> 0]
  /\ owner = [c \in Conn |-> None]
  /\ sentOn = [c \in Conn |-> 0]
  /\ extra = [c \in Conn |-> 0]
  /\ toRelay = [c \in Conn |-> <<>>]
  /\ toMachine = [c \in Conn |-> <<>>]
  /\ client = [c \in Conn |-> "none"]
  /\ acct = [c \in Conn |-> None]
  /\ posted = <<>>
  /\ failed = {}

-----------------------------------------------------------------------------
(* The hosts *)

SendPacket(c, id, event) ==
  toRelay' = [toRelay EXCEPT ![c] = Append(@, [id |-> id, event |-> event])]

(* The next event is reported, or the unacknowledged one on a connection   *)
(* that has not carried it.                                                *)
Report(m) ==
  LET c == link[m]
  IN  /\ c # None
      /\ acked[m] < MaxEvents
      /\ sentOn[c] <= acked[m]
      /\ sentOn' = [sentOn EXCEPT ![c] = acked[m] + 1]
      /\ SendPacket(c, "ADM-CID", acked[m] + 1)
      /\ UNCHANGED <<machineVars, owner, extra, toMachine, relayVars>>

(* A heartbeat, the repetition of an event that was not acknowledged in    *)
(* time, or a packet of another kind                                       *)
SendExtra(m) ==
  LET c == link[m]
  IN  /\ c # None
      /\ extra[c] < MaxExtra
      /\ extra' = [extra EXCEPT ![c] = @ + 1]
      /\ \/ SendPacket(c, "NULL", 0)
         \/ SendPacket(c, "DUH", 0)
         \/ sentOn[c] = acked[m] + 1 /\ SendPacket(c, "ADM-CID", sentOn[c])
      /\ UNCHANGED <<machineVars, owner, sentOn, toMachine, relayVars>>

(* An ACK counts if its seq is that of the outstanding event.              *)
Hear(m) ==
  LET c == link[m]
  IN  /\ c # None
      /\ toMachine[c] # <<>>
      /\ acked' = IF Head(toMachine[c]) = acked[m] + 1
                  THEN [acked EXCEPT ![m] = @ + 1]
                  ELSE acked
      /\ toMachine' = [toMachine EXCEPT ![c] = Tail(@)]
      /\ UNCHANGED <<link, owner, sentOn, extra, toRelay, relayVars>>

(* The host closes or loses its connection; the relay does not know yet.   *)
Drop(m) ==
  /\ link[m] # None
  /\ link' = [link EXCEPT ![m] = None]
  /\ toMachine' = [toMachine EXCEPT ![link[m]] = <<>>]
  /\ UNCHANGED <<acked, owner, sentOn, extra, toRelay, relayVars>>

-----------------------------------------------------------------------------
(* The relay *)

(* A host connects: on_connection and on_tcp_connection(client, 1) *)
Connect(m, c) ==
  /\ link[m] = None
  /\ client[c] = "none"
  /\ \A d \in Conn : d < c => client[d] # "none"
  /\ link' = [link EXCEPT ![m] = c]
  /\ owner' = [owner EXCEPT ![c] = m]
  /\ client' = [client EXCEPT ![c] = "open"]
  /\ acct' = [acct EXCEPT ![c] = None]
  /\ UNCHANGED <<acked, sentOn, extra, toRelay, toMachine, posted, failed>>

(* relay and post for each of these events in turn; nobody looks at what   *)
(* became of the requests.                                                 *)
Relay(c, a, events) ==
  /\ posted' = posted \o [i \in DOMAIN events |-> [conn |-> c, acct |-> a, event |-> events[i]]]
  /\ \E lost \in SUBSET (Len(posted) + 1 .. Len(posted')) :
       /\ Cardinality(failed \cup lost) <= MaxFailed
       /\ failed' = failed \cup lost

(* the account under which a packet of c is relayed, and kept for c *)
Acct(c) == IF acct[c] = None THEN owner[c] ELSE acct[c]

AlwaysOnline(c, pkt) ==   \* mutant: every packet announces the host
  <<ONLINE>> \o (IF pkt.event # 0 THEN <<pkt.event>> ELSE <<>>)

FirstNotRelayed(c, pkt) ==   \* mutant: the packet that announces is not relayed
  IF acct[c] = None THEN <<ONLINE>>
  ELSE IF pkt.event # 0 THEN <<pkt.event>> ELSE <<>>

(* what a packet has relayed: its event only under an account, which the   *)
(* hosts here have                                                         *)
ToPost(c, pkt) ==
  (IF acct[c] = None THEN <<ONLINE>> ELSE <<>>)
    \o (IF pkt.event # 0 /\ Acct(c) # None THEN <<pkt.event>> ELSE <<>>)

NextSeq(pkt) == pkt.event + 1   \* mutant: the ACK bears the next seq

AckSeq(pkt) == pkt.event

(* on_tcp_parse for the ids it answers *)
OnReport(c) ==
  LET pkt == Head(toRelay[c])
  IN  /\ client[c] = "open"
      /\ toRelay[c] # <<>>
      /\ pkt.id \in {"NULL", "ADM-CID"}
      /\ acct' = [acct EXCEPT ![c] = Acct(c)]
      /\ Relay(c, Acct(c), ToPost(c, pkt))
      /\ toMachine' = IF link[owner[c]] = c
                      THEN [toMachine EXCEPT ![c] = Append(@, AckSeq(pkt))]
                      ELSE toMachine
      /\ toRelay' = [toRelay EXCEPT ![c] = Tail(@)]
      /\ UNCHANGED <<machineVars, owner, sentOn, extra, client>>

(* on_tcp_parse for the other ids *)
OnOther(c) ==
  /\ client[c] = "open"
  /\ toRelay[c] # <<>>
  /\ Head(toRelay[c]).id \notin {"NULL", "ADM-CID"}
  /\ toRelay' = [toRelay EXCEPT ![c] = Tail(@)]
  /\ UNCHANGED <<machineVars, owner, sentOn, extra, toMachine, relayVars>>

(* on_read with nread < 0, after the host has gone; what it had sent may   *)
(* still be unread when the connection was reset.                          *)
ReadEof(c) ==
  /\ client[c] = "open"
  /\ link[owner[c]] # c
  /\ client' = [client EXCEPT ![c] = "closing"]
  /\ toRelay' = [toRelay EXCEPT ![c] = <<>>]
  /\ UNCHANGED <<machineVars, owner, sentOn, extra, toMachine, acct, posted, failed>>

(* on_close and on_tcp_connection(client, 0), in a later phase of the loop *)
OnClose(c) ==
  /\ client[c] = "closing"
  /\ client' = [client EXCEPT ![c] = "closed"]
  /\ Relay(c, acct[c], IF acct[c] = None THEN <<>> ELSE <<OFFLINE>>)
  /\ UNCHANGED <<machineVars, netVars, acct>>

-----------------------------------------------------------------------------
Next ==
  \/ \E m \in Machine : Report(m) \/ SendExtra(m) \/ Hear(m) \/ Drop(m)
  \/ \E m \in Machine, c \in Conn : Connect(m, c)
  \/ \E c \in Conn : OnReport(c) \/ OnOther(c) \/ ReadEof(c) \/ OnClose(c)

Spec == Init /\ [][Next]_httpVars

(* The loop runs its callbacks (a request takes at most three seconds),    *)
(* TCP brings what was sent over a connection that lives, and a host that  *)
(* is connected reports what it has to report.                             *)
FairSpec ==
  /\ Spec
  /\ \A m \in Machine : WF_httpVars(Report(m)) /\ WF_httpVars(Hear(m))
  /\ \A c \in Conn :
       /\ WF_httpVars(OnReport(c) \/ OnOther(c))
       /\ WF_httpVars(ReadEof(c))
       /\ WF_httpVars(OnClose(c))

-----------------------------------------------------------------------------
(* The places in posted of what was posted for a connection, or of an      *)
(* event of a host                                                         *)
PostsOf(c) == {i \in DOMAIN posted : posted[i].conn = c}

Posts(m, e) == {i \in DOMAIN posted : posted[i].acct = m /\ posted[i].event = e}

(* What the HTTP server is asked to record of a connection is ONLINE, then *)
(* events that never go backwards, then OFFLINE if and only if the         *)
(* connection is closed, all for the host that made it (on_tcp_parse's and *)
(* on_tcp_connection's use of machine_info_t.acct).                        *)
SessionWellFormed ==
  \A c \in Conn :
    /\ \A i \in PostsOf(c) :
         /\ posted[i].acct = owner[c]
         /\ posted[i].event = ONLINE <=> \A j \in PostsOf(c) : i <= j
         /\ posted[i].event = OFFLINE =>
              client[c] = "closed" /\ \A j \in PostsOf(c) : j <= i
         /\ posted[i].event \in Events =>
              \A j \in PostsOf(c) :
                i < j /\ posted[j].event \in Events =>
                  posted[i].event <= posted[j].event
    /\ client[c] = "closed" /\ PostsOf(c) # {} =>
         \E i \in PostsOf(c) : posted[i].event = OFFLINE

(* A host that hears the ACK of an event stops repeating it; by then its   *)
(* event has been put to the HTTP server, on whichever connection          *)
(* (on_tcp_parse relays before it acknowledges).                           *)
AckedWasPosted ==
  \A m \in Machine : \A e \in 1 .. acked[m] : Posts(m, e) # {}

(* Repetitions and old connections may post an event again, out of order,  *)
(* but the first post of an event comes after the first of those before.   *)
FirstPostsInOrder ==
  \A m \in Machine : \A e \in Events :
    e > 1 => \A i \in Posts(m, e) : \E j \in Posts(m, e - 1) : j < i

(* While a host stays connected, all it has to report is acknowledged.     *)
ReportsAcknowledged ==
  \A m \in Machine :
    (link[m] # None) ~> (link[m] = None \/ acked[m] = MaxEvents)

(* docs/README.md:43: an ACK with the seq of an event says that the event  *)
(* was handled, so the HTTP server has got it.                             *)
AckMeansHandled ==
  \A m \in Machine : \A e \in 1 .. acked[m] : \E i \in Posts(m, e) : i \notin failed

=============================================================================
