--------------------------- MODULE HttpRelay_proofs ---------------------------
(***************************************************************************)
(* Proofs about HttpRelay, for any hosts, connections and bounds.          *)
(*                                                                         *)
(* What a host hears acknowledged was posted because it was posted when    *)
(* the ACK was written (AcksPosted); a host sends event e only when e - 1  *)
(* was acknowledged, so that e - 1 is posted before e arrives (InOrder);   *)
(* what a connection carries never goes backwards, and neither does what   *)
(* is posted for it (InOrder, SessionWellFormed).                          *)
(***************************************************************************)
EXTENDS HttpRelay, SequenceTheorems, TLAPS

(* A host uses the connection it has made. *)
LinkOwned == \A m \in Machine : link[m] # None => owner[link[m]] = m

(* A connection nobody has made has carried nothing. *)
NoneUnused ==
  \A c \in Conn :
    /\ owner[c] = None <=> client[c] = "none"
    /\ client[c] = "none" =>
         /\ acct[c] = None
         /\ toRelay[c] = <<>>
         /\ toMachine[c] = <<>>
         /\ sentOn[c] = 0

(* The relay knows the host of a connection once it has posted for it. *)
AcctKnown ==
  \A c \in Conn :
    /\ acct[c] \in {None, owner[c]}
    /\ acct[c] = None <=> PostsOf(c) = {}

(* An ACK is on its way only for what was posted. *)
AcksPosted ==
  \A c \in Conn : \A i \in 1 .. Len(toMachine[c]) :
    toMachine[c][i] # 0 => Posts(owner[c], toMachine[c][i]) # {}

(* The event e may come next on c: nothing later was posted for c, and the *)
(* event before it was posted on some connection of the host.              *)
MayFollow(c, e) ==
  /\ e > 1 => Posts(owner[c], e - 1) # {}
  /\ \A p \in PostsOf(c) : posted[p].event \in Events => posted[p].event <= e

(* Events on their way are in order, and may follow what was posted. *)
InOrder ==
  \A c \in Conn :
    /\ sentOn[c] # 0 => MayFollow(c, sentOn[c])
    /\ sentOn[c] = 0 => \A p \in PostsOf(c) : posted[p].event \notin Events
    /\ \A i \in 1 .. Len(toRelay[c]) :
         toRelay[c][i].event # 0 =>
           /\ toRelay[c][i].event <= sentOn[c]
           /\ MayFollow(c, toRelay[c][i].event)
           /\ \A j \in 1 .. Len(toRelay[c]) :
                i < j /\ toRelay[c][j].event # 0 =>
                  toRelay[c][i].event <= toRelay[c][j].event

(* The inductive invariant *)
IInv ==
  /\ TypeOK
  /\ LinkOwned
  /\ NoneUnused
  /\ AcctKnown
  /\ AcksPosted
  /\ InOrder
  /\ AckedWasPosted
  /\ FirstPostsInOrder
  /\ SessionWellFormed

-----------------------------------------------------------------------------
(* Sequences as the network uses them *)

LEMMA AppendAt ==
  ASSUME NEW S, NEW s \in Seq(S), NEW x \in S
  PROVE  /\ Append(s, x) \in Seq(S)
         /\ Len(Append(s, x)) = Len(s) + 1
         /\ Len(s) \in Nat
         /\ \A i \in 1 .. Len(s) : Append(s, x)[i] = s[i]
         /\ Append(s, x)[Len(s) + 1] = x
OBVIOUS

LEMMA TailAt ==
  ASSUME NEW S, NEW s \in Seq(S), s # <<>>
  PROVE  /\ Tail(s) \in Seq(S)
         /\ Len(Tail(s)) = Len(s) - 1
         /\ Len(s) \in Nat \ {0}
         /\ \A i \in 1 .. Len(s) - 1 : Tail(s)[i] = s[i + 1]
         /\ Head(s) = s[1]
         /\ s[1] \in S
OBVIOUS

LEMMA EmptyAt ==
  \A S : <<>> \in Seq(S) /\ Len(<<>>) = 0
OBVIOUS

-----------------------------------------------------------------------------
LEMMA InitIInv == Init => IInv
<1> SUFFICES ASSUME Init PROVE IInv
  OBVIOUS
<1>1. TypeOK
  <2>1. /\ toRelay \in [Conn -> Seq(Packet)]
        /\ toMachine \in [Conn -> Seq(0 .. MaxEvents)]
        /\ posted \in Seq(Post)
    BY EmptyAt, Zenon DEF Init
  <2>2. failed \subseteq DOMAIN posted
    BY DEF Init
  <2>3. 0 \in 0 .. MaxEvents /\ 0 \in 0 .. MaxExtra
    BY RelayAssumption
  <2>4. QED BY <2>1, <2>2, <2>3 DEF Init, TypeOK
<1>2. posted = <<>> /\ DOMAIN posted = {}
  BY DEF Init
<1>3. /\ \A c : PostsOf(c) = {}
      /\ \A m, e : Posts(m, e) = {}
  BY <1>2 DEF PostsOf, Posts
<1>4. LinkOwned /\ NoneUnused
  BY DEF Init, LinkOwned, NoneUnused
<1>5. AcctKnown /\ SessionWellFormed
  BY <1>3 DEF Init, AcctKnown, SessionWellFormed
<1>6. AcksPosted /\ InOrder /\ AckedWasPosted /\ FirstPostsInOrder
  <2>1. \A c \in Conn : toRelay[c] = <<>> /\ toMachine[c] = <<>> /\ sentOn[c] = 0
    BY DEF Init
  <2>2. AcksPosted
    BY <2>1 DEF AcksPosted
  <2>3. InOrder
    BY <1>3, <2>1 DEF InOrder
  <2>4. AckedWasPosted /\ FirstPostsInOrder
    BY <1>3 DEF Init, AckedWasPosted, FirstPostsInOrder
  <2>5. QED BY <2>2, <2>3, <2>4
<1>7. QED BY <1>1, <1>4, <1>5, <1>6 DEF IInv

-----------------------------------------------------------------------------
(* What is said of posted stays true while nothing is posted. *)
LEMMA Unposted ==
  ASSUME UNCHANGED posted
  PROVE  /\ \A c : PostsOf(c)' = PostsOf(c)
         /\ \A m, e : Posts(m, e)' = Posts(m, e)
BY DEF PostsOf, Posts

(* A host sends a packet: the next event, or the outstanding one again, or *)
(* none. *)
LEMMA Sending ==
  ASSUME IInv, NEW m \in Machine, NEW c \in Conn, c = link[m],
         NEW id \in Ids, NEW e \in 0 .. MaxEvents, SendPacket(c, id, e),
         sentOn' \in [Conn -> 0 .. MaxEvents],
         extra' \in [Conn -> 0 .. MaxExtra],
         \A d \in Conn : d # c => sentOn'[d] = sentOn[d],
         e = 0 => sentOn'[c] = sentOn[c],
         e # 0 => /\ e = acked[m] + 1
                  /\ sentOn'[c] = e
                  /\ sentOn[c] <= e,
         UNCHANGED <<machineVars, owner, toMachine, relayVars>>
  PROVE  IInv'
<1> USE DEF machineVars, relayVars
<1> DEFINE pkt == [id |-> id, event |-> e]
<1>0. TypeOK /\ LinkOwned /\ NoneUnused /\ AcctKnown /\ AcksPosted /\ InOrder
      /\ AckedWasPosted /\ FirstPostsInOrder /\ SessionWellFormed
  BY DEF IInv
<1>1. /\ toRelay \in [Conn -> Seq(Packet)]
      /\ toRelay[c] \in Seq(Packet)
      /\ pkt \in Packet
  BY <1>0 DEF TypeOK, Packet
<1>2. /\ toRelay' = [toRelay EXCEPT ![c] = Append(toRelay[c], pkt)]
      /\ toRelay'[c] = Append(toRelay[c], pkt)
      /\ \A d \in Conn : d # c => toRelay'[d] = toRelay[d]
  BY <1>1 DEF SendPacket
<1>3. /\ Append(toRelay[c], pkt) \in Seq(Packet)
      /\ Len(Append(toRelay[c], pkt)) = Len(toRelay[c]) + 1
      /\ Len(toRelay[c]) \in Nat
      /\ \A i \in 1 .. Len(toRelay[c]) : Append(toRelay[c], pkt)[i] = toRelay[c][i]
      /\ Append(toRelay[c], pkt)[Len(toRelay[c]) + 1] = pkt
  <2> HIDE DEF pkt
  <2>1. toRelay[c] \in Seq(Packet) /\ pkt \in Packet
    BY <1>1
  <2> QED BY <2>1, AppendAt
<1>4. /\ \A d : PostsOf(d)' = PostsOf(d)
      /\ \A n, f : Posts(n, f)' = Posts(n, f)
  BY Unposted
<1>5. TypeOK'
  <2>1. toRelay' \in [Conn -> Seq(Packet)]
    <3> HIDE DEF pkt
    <3> QED BY <1>1, <1>2, <1>3
  <2> QED BY <1>0, <2>1 DEF TypeOK
<1>6. owner[c] = m /\ client[c] # "none"
  <2>1. owner[c] = m
    BY <1>0, RelayAssumption DEF LinkOwned
  <2>2. m # None
    BY RelayAssumption
  <2> QED BY <1>0, <2>1, <2>2 DEF NoneUnused
<1>7. LinkOwned' /\ AcctKnown' /\ AcksPosted' /\ AckedWasPosted'
      /\ FirstPostsInOrder' /\ SessionWellFormed'
  BY <1>0, <1>4 DEF LinkOwned, AcctKnown, AcksPosted, AckedWasPosted,
     FirstPostsInOrder, SessionWellFormed
<1>8. NoneUnused'
  BY <1>0, <1>2, <1>6 DEF NoneUnused
<1>9. InOrder'
  <2>0. \A d, f : MayFollow(d, f)' <=> MayFollow(d, f)
    BY <1>4 DEF MayFollow
  <2>1. /\ acked[m] \in Nat /\ MaxEvents \in Nat
        /\ \A d \in Conn : sentOn[d] \in Nat
    BY <1>0, RelayAssumption DEF TypeOK
  <2>2. e # 0 => MayFollow(c, e)
    <3> SUFFICES ASSUME e # 0 PROVE MayFollow(c, e)
      OBVIOUS
    <3>1. e > 1 => Posts(owner[c], e - 1) # {}
      BY <1>0, <1>6, <2>1 DEF AckedWasPosted
    <3>2. ASSUME NEW p \in PostsOf(c), posted[p].event \in Events
          PROVE  posted[p].event <= e
      <4>1. posted[p].event \in Nat
        BY <3>2, <2>1 DEF Events
      <4>2. sentOn[c] # 0 => posted[p].event <= sentOn[c]
        BY <1>0, <3>2 DEF InOrder, MayFollow
      <4>3. sentOn[c] # 0
        BY <1>0, <3>2 DEF InOrder
      <4> QED BY <2>1, <4>1, <4>2, <4>3
    <3> QED BY <3>1, <3>2 DEF MayFollow
  <2>3. ASSUME NEW d \in Conn, d # c
        PROVE  /\ sentOn'[d] = sentOn[d] /\ toRelay'[d] = toRelay[d]
    BY <1>2, <2>3
  <2>4. /\ sentOn'[c] # 0 => MayFollow(c, sentOn'[c])
        /\ sentOn'[c] = 0 => \A p \in PostsOf(c) : posted[p].event \notin Events
    BY <1>0, <2>2 DEF InOrder
  <2>5. ASSUME NEW i \in 1 .. Len(toRelay'[c]), toRelay'[c][i].event # 0
        PROVE  /\ toRelay'[c][i].event <= sentOn'[c]
               /\ MayFollow(c, toRelay'[c][i].event)
               /\ \A j \in 1 .. Len(toRelay'[c]) :
                    i < j /\ toRelay'[c][j].event # 0 =>
                      toRelay'[c][i].event <= toRelay'[c][j].event
    <3>1. ASSUME NEW j \in 1 .. Len(toRelay[c])
          PROVE  toRelay[c][j].event \in Nat
      <4>1. toRelay[c][j] \in Packet
        BY <1>1
      <4> QED BY <2>1, <4>1 DEF Packet
    <3>2. CASE i = Len(toRelay[c]) + 1
      <4>1. toRelay'[c][i].event = e
        BY <1>2, <1>3, <3>2
      <4>2. \A j \in 1 .. Len(toRelay'[c]) : ~ i < j
        BY <1>2, <1>3, <3>2
      <4> QED BY <2>2, <2>5, <4>1, <4>2
    <3>3. CASE i # Len(toRelay[c]) + 1
      <4>1. i \in 1 .. Len(toRelay[c])
        BY <1>2, <1>3, <3>3
      <4>2. toRelay'[c][i].event = toRelay[c][i].event
        BY <1>2, <1>3, <4>1
      <4>3. /\ toRelay[c][i].event <= sentOn[c]
            /\ MayFollow(c, toRelay[c][i].event)
            /\ \A j \in 1 .. Len(toRelay[c]) :
                 i < j /\ toRelay[c][j].event # 0 =>
                   toRelay[c][i].event <= toRelay[c][j].event
        BY <1>0, <2>5, <4>1, <4>2 DEF InOrder
      <4>4. sentOn[c] <= sentOn'[c]
        BY <2>1
      <4>5. toRelay[c][i].event <= sentOn'[c]
        BY <2>1, <3>1, <4>1, <4>3, <4>4
      <4>6. ASSUME NEW j \in 1 .. Len(toRelay'[c]), i < j, toRelay'[c][j].event # 0
            PROVE  toRelay[c][i].event <= toRelay'[c][j].event
        <5>1. CASE j = Len(toRelay[c]) + 1
          <6>1. toRelay'[c][j].event = e
            BY <1>2, <1>3, <5>1
          <6>2. e = sentOn'[c]
            BY <4>6, <6>1
          <6> QED BY <4>5, <6>1, <6>2
        <5>2. CASE j # Len(toRelay[c]) + 1
          <6>1. j \in 1 .. Len(toRelay[c])
            BY <1>2, <1>3, <5>2
          <6>2. toRelay'[c][j].event = toRelay[c][j].event
            BY <1>2, <1>3, <6>1
          <6> QED BY <4>3, <4>6, <6>1, <6>2
        <5> QED BY <5>1, <5>2
      <4> QED BY <4>2, <4>3, <4>5, <4>6
    <3> QED BY <3>2, <3>3
  <2> QED
    BY <1>0, <1>4, <2>0, <2>3, <2>4, <2>5 DEF InOrder
<1> QED
  BY <1>5, <1>7, <1>8, <1>9 DEF IInv

(* The counters of a host that has a connection *)
LEMMA HostTypes ==
  ASSUME TypeOK, NEW m \in Machine, link[m] # None
  PROVE  /\ link[m] \in Conn
         /\ acked[m] \in 0 .. MaxEvents
         /\ sentOn[link[m]] \in 0 .. MaxEvents
         /\ extra[link[m]] \in 0 .. MaxExtra
         /\ toMachine[link[m]] \in Seq(0 .. MaxEvents)
<1>1. link[m] \in Conn
  BY DEF TypeOK
<1>2. acked[m] \in 0 .. MaxEvents
  BY DEF TypeOK
<1>3. \A d \in Conn : /\ sentOn[d] \in 0 .. MaxEvents
                     /\ extra[d] \in 0 .. MaxExtra
                     /\ toMachine[d] \in Seq(0 .. MaxEvents)
  BY DEF TypeOK
<1> QED BY <1>1, <1>2, <1>3

LEMMA ReportStep ==
  ASSUME IInv, NEW m \in Machine, Report(m)
  PROVE  IInv'
<1> DEFINE c == link[m]
           e == acked[m] + 1
<1>0. TypeOK
  BY DEF IInv
<1>1. c \in Conn /\ acked[m] \in 0 .. MaxEvents /\ sentOn[c] \in 0 .. MaxEvents
      /\ MaxEvents \in Nat
  BY <1>0, HostTypes, RelayAssumption DEF Report
<1>2. e \in 0 .. MaxEvents /\ e # 0 /\ sentOn[c] <= e
  BY <1>1 DEF Report
<1>3. /\ SendPacket(c, "ADM-CID", e)
      /\ sentOn' = [sentOn EXCEPT ![c] = e]
      /\ UNCHANGED <<machineVars, owner, extra, toMachine, relayVars>>
  BY DEF Report
<1>4. /\ sentOn' \in [Conn -> 0 .. MaxEvents]
      /\ sentOn'[c] = e
      /\ \A d \in Conn : d # c => sentOn'[d] = sentOn[d]
      /\ extra' \in [Conn -> 0 .. MaxExtra]
  <2> HIDE DEF c, e
  <2> QED BY <1>0, <1>1, <1>2, <1>3 DEF TypeOK
<1>5. "ADM-CID" \in Ids
  BY DEF Ids
<1> QED
  BY <1>1, <1>2, <1>3, <1>4, <1>5, Sending

LEMMA SendExtraStep ==
  ASSUME IInv, NEW m \in Machine, SendExtra(m)
  PROVE  IInv'
<1> DEFINE c == link[m]
<1>0. TypeOK
  BY DEF IInv
<1>1. c \in Conn /\ acked[m] \in 0 .. MaxEvents /\ sentOn[c] \in 0 .. MaxEvents
      /\ MaxEvents \in Nat /\ extra[c] \in 0 .. MaxExtra /\ MaxExtra \in Nat
  BY <1>0, HostTypes, RelayAssumption DEF SendExtra
<1>2. PICK id \in Ids, e \in 0 .. MaxEvents :
        SendPacket(c, id, e) /\ (e # 0 => e = acked[m] + 1 /\ e = sentOn[c])
  BY <1>1 DEF SendExtra, Ids
<1>3. /\ sentOn' = sentOn
      /\ extra' = [extra EXCEPT ![c] = @ + 1] /\ extra[c] < MaxExtra
      /\ UNCHANGED <<machineVars, owner, toMachine, relayVars>>
  BY DEF SendExtra
<1>4. /\ sentOn' \in [Conn -> 0 .. MaxEvents]
      /\ \A d \in Conn : d # c => sentOn'[d] = sentOn[d]
      /\ sentOn'[c] = sentOn[c]
      /\ extra' \in [Conn -> 0 .. MaxExtra]
  <2> HIDE DEF c
  <2> QED BY <1>0, <1>1, <1>3 DEF TypeOK
<1>5. e # 0 => sentOn[c] <= e /\ sentOn'[c] = e
  BY <1>1, <1>2, <1>4
<1> QED
  BY <1>1, <1>2, <1>3, <1>4, <1>5, Sending

(* What is left of a sequence of ACKs is still posted. *)
LEMMA AcksAfterTail ==
  ASSUME TypeOK, AcksPosted, NEW c \in Conn, toMachine[c] # <<>>
  PROVE  /\ Tail(toMachine[c]) \in Seq(0 .. MaxEvents)
         /\ Head(toMachine[c]) \in 0 .. MaxEvents
         /\ Head(toMachine[c]) # 0 => Posts(owner[c], Head(toMachine[c])) # {}
         /\ \A i \in 1 .. Len(Tail(toMachine[c])) :
              Tail(toMachine[c])[i] # 0 =>
                Posts(owner[c], Tail(toMachine[c])[i]) # {}
<1> DEFINE s == toMachine[c]
<1>1. s \in Seq(0 .. MaxEvents) /\ s # <<>>
  BY DEF TypeOK
<1>2. \A i \in 1 .. Len(s) : s[i] # 0 => Posts(owner[c], s[i]) # {}
  BY DEF AcksPosted
<1> HIDE DEF s
<1>3. /\ Tail(s) \in Seq(0 .. MaxEvents)
      /\ Len(Tail(s)) = Len(s) - 1
      /\ Len(s) \in Nat \ {0}
      /\ \A i \in 1 .. Len(s) - 1 : Tail(s)[i] = s[i + 1]
      /\ Head(s) = s[1]
      /\ s[1] \in 0 .. MaxEvents
  BY <1>1, TailAt
<1>4. ASSUME NEW i \in 1 .. Len(Tail(s)), Tail(s)[i] # 0
      PROVE  Posts(owner[c], Tail(s)[i]) # {}
  <2>1. i + 1 \in 1 .. Len(s) /\ Tail(s)[i] = s[i + 1]
    BY <1>3
  <2> QED BY <1>2, <1>4, <2>1
<1>5. Head(s) # 0 => Posts(owner[c], Head(s)) # {}
  <2>1. 1 \in 1 .. Len(s)
    BY <1>3
  <2> QED BY <1>2, <1>3, <2>1
<1> QED BY <1>3, <1>4, <1>5 DEF s

LEMMA HearStep ==
  ASSUME IInv, NEW m \in Machine, Hear(m)
  PROVE  IInv'
<1> DEFINE c == link[m]
<1>0. TypeOK /\ LinkOwned /\ NoneUnused /\ AcctKnown /\ AcksPosted /\ InOrder
      /\ AckedWasPosted /\ FirstPostsInOrder /\ SessionWellFormed
  BY DEF IInv
<1>1. /\ c \in Conn /\ c # None /\ acked[m] \in 0 .. MaxEvents
      /\ toMachine[c] \in Seq(0 .. MaxEvents) /\ toMachine[c] # <<>>
      /\ MaxEvents \in Nat
  BY <1>0, HostTypes, RelayAssumption DEF Hear
<1>2. owner[c] = m
  BY <1>0, <1>1 DEF LinkOwned
<1>3. /\ toMachine' = [toMachine EXCEPT ![c] = Tail(toMachine[c])]
      /\ acked' = IF Head(toMachine[c]) = acked[m] + 1
                  THEN [acked EXCEPT ![m] = acked[m] + 1]
                  ELSE acked
      /\ UNCHANGED <<link, owner, sentOn, extra, toRelay, client, acct, posted, failed>>
  BY DEF Hear, relayVars
<1>4. /\ Tail(toMachine[c]) \in Seq(0 .. MaxEvents)
      /\ Head(toMachine[c]) \in 0 .. MaxEvents
      /\ Head(toMachine[c]) # 0 => Posts(owner[c], Head(toMachine[c])) # {}
      /\ \A i \in 1 .. Len(Tail(toMachine[c])) :
           Tail(toMachine[c])[i] # 0 => Posts(owner[c], Tail(toMachine[c])[i]) # {}
  <2> HIDE DEF c
  <2> QED BY <1>0, <1>1, AcksAfterTail
<1> HIDE DEF c
<1>5. /\ \A d : PostsOf(d)' = PostsOf(d)
      /\ \A n, f : Posts(n, f)' = Posts(n, f)
  BY <1>3, Unposted
<1>6. toMachine \in [Conn -> Seq(0 .. MaxEvents)] /\ acked \in [Machine -> 0 .. MaxEvents]
  BY <1>0 DEF TypeOK
<1>7. /\ toMachine' \in [Conn -> Seq(0 .. MaxEvents)]
      /\ toMachine'[c] = Tail(toMachine[c])
      /\ \A d \in Conn : d # c => toMachine'[d] = toMachine[d]
  BY <1>1, <1>3, <1>4, <1>6
<1>8. acked' \in [Machine -> 0 .. MaxEvents]
  BY <1>1, <1>3, <1>4, <1>6
<1>9. TypeOK'
  BY <1>0, <1>3, <1>7, <1>8 DEF TypeOK
<1>10. LinkOwned' /\ AcctKnown' /\ InOrder' /\ FirstPostsInOrder' /\ SessionWellFormed'
  BY <1>0, <1>3, <1>5 DEF LinkOwned, AcctKnown, InOrder, MayFollow,
     FirstPostsInOrder, SessionWellFormed
<1>11. NoneUnused'
  BY <1>0, <1>1, <1>3, <1>7 DEF NoneUnused
<1>12. AcksPosted'
  BY <1>0, <1>3, <1>4, <1>5, <1>7 DEF AcksPosted
<1>13. AckedWasPosted'
  <2> SUFFICES ASSUME NEW n \in Machine, NEW e \in 1 .. acked'[n]
               PROVE  Posts(n, e) # {}
    BY <1>5 DEF AckedWasPosted
  <2>1. CASE e \in 1 .. acked[n]
    BY <1>0, <2>1 DEF AckedWasPosted
  <2>2. CASE e \notin 1 .. acked[n]
    <3>1. acked[n] \in Nat
      BY <1>6
    <3>2. n = m /\ e = acked[m] + 1 /\ Head(toMachine[c]) = e
      BY <1>1, <1>3, <1>6, <2>2, <3>1
    <3> QED BY <1>1, <1>2, <1>4, <3>2
  <2> QED BY <2>1, <2>2
<1> QED
  BY <1>9, <1>10, <1>11, <1>12, <1>13 DEF IInv

LEMMA DropStep ==
  ASSUME IInv, NEW m \in Machine, Drop(m)
  PROVE  IInv'
<1> DEFINE c == link[m]
<1>0. TypeOK /\ LinkOwned /\ NoneUnused /\ AcctKnown /\ AcksPosted /\ InOrder
      /\ AckedWasPosted /\ FirstPostsInOrder /\ SessionWellFormed
  BY DEF IInv
<1>1. c \in Conn /\ link \in [Machine -> Conn \cup {None}]
      /\ toMachine \in [Conn -> Seq(0 .. MaxEvents)]
  BY <1>0 DEF TypeOK, Drop
<1>2. /\ link' = [link EXCEPT ![m] = None]
      /\ toMachine' = [toMachine EXCEPT ![c] = <<>>]
      /\ UNCHANGED <<acked, owner, sentOn, extra, toRelay, client, acct, posted, failed>>
  BY DEF Drop, relayVars
<1> HIDE DEF c
<1>3. /\ \A d : PostsOf(d)' = PostsOf(d)
      /\ \A n, f : Posts(n, f)' = Posts(n, f)
  BY <1>2, Unposted
<1>4. <<>> \in Seq(0 .. MaxEvents) /\ Len(<<>>) = 0
  BY EmptyAt
<1>5. TypeOK'
  BY <1>0, <1>1, <1>2, <1>4 DEF TypeOK
<1>6. LinkOwned'
  BY <1>0, <1>1, <1>2 DEF LinkOwned
<1>7. AcctKnown' /\ InOrder' /\ FirstPostsInOrder' /\ SessionWellFormed' /\ AckedWasPosted'
  BY <1>0, <1>2, <1>3 DEF AcctKnown, InOrder, MayFollow,
     FirstPostsInOrder, SessionWellFormed, AckedWasPosted
<1>8. NoneUnused'
  BY <1>0, <1>1, <1>2 DEF NoneUnused
<1>9. AcksPosted'
  <2>1. /\ toMachine'[c] = <<>>
        /\ \A d \in Conn : d # c => toMachine'[d] = toMachine[d]
    BY <1>1, <1>2
  <2>2. \A i \in 1 .. Len(toMachine'[c]) : FALSE
    BY <2>1, <1>4
  <2> QED BY <1>0, <1>2, <1>3, <2>1, <2>2 DEF AcksPosted
<1> QED
  BY <1>5, <1>6, <1>7, <1>8, <1>9 DEF IInv

LEMMA ConnectStep ==
  ASSUME IInv, NEW m \in Machine, NEW c \in Conn, Connect(m, c)
  PROVE  IInv'
<1>0. TypeOK /\ LinkOwned /\ NoneUnused /\ AcctKnown /\ AcksPosted /\ InOrder
      /\ AckedWasPosted /\ FirstPostsInOrder /\ SessionWellFormed
  BY DEF IInv
<1>1. /\ link \in [Machine -> Conn \cup {None}]
      /\ owner \in [Conn -> Machine \cup {None}]
      /\ client \in [Conn -> {"none", "open", "closing", "closed"}]
      /\ acct \in [Conn -> Machine \cup {None}]
  BY <1>0 DEF TypeOK
<1>2. /\ client[c] = "none"
      /\ link' = [link EXCEPT ![m] = c]
      /\ owner' = [owner EXCEPT ![c] = m]
      /\ client' = [client EXCEPT ![c] = "open"]
      /\ acct' = [acct EXCEPT ![c] = None]
      /\ UNCHANGED <<acked, sentOn, extra, toRelay, toMachine, posted, failed>>
  BY DEF Connect
<1>3. None \notin Machine /\ None \notin Conn
  BY RelayAssumption
<1>4. /\ owner[c] = None /\ acct[c] = None /\ toRelay[c] = <<>>
      /\ toMachine[c] = <<>> /\ sentOn[c] = 0 /\ PostsOf(c) = {}
  BY <1>0, <1>2 DEF NoneUnused, AcctKnown
<1>5. /\ \A d : PostsOf(d)' = PostsOf(d)
      /\ \A n, f : Posts(n, f)' = Posts(n, f)
  BY <1>2, Unposted
<1>6. /\ owner'[c] = m /\ client'[c] = "open" /\ acct'[c] = None
      /\ \A d \in Conn : d # c => /\ owner'[d] = owner[d]
                                /\ client'[d] = client[d]
                                /\ acct'[d] = acct[d]
  BY <1>1, <1>2
<1>7. TypeOK'
  BY <1>0, <1>1, <1>2 DEF TypeOK
<1>8. LinkOwned'
  <2> SUFFICES ASSUME NEW n \in Machine, link'[n] # None
               PROVE  owner'[link'[n]] = n
    BY DEF LinkOwned
  <2>1. CASE n = m
    BY <1>1, <1>2, <1>6, <2>1
  <2>2. CASE n # m
    <3>1. link'[n] = link[n] /\ link[n] \in Conn /\ owner[link[n]] = n
      BY <1>0, <1>1, <1>2, <2>2 DEF LinkOwned
    <3>2. link[n] # c
      BY <1>3, <1>4, <3>1
    <3> QED BY <1>6, <3>1, <3>2
  <2> QED BY <2>1, <2>2
<1>9. NoneUnused'
  BY <1>0, <1>2, <1>3, <1>6 DEF NoneUnused
<1>10. AcctKnown'
  BY <1>0, <1>4, <1>5, <1>6 DEF AcctKnown
<1>11. AcksPosted'
  <2>1. \A i \in 1 .. Len(toMachine[c]) : FALSE
    BY <1>4, EmptyAt
  <2> QED BY <1>0, <1>2, <1>5, <1>6, <2>1 DEF AcksPosted
<1>12. InOrder'
  <2>1. \A i \in 1 .. Len(toRelay[c]) : FALSE
    BY <1>4, EmptyAt
  <2>2. \A d \in Conn : \A f : d # c => (MayFollow(d, f)' <=> MayFollow(d, f))
    BY <1>2, <1>5, <1>6 DEF MayFollow
  <2>3. UNCHANGED <<posted, sentOn, toRelay>>
    BY <1>2
  <2> QED
    BY <1>0, <1>4, <1>5, <2>1, <2>2, <2>3 DEF InOrder
<1>13. FirstPostsInOrder' /\ AckedWasPosted'
  BY <1>0, <1>2, <1>5 DEF FirstPostsInOrder, AckedWasPosted
<1>14. SessionWellFormed'
  BY <1>0, <1>2, <1>4, <1>5, <1>6 DEF SessionWellFormed
<1> QED
  BY <1>7, <1>8, <1>9, <1>10, <1>11, <1>12, <1>13, <1>14 DEF IInv

(* What is left of the packets of a connection is still in order. *)
LEMMA PacketsAfterTail ==
  ASSUME TypeOK, InOrder, NEW c \in Conn, toRelay[c] # <<>>
  PROVE  /\ Tail(toRelay[c]) \in Seq(Packet)
         /\ Head(toRelay[c]) \in Packet
         /\ Head(toRelay[c]).event # 0 =>
              /\ MayFollow(c, Head(toRelay[c]).event)
              /\ Head(toRelay[c]).event <= sentOn[c]
         /\ \A i \in 1 .. Len(Tail(toRelay[c])) :
              Tail(toRelay[c])[i].event # 0 =>
                /\ Tail(toRelay[c])[i].event <= sentOn[c]
                /\ MayFollow(c, Tail(toRelay[c])[i].event)
                /\ Head(toRelay[c]).event # 0 =>
                     Head(toRelay[c]).event <= Tail(toRelay[c])[i].event
                /\ \A j \in 1 .. Len(Tail(toRelay[c])) :
                     i < j /\ Tail(toRelay[c])[j].event # 0 =>
                       Tail(toRelay[c])[i].event <= Tail(toRelay[c])[j].event
<1> DEFINE s == toRelay[c]
<1>1. s \in Seq(Packet) /\ s # <<>>
  BY DEF TypeOK
<1>2. \A i \in 1 .. Len(s) :
        s[i].event # 0 =>
          /\ s[i].event <= sentOn[c]
          /\ MayFollow(c, s[i].event)
          /\ \A j \in 1 .. Len(s) :
               i < j /\ s[j].event # 0 => s[i].event <= s[j].event
  BY DEF InOrder
<1> HIDE DEF s
<1>3. /\ Tail(s) \in Seq(Packet)
      /\ Len(Tail(s)) = Len(s) - 1
      /\ Len(s) \in Nat \ {0}
      /\ \A i \in 1 .. Len(s) - 1 : Tail(s)[i] = s[i + 1]
      /\ Head(s) = s[1]
      /\ s[1] \in Packet
  BY <1>1, TailAt
<1>4. 1 \in 1 .. Len(s)
  BY <1>3
<1>5. Head(s).event # 0 => /\ MayFollow(c, Head(s).event)
                           /\ Head(s).event <= sentOn[c]
  BY <1>2, <1>3, <1>4
<1>6. ASSUME NEW i \in 1 .. Len(Tail(s)), Tail(s)[i].event # 0
      PROVE  /\ Tail(s)[i].event <= sentOn[c]
             /\ MayFollow(c, Tail(s)[i].event)
             /\ Head(s).event # 0 => Head(s).event <= Tail(s)[i].event
             /\ \A j \in 1 .. Len(Tail(s)) :
                  i < j /\ Tail(s)[j].event # 0 =>
                    Tail(s)[i].event <= Tail(s)[j].event
  <2>1. \A j \in 1 .. Len(Tail(s)) :
          j + 1 \in 1 .. Len(s) /\ Tail(s)[j] = s[j + 1] /\ 1 < j + 1
    BY <1>3
  <2>2. i + 1 \in 1 .. Len(s) /\ Tail(s)[i] = s[i + 1] /\ 1 < i + 1
    BY <2>1
  <2>3. \A j \in 1 .. Len(Tail(s)) : i < j => i + 1 < j + 1
    OBVIOUS
  <2> QED BY <1>2, <1>3, <1>4, <1>6, <2>1, <2>2, <2>3
<1> QED BY <1>3, <1>5, <1>6 DEF s

(* The relay takes a packet and posts nothing, or forgets them all. *)
LEMMA TakeStep ==
  ASSUME IInv, NEW c \in Conn, OnOther(c) \/ ReadEof(c)
  PROVE  IInv'
<1>0. TypeOK /\ LinkOwned /\ NoneUnused /\ AcctKnown /\ AcksPosted /\ InOrder
      /\ AckedWasPosted /\ FirstPostsInOrder /\ SessionWellFormed
  BY DEF IInv
<1>1. /\ UNCHANGED <<link, acked, owner, sentOn, extra, toMachine, acct, posted, failed>>
      /\ client[c] = "open"
  BY DEF OnOther, ReadEof, machineVars, relayVars
<1>2. /\ toRelay \in [Conn -> Seq(Packet)]
      /\ client \in [Conn -> {"none", "open", "closing", "closed"}]
  BY <1>0 DEF TypeOK
<1>3. /\ client' \in [Conn -> {"none", "open", "closing", "closed"}]
      /\ client'[c] \in {"open", "closing"}
      /\ \A d \in Conn : d # c => client'[d] = client[d]
  BY <1>1, <1>2 DEF OnOther, ReadEof, relayVars
<1>4. \/ toRelay[c] # <<>> /\ toRelay' = [toRelay EXCEPT ![c] = Tail(toRelay[c])]
      \/ toRelay' = [toRelay EXCEPT ![c] = <<>>]
  BY DEF OnOther, ReadEof
<1>5. /\ \A d : PostsOf(d)' = PostsOf(d)
      /\ \A n, f : Posts(n, f)' = Posts(n, f)
  BY <1>1, Unposted
<1>6. /\ toRelay'[c] \in Seq(Packet)
      /\ \A i \in 1 .. Len(toRelay'[c]) :
           toRelay'[c][i].event # 0 =>
             /\ toRelay'[c][i].event <= sentOn[c]
             /\ MayFollow(c, toRelay'[c][i].event)
             /\ \A j \in 1 .. Len(toRelay'[c]) :
                  i < j /\ toRelay'[c][j].event # 0 =>
                    toRelay'[c][i].event <= toRelay'[c][j].event
  <2>1. CASE toRelay[c] # <<>> /\ toRelay' = [toRelay EXCEPT ![c] = Tail(toRelay[c])]
    <3>1. toRelay'[c] = Tail(toRelay[c])
      BY <1>2, <2>1
    <3> QED BY <1>0, <2>1, <3>1, PacketsAfterTail
  <2>2. CASE toRelay' = [toRelay EXCEPT ![c] = <<>>]
    <3>1. toRelay'[c] = <<>>
      BY <1>2, <2>2
    <3> QED BY <3>1, EmptyAt
  <2> QED BY <1>4, <2>1, <2>2
<1>7. /\ toRelay' \in [Conn -> Seq(Packet)]
      /\ \A d \in Conn : d # c => toRelay'[d] = toRelay[d]
  <2>1. CASE toRelay' = [toRelay EXCEPT ![c] = Tail(toRelay[c])]
    BY <1>2, <1>6, <2>1
  <2>2. CASE toRelay' = [toRelay EXCEPT ![c] = <<>>]
    BY <1>2, <1>6, <2>2
  <2> QED BY <1>4, <2>1, <2>2
<1>8. TypeOK'
  BY <1>0, <1>1, <1>3, <1>7 DEF TypeOK
<1>9. LinkOwned' /\ AcctKnown' /\ AcksPosted' /\ FirstPostsInOrder' /\ AckedWasPosted'
  BY <1>0, <1>1, <1>5 DEF LinkOwned, AcctKnown, AcksPosted, FirstPostsInOrder,
     AckedWasPosted
<1>10. NoneUnused'
  BY <1>0, <1>1, <1>3, <1>7 DEF NoneUnused
<1>11. InOrder'
  <2>1. \A d, f : MayFollow(d, f)' <=> MayFollow(d, f)
    BY <1>1, <1>5 DEF MayFollow
  <2>2. UNCHANGED <<posted, sentOn>>
    BY <1>1
  <2> QED BY <1>0, <1>5, <1>6, <1>7, <2>1, <2>2 DEF InOrder
<1>12. SessionWellFormed'
  <2>1. \A d \in Conn : client'[d] = "closed" <=> client[d] = "closed"
    BY <1>1, <1>3
  <2> QED BY <1>0, <1>1, <1>5, <2>1 DEF SessionWellFormed
<1> QED
  BY <1>8, <1>9, <1>10, <1>11, <1>12 DEF IInv

-----------------------------------------------------------------------------
(* What relay and post leave in posted *)
LEMMA Relayed ==
  ASSUME TypeOK, NEW c \in Conn, NEW a \in Machine,
         NEW events \in Seq(Events \cup {ONLINE, OFFLINE}),
         Relay(c, a, events)
  PROVE  /\ posted' \in Seq(Post)
         /\ failed' \subseteq DOMAIN posted'
         /\ Len(posted) \in Nat /\ Len(events) \in Nat
         /\ Len(posted') = Len(posted) + Len(events)
         /\ \A i \in 1 .. Len(posted) : posted'[i] = posted[i]
         /\ \A i \in Len(posted) + 1 .. Len(posted') :
              posted'[i] = [conn |-> c, acct |-> a, event |-> events[i - Len(posted)]]
<1> DEFINE new == [i \in DOMAIN events |-> [conn |-> c, acct |-> a, event |-> events[i]]]
<1>1. /\ Len(events) \in Nat
      /\ DOMAIN events = 1 .. Len(events)
      /\ \A i \in 1 .. Len(events) : events[i] \in Events \cup {ONLINE, OFFLINE}
  OBVIOUS
<1>2. new \in [1 .. Len(events) -> Post]
  BY <1>1 DEF Post
<1>3. new \in Seq(Post) /\ Len(new) = Len(events)
  <2> HIDE DEF new
  <2>1. new \in Seq(Post)
    BY <1>1, <1>2
  <2> QED BY <1>1, <1>2, <2>1, LenProperties
<1>4. posted \in Seq(Post) /\ Len(posted) \in Nat /\ DOMAIN posted = 1 .. Len(posted)
  BY DEF TypeOK
<1>5. posted' = posted \o new
  BY DEF Relay
<1>6. \A i \in 1 .. Len(events) : new[i] = [conn |-> c, acct |-> a, event |-> events[i]]
  BY <1>1
<1> HIDE DEF new
<1>7. /\ posted \o new \in Seq(Post)
      /\ Len(posted \o new) = Len(posted) + Len(new)
      /\ \A i \in 1 .. Len(posted) + Len(new) :
           (posted \o new)[i] = IF i <= Len(posted) THEN posted[i]
                                ELSE new[i - Len(posted)]
  BY <1>3, <1>4, ConcatProperties
<1>8. posted' \in Seq(Post) /\ Len(posted') = Len(posted) + Len(events)
  BY <1>3, <1>5, <1>7
<1>9. ASSUME NEW i \in 1 .. Len(posted)
      PROVE  posted'[i] = posted[i]
  BY <1>1, <1>3, <1>4, <1>5, <1>7
<1>10. ASSUME NEW i \in Len(posted) + 1 .. Len(posted')
       PROVE  posted'[i] = [conn |-> c, acct |-> a, event |-> events[i - Len(posted)]]
  <2>1. i - Len(posted) \in 1 .. Len(events) /\ i \in 1 .. Len(posted) + Len(new)
        /\ ~ i <= Len(posted)
    BY <1>1, <1>3, <1>4, <1>8
  <2> QED BY <1>5, <1>6, <1>7, <2>1
<1>11. failed' \subseteq DOMAIN posted'
  <2>1. PICK lost \in SUBSET (Len(posted) + 1 .. Len(posted')) : failed' = failed \cup lost
    BY DEF Relay
  <2>2. failed \subseteq 1 .. Len(posted)
    BY <1>4 DEF TypeOK
  <2>3. DOMAIN posted' = 1 .. Len(posted')
    BY <1>8
  <2> QED BY <1>1, <1>4, <1>8, <2>1, <2>2, <2>3
<1> QED BY <1>1, <1>4, <1>8, <1>9, <1>10, <1>11


(* The HTTP events and the numbers of events are distinct. *)
LEMMA EventCodes ==
  /\ ONLINE \notin Events /\ OFFLINE \notin Events /\ ONLINE # OFFLINE
  /\ Events \subseteq Nat \ {0}
  /\ MaxEvents \in Nat
<1>1. MaxEvents \in Nat /\ MaxEvents <= 1943
  BY RelayAssumption
<1> QED BY <1>1 DEF ONLINE, OFFLINE, Events

(* What a packet has relayed: ONLINE if it is the first, then its event. *)
LEMMA ToPostIs ==
  ASSUME NEW c \in Conn, NEW pkt \in Packet, Acct(c) # None
  PROVE  LET n == Len(ToPost(c, pkt))
         IN  /\ ToPost(c, pkt) \in Seq(Events \cup {ONLINE, OFFLINE})
             /\ n \in Nat
             /\ n = 0 <=> acct[c] # None /\ pkt.event = 0
             /\ pkt.event # 0 => pkt.event \in Events /\ ToPost(c, pkt)[n] = pkt.event
             /\ \A i \in 1 .. n :
                  /\ ToPost(c, pkt)[i] = ONLINE <=> acct[c] = None /\ i = 1
                  /\ ToPost(c, pkt)[i] # ONLINE =>
                       ToPost(c, pkt)[i] = pkt.event /\ pkt.event # 0 /\ i = n
<1> DEFINE e == pkt.event
<1>1. e \in 0 .. MaxEvents /\ (e # 0 => e \in Events)
  BY RelayAssumption DEF Packet, Events
<1> HIDE DEF e
<1>2. CASE acct[c] = None /\ e = 0
  <2>1. ToPost(c, pkt) = <<ONLINE>>
    BY <1>2 DEF ToPost, e
  <2> QED BY <1>2, <2>1 DEF e
<1>3. CASE acct[c] = None /\ e # 0
  <2>1. ToPost(c, pkt) = <<ONLINE>> \o <<e>>
    BY <1>3 DEF ToPost, e
  <2>2. <<ONLINE>> \in Seq(Events \cup {ONLINE, OFFLINE})
        /\ <<e>> \in Seq(Events \cup {ONLINE, OFFLINE})
    BY <1>1, <1>3
  <2>3. /\ <<ONLINE>> \o <<e>> \in Seq(Events \cup {ONLINE, OFFLINE})
        /\ Len(<<ONLINE>> \o <<e>>) = 2
        /\ (<<ONLINE>> \o <<e>>)[1] = ONLINE
        /\ (<<ONLINE>> \o <<e>>)[2] = e
    BY <2>2, ConcatProperties
  <2> QED BY <1>1, <1>3, <2>1, <2>3, EventCodes DEF e
<1>4. CASE acct[c] # None /\ e = 0
  <2>1. ToPost(c, pkt) = <<>>
    BY <1>4 DEF ToPost, e
  <2> QED BY <1>4, <2>1 DEF e
<1>5. CASE acct[c] # None /\ e # 0
  <2>1. ToPost(c, pkt) = <<e>>
    BY <1>5 DEF ToPost, e
  <2> QED BY <1>1, <1>5, <2>1, EventCodes DEF e
<1> QED BY <1>2, <1>3, <1>4, <1>5

(* Where what was posted for one connection is found *)
LEMMA Grown ==
  ASSUME TypeOK, posted' \in Seq(Post), NEW c \in Conn, NEW a \in Machine,
         Len(posted) <= Len(posted'),
         \A i \in 1 .. Len(posted) : posted'[i] = posted[i],
         \A i \in Len(posted) + 1 .. Len(posted') :
           posted'[i].conn = c /\ posted'[i].acct = a
  PROVE  /\ PostsOf(c)' = PostsOf(c) \cup (Len(posted) + 1 .. Len(posted'))
         /\ PostsOf(c) \subseteq 1 .. Len(posted)
         /\ \A d \in Conn : d # c => PostsOf(d)' = PostsOf(d)
         /\ \A d \in Conn : \A i \in PostsOf(d) : posted'[i] = posted[i]
         /\ \A m, f : Posts(m, f) \subseteq Posts(m, f)' /\ Posts(m, f) \subseteq 1 .. Len(posted)
         /\ \A m, f : \A i \in Posts(m, f)' :
              \/ i \in Posts(m, f)
              \/ i \in Len(posted) + 1 .. Len(posted') /\ m = a /\ posted'[i].event = f
<1>1. /\ Len(posted) \in Nat /\ Len(posted') \in Nat
      /\ DOMAIN posted = 1 .. Len(posted) /\ DOMAIN posted' = 1 .. Len(posted')
  BY DEF TypeOK
<1>2. 1 .. Len(posted') = (1 .. Len(posted)) \cup (Len(posted) + 1 .. Len(posted'))
  BY <1>1
<1>3. (1 .. Len(posted)) \cap (Len(posted) + 1 .. Len(posted')) = {}
  BY <1>1
<1>4. /\ \A d : PostsOf(d) \subseteq 1 .. Len(posted)
      /\ \A d : \A i \in PostsOf(d) : posted'[i] = posted[i]
  BY <1>1 DEF PostsOf
<1>5. PostsOf(c)' = PostsOf(c) \cup (Len(posted) + 1 .. Len(posted'))
  BY <1>1, <1>2 DEF PostsOf
<1>6. \A d \in Conn : d # c => PostsOf(d)' = PostsOf(d)
  BY <1>1, <1>2 DEF PostsOf
<1>7. \A m, f : Posts(m, f) \subseteq Posts(m, f)' /\ Posts(m, f) \subseteq 1 .. Len(posted)
  BY <1>1, <1>2 DEF Posts
<1>8. ASSUME NEW m, NEW f, NEW i \in Posts(m, f)'
      PROVE  \/ i \in Posts(m, f)
             \/ i \in Len(posted) + 1 .. Len(posted') /\ m = a /\ posted'[i].event = f
  BY <1>1, <1>2 DEF Posts
<1> QED BY <1>4, <1>5, <1>6, <1>7, <1>8


(* The invariants about all hosts, after posts for the connection c *)
LEMMA PostedStep ==
  ASSUME IInv, UNCHANGED <<machineVars, owner, sentOn>>,
         posted' \in Seq(Post), NEW c \in Conn, owner[c] \in Machine,
         NEW e \in 0 .. MaxEvents, e # 0 => MayFollow(c, e),
         Len(posted) <= Len(posted'),
         \A i \in 1 .. Len(posted) : posted'[i] = posted[i],
         \A i \in Len(posted) + 1 .. Len(posted') :
           /\ posted'[i].conn = c /\ posted'[i].acct = owner[c]
           /\ posted'[i].event \in Events => posted'[i].event = e
  PROVE  /\ AckedWasPosted'
         /\ FirstPostsInOrder'
         /\ \A d \in Conn : \A f : d # c /\ MayFollow(d, f) => MayFollow(d, f)'
         /\ \A f \in Nat : MayFollow(c, f) /\ e <= f => MayFollow(c, f)'
<1> DEFINE n == Len(posted)
           m == owner[c]
<1>0. TypeOK /\ AckedWasPosted /\ FirstPostsInOrder
  BY DEF IInv
<1>1. /\ PostsOf(c)' = PostsOf(c) \cup (n + 1 .. Len(posted'))
      /\ PostsOf(c) \subseteq 1 .. n
      /\ \A d \in Conn : d # c => PostsOf(d)' = PostsOf(d)
      /\ \A d \in Conn : \A i \in PostsOf(d) : posted'[i] = posted[i]
      /\ \A h, f : Posts(h, f) \subseteq Posts(h, f)' /\ Posts(h, f) \subseteq 1 .. n
      /\ \A h, f : \A i \in Posts(h, f)' :
           \/ i \in Posts(h, f)
           \/ i \in n + 1 .. Len(posted') /\ h = m /\ posted'[i].event = f
  BY <1>0, Grown
<1>2. n \in Nat
  BY <1>0 DEF TypeOK
<1> HIDE DEF n
<1>3. acked' = acked /\ owner' = owner
  BY DEF machineVars
<1>4. AckedWasPosted'
  BY <1>0, <1>1, <1>3 DEF AckedWasPosted
<1>5. FirstPostsInOrder'
  <2> SUFFICES ASSUME NEW h \in Machine, NEW f \in Events, f > 1, NEW i \in Posts(h, f)'
               PROVE  \E j \in Posts(h, f - 1)' : j < i
    BY DEF FirstPostsInOrder
  <2>1. CASE i \in Posts(h, f)
    BY <1>0, <1>1, <2>1 DEF FirstPostsInOrder
  <2>2. CASE i \in n + 1 .. Len(posted') /\ h = m /\ posted'[i].event = f
    <3>1. f = e /\ e # 0
      BY <2>2, EventCodes DEF n
    <3>2. Posts(m, f - 1) # {}
      BY <3>1 DEF MayFollow
    <3>3. PICK j \in Posts(m, f - 1) : TRUE
      BY <3>2
    <3>4. j \in Posts(h, f - 1)' /\ j \in 1 .. n
      BY <1>1, <2>2, <3>3
    <3>5. j < i
      BY <1>2, <2>2, <3>4
    <3> QED BY <3>4, <3>5
  <2> QED BY <1>1, <2>1, <2>2
<1>6. ASSUME NEW d \in Conn, NEW f, MayFollow(d, f), d # c
      PROVE  MayFollow(d, f)'
  BY <1>1, <1>3, <1>6 DEF MayFollow
<1>7. ASSUME NEW f \in Nat, MayFollow(c, f), e <= f
      PROVE  MayFollow(c, f)'
  <2>1. f > 1 => Posts(m, f - 1)' # {}
    BY <1>1, <1>7 DEF MayFollow
  <2>2. ASSUME NEW p \in PostsOf(c)', posted'[p].event \in Events
        PROVE  posted'[p].event <= f
    <3>1. CASE p \in PostsOf(c)
      BY <1>1, <1>7, <2>2, <3>1 DEF MayFollow
    <3>2. CASE p \in n + 1 .. Len(posted')
      BY <1>7, <2>2, <3>2 DEF n
    <3> QED BY <1>1, <3>1, <3>2
  <2> QED BY <1>3, <2>1, <2>2 DEF MayFollow
<1> QED BY <1>4, <1>5, <1>6, <1>7

LEMMA OnReportStep ==
  ASSUME IInv, NEW c \in Conn, OnReport(c)
  PROVE  IInv'
<1> DEFINE pkt == Head(toRelay[c])
           n == Len(posted)
           events == ToPost(c, pkt)
<1>0. TypeOK /\ LinkOwned /\ NoneUnused /\ AcctKnown /\ AcksPosted /\ InOrder
      /\ AckedWasPosted /\ FirstPostsInOrder /\ SessionWellFormed
  BY DEF IInv
<1>m. PICK m : m = owner[c]
  OBVIOUS
<1>e. PICK e : e = pkt.event
  OBVIOUS
<1>1. /\ client[c] = "open" /\ toRelay[c] # <<>>
      /\ acct' = [acct EXCEPT ![c] = Acct(c)]
      /\ Relay(c, Acct(c), events)
      /\ toMachine' = IF link[m] = c
                      THEN [toMachine EXCEPT ![c] = Append(toMachine[c], e)]
                      ELSE toMachine
      /\ toRelay' = [toRelay EXCEPT ![c] = Tail(toRelay[c])]
      /\ UNCHANGED <<link, acked, owner, sentOn, extra, client>>
  BY <1>m, <1>e DEF OnReport, AckSeq, machineVars
<1>2. m \in Machine /\ Acct(c) = m /\ acct[c] \in {None, m}
  BY <1>0, <1>1, <1>m, RelayAssumption DEF TypeOK, NoneUnused, AcctKnown, Acct
<1>3. /\ pkt \in Packet /\ e \in 0 .. MaxEvents
      /\ e # 0 => MayFollow(c, e) /\ e <= sentOn[c]
  BY <1>0, <1>1, <1>e, PacketsAfterTail DEF Packet
<1>4. /\ Tail(toRelay[c]) \in Seq(Packet)
      /\ \A i \in 1 .. Len(Tail(toRelay[c])) :
           Tail(toRelay[c])[i].event # 0 =>
             /\ Tail(toRelay[c])[i].event <= sentOn[c]
             /\ MayFollow(c, Tail(toRelay[c])[i].event)
             /\ e # 0 => e <= Tail(toRelay[c])[i].event
             /\ \A j \in 1 .. Len(Tail(toRelay[c])) :
                  i < j /\ Tail(toRelay[c])[j].event # 0 =>
                    Tail(toRelay[c])[i].event <= Tail(toRelay[c])[j].event
  BY <1>0, <1>1, <1>e, PacketsAfterTail
<1> HIDE DEF pkt
<1>5. /\ events \in Seq(Events \cup {ONLINE, OFFLINE})
      /\ Len(events) \in Nat
      /\ Len(events) = 0 <=> acct[c] # None /\ e = 0
      /\ e # 0 => e \in Events /\ events[Len(events)] = e
      /\ \A i \in 1 .. Len(events) :
           /\ events[i] = ONLINE <=> acct[c] = None /\ i = 1
           /\ events[i] # ONLINE => events[i] = e /\ e # 0 /\ i = Len(events)
  <2>1. pkt \in Packet
    BY <1>3
  <2>2. Acct(c) # None
    BY <1>2, RelayAssumption
  <2> QED BY <1>e, <2>1, <2>2, ToPostIs
<1> HIDE DEF events
<1>6. /\ posted' \in Seq(Post)
      /\ failed' \subseteq DOMAIN posted'
      /\ n \in Nat
      /\ Len(posted') = n + Len(events)
      /\ \A i \in 1 .. n : posted'[i] = posted[i]
      /\ \A i \in n + 1 .. Len(posted') :
           posted'[i] = [conn |-> c, acct |-> m, event |-> events[i - n]]
  <2>1. Relay(c, m, events) /\ m \in Machine /\ events \in Seq(Events \cup {ONLINE, OFFLINE})
    BY <1>1, <1>2, <1>5
  <2>2. TypeOK
    BY <1>0
  <2> QED BY <2>1, <2>2, Relayed
<1>7. n <= Len(posted')
  BY <1>5, <1>6
<1>8. ASSUME NEW i \in n + 1 .. Len(posted')
      PROVE  /\ posted'[i].conn = c /\ posted'[i].acct = m
             /\ posted'[i].event = ONLINE <=> acct[c] = None /\ i = n + 1
             /\ posted'[i].event # ONLINE =>
                  posted'[i].event = e /\ e # 0 /\ i = Len(posted')
  <2>1. i \in Nat /\ i - n \in 1 .. Len(events) /\ (i - n = 1 <=> i = n + 1)
        /\ (i - n = Len(events) <=> i = Len(posted'))
    BY <1>5, <1>6
  <2>2. posted'[i].conn = c /\ posted'[i].acct = m /\ posted'[i].event = events[i - n]
    <3>1. posted'[i] = [conn |-> c, acct |-> m, event |-> events[i - n]]
      BY <1>6
    <3> HIDE DEF n
    <3> QED BY <3>1
  <2> QED BY <1>5, <2>1, <2>2
<1>9. /\ PostsOf(c)' = PostsOf(c) \cup (n + 1 .. Len(posted'))
      /\ PostsOf(c) \subseteq 1 .. n
      /\ \A d \in Conn : d # c => PostsOf(d)' = PostsOf(d)
      /\ \A d \in Conn : \A i \in PostsOf(d) : posted'[i] = posted[i]
      /\ \A h, f : Posts(h, f) \subseteq Posts(h, f)'
  <2> QED BY <1>0, <1>2, <1>6, <1>7, <1>8, Grown
<1>10. /\ AckedWasPosted'
       /\ FirstPostsInOrder'
       /\ \A d \in Conn : \A f : d # c /\ MayFollow(d, f) => MayFollow(d, f)'
       /\ \A f \in Nat : MayFollow(c, f) /\ e <= f => MayFollow(c, f)'
  <2>1. \A i \in n + 1 .. Len(posted') :
          /\ posted'[i].conn = c /\ posted'[i].acct = owner[c]
          /\ posted'[i].event \in Events => posted'[i].event = e
    BY <1>8, <1>m, EventCodes
  <2>2. UNCHANGED <<machineVars, owner, sentOn>>
    BY <1>1 DEF machineVars
  <2> QED BY <1>2, <1>m, <1>3, <1>6, <1>7, <2>1, <2>2, PostedStep
<1>11. /\ acct' \in [Conn -> Machine \cup {None}]
       /\ acct'[c] = m /\ \A d \in Conn : d # c => acct'[d] = acct[d]
       /\ toRelay' \in [Conn -> Seq(Packet)]
       /\ toRelay'[c] = Tail(toRelay[c])
       /\ \A d \in Conn : d # c => toRelay'[d] = toRelay[d]
  <2>1. acct \in [Conn -> Machine \cup {None}] /\ toRelay \in [Conn -> Seq(Packet)]
    BY <1>0 DEF TypeOK
  <2> QED BY <1>1, <1>2, <1>4, <2>1
<1>12. /\ toMachine' \in [Conn -> Seq(0 .. MaxEvents)]
       /\ \A d \in Conn : d # c => toMachine'[d] = toMachine[d]
       /\ \A i \in 1 .. Len(toMachine'[c]) :
            \A f : f = toMachine'[c][i] /\ f # 0 => Posts(m, f)' # {}
  <2>1. /\ toMachine \in [Conn -> Seq(0 .. MaxEvents)]
        /\ toMachine[c] \in Seq(0 .. MaxEvents)
    BY <1>0 DEF TypeOK
  <2>2. \A i \in 1 .. Len(toMachine[c]) :
          \A f : f = toMachine[c][i] /\ f # 0 => Posts(m, f)' # {}
    BY <1>0, <1>9, <1>m DEF AcksPosted
  <2>3. CASE link[m] # c
    BY <1>1, <2>1, <2>2, <2>3
  <2>4. CASE link[m] = c
    <3>1. e \in 0 .. MaxEvents
      BY <1>3
    <3>2. /\ Append(toMachine[c], e) \in Seq(0 .. MaxEvents)
          /\ Len(Append(toMachine[c], e)) = Len(toMachine[c]) + 1
          /\ Len(toMachine[c]) \in Nat
          /\ \A i \in 1 .. Len(toMachine[c]) : Append(toMachine[c], e)[i] = toMachine[c][i]
          /\ Append(toMachine[c], e)[Len(toMachine[c]) + 1] = e
      BY <2>1, <3>1, AppendAt
    <3>3. toMachine' = [toMachine EXCEPT ![c] = Append(toMachine[c], e)]
      BY <1>1, <2>4
    <3>4. /\ toMachine'[c] = Append(toMachine[c], e)
          /\ \A d \in Conn : d # c => toMachine'[d] = toMachine[d]
          /\ toMachine' \in [Conn -> Seq(0 .. MaxEvents)]
      BY <2>1, <3>2, <3>3
    <3>5. e # 0 => Posts(m, e)' # {}
      <4> SUFFICES ASSUME e # 0 PROVE Len(posted') \in Posts(m, e)'
        OBVIOUS
      <4>1. Len(posted') \in n + 1 .. Len(posted') /\ Len(posted') \in DOMAIN posted'
            /\ Len(posted') - n = Len(events)
        BY <1>5, <1>6
      <4>2. posted'[Len(posted')] = [conn |-> c, acct |-> m, event |-> e]
        BY <1>5, <1>6, <4>1
      <4> QED BY <4>1, <4>2 DEF Posts
    <3>6. ASSUME NEW i \in 1 .. Len(toMachine'[c]), NEW f, f = toMachine'[c][i], f # 0
          PROVE  Posts(m, f)' # {}
      <4>1. i = Len(toMachine[c]) + 1 \/ i \in 1 .. Len(toMachine[c])
        <5>1. Len(toMachine'[c]) = Len(toMachine[c]) + 1 /\ Len(toMachine[c]) \in Nat
          BY <3>2, <3>4
        <5> QED BY <5>1
      <4> QED BY <2>2, <3>2, <3>4, <3>5, <3>6, <4>1
    <3> QED BY <3>4, <3>6
  <2> QED BY <2>3, <2>4
<1>13. TypeOK'
  BY <1>0, <1>1, <1>6, <1>11, <1>12 DEF TypeOK
<1>14. LinkOwned'
  BY <1>0, <1>1 DEF LinkOwned
<1>15. NoneUnused'
  BY <1>0, <1>1, <1>11, <1>12 DEF NoneUnused
<1>16. PostsOf(c)' # {}
  <2>1. CASE acct[c] # None
    BY <1>0, <1>9, <2>1 DEF AcctKnown
  <2>2. CASE acct[c] = None
    <3>1. Len(posted') \in n + 1 .. Len(posted')
      BY <1>5, <1>6, <2>2
    <3> QED BY <1>9, <3>1
  <2> QED BY <2>1, <2>2
<1>17. AcctKnown'
  <2>1. \A d \in Conn : d # c => PostsOf(d)' = PostsOf(d) /\ acct'[d] = acct[d]
    BY <1>9, <1>11
  <2>2. acct'[c] = owner[c] /\ acct'[c] # None
    BY <1>2, <1>m, <1>11, RelayAssumption
  <2>3. owner' = owner
    BY <1>1
  <2> QED BY <1>0, <1>16, <2>1, <2>2, <2>3 DEF AcctKnown
<1>18. AcksPosted'
  <2>1. ASSUME NEW d \in Conn, NEW i \in 1 .. Len(toMachine'[d]),
               NEW f, f = toMachine'[d][i], f # 0
        PROVE  Posts(owner[d], f)' # {}
    <3>1. owner' = owner
      BY <1>1
    <3>2. CASE d = c
      BY <1>m, <1>12, <2>1, <3>1, <3>2
    <3>3. CASE d # c
      <4>1. toMachine'[d] = toMachine[d]
        BY <1>12, <3>3
      <4>2. Posts(owner[d], f) # {}
        BY <1>0, <2>1, <4>1 DEF AcksPosted
      <4> QED BY <1>9, <3>1, <4>2
    <3> QED BY <3>2, <3>3
  <2> QED BY <2>1 DEF AcksPosted
<1>19. InOrder'
  <2>1. \A d \in Conn : sentOn[d] \in Nat
    BY <1>0, RelayAssumption DEF TypeOK
  <2>2. /\ \A f : f = sentOn[c] /\ f # 0 => MayFollow(c, f)'
        /\ sentOn[c] = 0 => \A p \in PostsOf(c)' : posted'[p].event \notin Events
    <3>1. e <= sentOn[c] /\ e \in Nat
      BY <1>3, <2>1
    <3>2. ASSUME sentOn[c] = 0, NEW p \in PostsOf(c)'
          PROVE  posted'[p].event \notin Events
      <4>1. CASE p \in PostsOf(c)
        BY <1>0, <1>9, <3>2, <4>1 DEF InOrder
      <4>2. CASE p \in n + 1 .. Len(posted')
        BY <1>8, <3>1, <3>2, <4>2, EventCodes
      <4> QED BY <1>9, <4>1, <4>2
    <3> QED BY <1>0, <1>10, <2>1, <3>1, <3>2 DEF InOrder
  <2>3. ASSUME NEW i \in 1 .. Len(toRelay'[c]), toRelay'[c][i].event # 0
        PROVE  /\ toRelay'[c][i].event <= sentOn[c]
               /\ \A f : f = toRelay'[c][i].event => MayFollow(c, f)'
               /\ \A j \in 1 .. Len(toRelay'[c]) :
                    i < j /\ toRelay'[c][j].event # 0 =>
                      toRelay'[c][i].event <= toRelay'[c][j].event
    <3>0. PICK f : f = Tail(toRelay[c])[i].event
      OBVIOUS
    <3>1. Tail(toRelay[c])[i] \in Packet
      BY <1>4, <1>11, <2>3
    <3>2. f \in Nat /\ f # 0
      BY <1>11, <2>3, <3>0, <3>1, EventCodes DEF Packet
    <3>3. /\ f <= sentOn[c] /\ MayFollow(c, f) /\ (e # 0 => e <= f)
          /\ \A j \in 1 .. Len(Tail(toRelay[c])) :
                  i < j /\ Tail(toRelay[c])[j].event # 0 =>
                    f <= Tail(toRelay[c])[j].event
      BY <1>4, <1>11, <2>3, <3>0
    <3>4. e <= f
      BY <1>3, <3>2, <3>3, EventCodes
    <3>5. MayFollow(c, f)'
      BY <1>10, <3>2, <3>3, <3>4
    <3> QED BY <1>11, <3>0, <3>3, <3>5
  <2>4. ASSUME NEW d \in Conn, d # c
        PROVE  /\ PostsOf(d)' = PostsOf(d) /\ toRelay'[d] = toRelay[d]
               /\ \A i \in PostsOf(d) : posted'[i] = posted[i]
               /\ \A f : MayFollow(d, f) => MayFollow(d, f)'
    BY <1>9, <1>10, <1>11, <2>4
  <2>5. sentOn' = sentOn
    BY <1>1
  <2> SUFFICES ASSUME NEW d \in Conn
               PROVE
    /\ \A f : f = sentOn[d] /\ f # 0 => MayFollow(d, f)'
    /\ sentOn[d] = 0 => \A p \in PostsOf(d)' : posted'[p].event \notin Events
    /\ \A i \in 1 .. Len(toRelay'[d]) :
         toRelay'[d][i].event # 0 =>
           /\ toRelay'[d][i].event <= sentOn[d]
           /\ \A f : f = toRelay'[d][i].event => MayFollow(d, f)'
           /\ \A j \in 1 .. Len(toRelay'[d]) :
                i < j /\ toRelay'[d][j].event # 0 =>
                  toRelay'[d][i].event <= toRelay'[d][j].event
    BY <2>5 DEF InOrder
  <2>6. CASE d = c
    BY <2>2, <2>3, <2>6
  <2>7. CASE d # c
    BY <1>0, <2>4, <2>7 DEF InOrder
  <2> QED BY <2>6, <2>7
<1>20. SessionWellFormed'
  <2>1. ASSUME NEW i \in PostsOf(c)'
        PROVE  /\ posted'[i].acct = m
               /\ posted'[i].event = ONLINE <=> \A j \in PostsOf(c)' : i <= j
               /\ posted'[i].event # OFFLINE
               /\ posted'[i].event \in Events =>
                    \A j \in PostsOf(c)' :
                      i < j /\ posted'[j].event \in Events =>
                        posted'[i].event <= posted'[j].event
    <3>1. CASE i \in PostsOf(c)
      <4>1. /\ posted'[i] = posted[i] /\ i \in 1 .. n
            /\ \A j \in n + 1 .. Len(posted') : i <= j
        BY <1>6, <1>9, <3>1
      <4>2. /\ posted[i].acct = m
            /\ posted[i].event = ONLINE <=> \A j \in PostsOf(c) : i <= j
            /\ posted[i].event # OFFLINE
            /\ posted[i].event \in Events =>
                 \A j \in PostsOf(c) :
                   i < j /\ posted[j].event \in Events =>
                     posted[i].event <= posted[j].event
        BY <1>0, <1>1, <1>m, <3>1 DEF SessionWellFormed
      <4>3. ASSUME posted'[i].event \in Events, NEW j \in PostsOf(c)', i < j,
                   posted'[j].event \in Events
            PROVE  posted'[i].event <= posted'[j].event
        <5>1. CASE j \in PostsOf(c)
          BY <1>9, <4>1, <4>2, <4>3, <5>1
        <5>2. CASE j \in n + 1 .. Len(posted')
          <6>1. posted'[j].event = e /\ e # 0
            BY <1>8, <4>3, <5>2, EventCodes
          <6> QED BY <1>3, <3>1, <4>1, <4>3, <6>1 DEF MayFollow
        <5> QED BY <1>9, <5>1, <5>2
      <4> QED BY <1>9, <4>1, <4>2, <4>3
    <3>2. CASE i \in n + 1 .. Len(posted')
      <4>1. \A j \in PostsOf(c) : j < i
        BY <1>6, <1>9, <3>2
      <4>2. acct[c] = None <=> PostsOf(c) = {}
        BY <1>0 DEF AcctKnown
      <4>3. posted'[i].event = ONLINE <=> \A j \in PostsOf(c)' : i <= j
        <5>1. CASE acct[c] = None
          <6>1. n + 1 \in n + 1 .. Len(posted')
            BY <1>6, <3>2
          <6> QED BY <1>6, <1>8, <1>9, <3>2, <4>2, <5>1, <6>1
        <5>2. CASE acct[c] # None
          <6>1. PICK j \in PostsOf(c) : TRUE
            BY <4>2, <5>2
          <6>2. j < i /\ j \in PostsOf(c)' /\ ~ i <= j
            BY <1>6, <1>9, <3>2, <4>1
          <6> QED BY <1>8, <3>2, <5>2, <6>2
        <5> QED BY <5>1, <5>2
      <4>4. posted'[i].event # OFFLINE
        BY <1>5, <1>8, <3>2, EventCodes
      <4>5. ASSUME posted'[i].event \in Events, NEW j \in PostsOf(c)', i < j
            PROVE  FALSE
        <5>1. i = Len(posted')
          BY <1>8, <3>2, <4>5, EventCodes
        <5>2. j \in 1 .. n \/ j \in n + 1 .. Len(posted')
          BY <1>9
        <5> QED BY <1>5, <1>6, <4>5, <5>1, <5>2
      <4> QED BY <1>8, <3>2, <4>3, <4>4, <4>5
    <3> QED BY <1>9, <3>1, <3>2
  <2>2. \A d \in Conn : d # c => /\ PostsOf(d)' = PostsOf(d)
                              /\ \A i \in PostsOf(d) : posted'[i] = posted[i]
    BY <1>9
  <2>3. client' = client /\ owner' = owner /\ client[c] # "closed"
    BY <1>1
  <2> SUFFICES ASSUME NEW d \in Conn
               PROVE
    /\ \A i \in PostsOf(d)' :
         /\ posted'[i].acct = owner[d]
         /\ posted'[i].event = ONLINE <=> \A j \in PostsOf(d)' : i <= j
         /\ posted'[i].event = OFFLINE =>
              client[d] = "closed" /\ \A j \in PostsOf(d)' : j <= i
         /\ posted'[i].event \in Events =>
              \A j \in PostsOf(d)' :
                i < j /\ posted'[j].event \in Events =>
                  posted'[i].event <= posted'[j].event
    /\ client[d] = "closed" /\ PostsOf(d)' # {} =>
         \E i \in PostsOf(d)' : posted'[i].event = OFFLINE
    BY <2>3 DEF SessionWellFormed
  <2>4. CASE d = c
    BY <1>m, <2>1, <2>3, <2>4
  <2>5. CASE d # c
    BY <1>0, <2>2, <2>5 DEF SessionWellFormed
  <2> QED BY <2>4, <2>5
<1> QED
  BY <1>10, <1>13, <1>14, <1>15, <1>17, <1>18, <1>19, <1>20 DEF IInv


(* No event is relayed for a connection whose account is not known. *)
LEMMA NothingRelayed ==
  ASSUME TypeOK, NEW c, NEW a, Relay(c, a, <<>>)
  PROVE  posted' = posted /\ failed' = failed
<1> DEFINE new == [i \in DOMAIN <<>> |-> [conn |-> c, acct |-> a, event |-> <<>>[i]]]
<1>1. posted \in Seq(Post) /\ Len(posted) \in Nat
  BY DEF TypeOK
<1>2. new = <<>>
  OBVIOUS
<1>3. posted' = posted \o new
  BY DEF Relay
<1> HIDE DEF new
<1>4. posted' = posted
  BY <1>1, <1>2, <1>3, ConcatEmptySeq
<1>5. PICK lost \in SUBSET (Len(posted) + 1 .. Len(posted')) : failed' = failed \cup lost
  BY DEF Relay
<1>6. lost = {}
  <2>1. Len(posted) + 1 .. Len(posted') = {}
    BY <1>1, <1>4
  <2> QED BY <1>5, <2>1
<1> QED BY <1>4, <1>5, <1>6

LEMMA OnCloseStep ==
  ASSUME IInv, NEW c \in Conn, OnClose(c)
  PROVE  IInv'
<1> DEFINE n == Len(posted)
<1>m. PICK m : m = owner[c]
  OBVIOUS
<1>0. TypeOK /\ LinkOwned /\ NoneUnused /\ AcctKnown /\ AcksPosted /\ InOrder
      /\ AckedWasPosted /\ FirstPostsInOrder /\ SessionWellFormed
  BY DEF IInv
<1>1. /\ client[c] = "closing"
      /\ client' = [client EXCEPT ![c] = "closed"]
      /\ Relay(c, acct[c], IF acct[c] = None THEN <<>> ELSE <<OFFLINE>>)
      /\ UNCHANGED <<link, acked, owner, sentOn, extra, toRelay, toMachine, acct>>
  BY DEF OnClose, machineVars, netVars
<1>2. /\ client' \in [Conn -> {"none", "open", "closing", "closed"}]
      /\ client'[c] = "closed"
      /\ \A d \in Conn : d # c => client'[d] = client[d]
  <2>1. client \in [Conn -> {"none", "open", "closing", "closed"}]
    BY <1>0 DEF TypeOK
  <2> QED BY <1>1, <2>1
<1>3. m \in Machine /\ acct[c] \in {None, m} /\ m # None
  BY <1>0, <1>1, <1>m, RelayAssumption DEF TypeOK, NoneUnused, AcctKnown
<1>4. NoneUnused' /\ LinkOwned'
  BY <1>0, <1>1, <1>2 DEF NoneUnused, LinkOwned
<1>5. CASE acct[c] = None
  <2>1. posted' = posted /\ failed' = failed
    BY <1>0, <1>1, <1>5, NothingRelayed
  <2>2. /\ \A d : PostsOf(d)' = PostsOf(d)
        /\ \A h, f : Posts(h, f)' = Posts(h, f)
    BY <2>1, Unposted
  <2>3. TypeOK'
    BY <1>0, <1>1, <1>2, <2>1 DEF TypeOK
  <2>4. AcctKnown' /\ AcksPosted' /\ AckedWasPosted' /\ FirstPostsInOrder'
    BY <1>0, <1>1, <2>1, <2>2 DEF AcctKnown, AcksPosted, AckedWasPosted, FirstPostsInOrder
  <2>5. InOrder'
    <3>1. \A d, f : MayFollow(d, f)' <=> MayFollow(d, f)
      BY <1>1, <2>1, <2>2 DEF MayFollow
    <3>2. UNCHANGED <<posted, sentOn, toRelay>>
      BY <1>1, <2>1
    <3> QED BY <1>0, <2>2, <3>1, <3>2 DEF InOrder
  <2>6. SessionWellFormed'
    <3>1. PostsOf(c) = {}
      BY <1>0, <1>5 DEF AcctKnown
    <3>2. \A d \in Conn : d # c => client'[d] = client[d]
      BY <1>2
    <3> QED BY <1>0, <1>1, <2>1, <2>2, <3>1, <3>2 DEF SessionWellFormed
  <2> QED BY <1>4, <2>3, <2>4, <2>5, <2>6 DEF IInv
<1>6. CASE acct[c] # None
  <2>1. /\ Relay(c, m, <<OFFLINE>>) /\ m \in Machine
        /\ <<OFFLINE>> \in Seq(Events \cup {ONLINE, OFFLINE})
        /\ Len(<<OFFLINE>>) = 1 /\ <<OFFLINE>>[1] = OFFLINE
    BY <1>1, <1>3, <1>6
  <2>2. /\ posted' \in Seq(Post)
        /\ failed' \subseteq DOMAIN posted'
        /\ n \in Nat
        /\ Len(posted') = n + 1
        /\ \A i \in 1 .. n : posted'[i] = posted[i]
        /\ \A i \in n + 1 .. Len(posted') :
             posted'[i] = [conn |-> c, acct |-> m, event |-> <<OFFLINE>>[i - n]]
    BY <1>0, <2>1, Relayed
  <2>3. n <= Len(posted')
    BY <2>2
  <2>4. n + 1 .. Len(posted') = {n + 1}
    BY <2>2
  <2>5. posted'[n + 1] = [conn |-> c, acct |-> m, event |-> OFFLINE]
    <3>1. n + 1 - n = 1
      BY <2>2
    <3> QED BY <2>1, <2>2, <2>4, <3>1
  <2>6. \A i \in n + 1 .. Len(posted') :
          posted'[i].conn = c /\ posted'[i].acct = m /\ posted'[i].event = OFFLINE
    <3> HIDE DEF n
    <3> QED BY <2>4, <2>5
  <2>7. /\ PostsOf(c)' = PostsOf(c) \cup (n + 1 .. Len(posted'))
        /\ PostsOf(c) \subseteq 1 .. n
        /\ \A d \in Conn : d # c => PostsOf(d)' = PostsOf(d)
        /\ \A d \in Conn : \A i \in PostsOf(d) : posted'[i] = posted[i]
        /\ \A h, f : Posts(h, f) \subseteq Posts(h, f)'
    BY <1>0, <1>3, <2>2, <2>3, <2>6, Grown
  <2>8. /\ AckedWasPosted'
        /\ FirstPostsInOrder'
        /\ \A d \in Conn : \A f : d # c /\ MayFollow(d, f) => MayFollow(d, f)'
        /\ \A f \in Nat : MayFollow(c, f) /\ 0 <= f => MayFollow(c, f)'
    <3>1. \A i \in n + 1 .. Len(posted') :
            /\ posted'[i].conn = c /\ posted'[i].acct = owner[c]
            /\ posted'[i].event \in Events => posted'[i].event = 0
      BY <1>m, <2>6, EventCodes
    <3>2. UNCHANGED <<machineVars, owner, sentOn>>
      BY <1>1 DEF machineVars
    <3>3. 0 \in 0 .. MaxEvents /\ owner[c] \in Machine
      BY <1>m, <1>3, RelayAssumption
    <3> HIDE DEF n
    <3> QED BY <2>2, <2>3, <3>1, <3>2, <3>3, PostedStep DEF n
  <2>9. TypeOK'
    BY <1>0, <1>1, <1>2, <2>2 DEF TypeOK
  <2>10. AcctKnown'
    <3>1. PostsOf(c)' # {}
      BY <2>4, <2>7
    <3> QED BY <1>0, <1>1, <1>6, <2>7, <3>1 DEF AcctKnown
  <2>11. AcksPosted'
    BY <1>0, <1>1, <2>7 DEF AcksPosted
  <2>12. InOrder'
    <3>1. ASSUME NEW d \in Conn, NEW f \in Nat, MayFollow(d, f)
          PROVE  MayFollow(d, f)'
      BY <2>8, <3>1
    <3>2. ASSUME NEW d \in Conn, sentOn[d] = 0, NEW p \in PostsOf(d)'
          PROVE  posted'[p].event \notin Events
      <4>1. CASE p \in PostsOf(d)
        BY <1>0, <2>7, <3>2, <4>1 DEF InOrder
      <4>2. CASE p \notin PostsOf(d)
        BY <2>6, <2>7, <4>2, EventCodes
      <4> QED BY <4>1, <4>2
    <3>3. \A d \in Conn : /\ sentOn[d] \in Nat
                          /\ \A i \in 1 .. Len(toRelay[d]) : toRelay[d][i].event \in Nat
      <4>1. \A d \in Conn : sentOn[d] \in Nat
        BY <1>0, RelayAssumption DEF TypeOK
      <4>2. ASSUME NEW d \in Conn, NEW i \in 1 .. Len(toRelay[d])
            PROVE  toRelay[d][i].event \in Nat
        <5>1. toRelay[d] \in Seq(Packet)
          BY <1>0 DEF TypeOK
        <5>2. toRelay[d][i] \in Packet
          BY <5>1
        <5> QED BY <5>2, EventCodes DEF Packet
      <4> QED BY <4>1, <4>2
    <3>4. UNCHANGED <<sentOn, toRelay>>
      BY <1>1
    <3> QED BY <1>0, <3>1, <3>2, <3>3, <3>4 DEF InOrder
  <2>13. SessionWellFormed'
    <3>1. ASSUME NEW i \in PostsOf(c)'
          PROVE  /\ posted'[i].acct = m
                 /\ posted'[i].event = ONLINE <=> \A j \in PostsOf(c)' : i <= j
                 /\ posted'[i].event = OFFLINE => \A j \in PostsOf(c)' : j <= i
                 /\ posted'[i].event \in Events =>
                      \A j \in PostsOf(c)' :
                        i < j /\ posted'[j].event \in Events =>
                          posted'[i].event <= posted'[j].event
      <4>1. \A j \in PostsOf(c) : j \in 1 .. n /\ j < n + 1 /\ ~ n + 1 <= j
        BY <2>2, <2>7
      <4>2. CASE i \in PostsOf(c)
        BY <1>0, <1>1, <1>m, <2>4, <2>5, <2>7, <4>1, <4>2, EventCodes DEF SessionWellFormed
      <4>3. CASE i = n + 1
        <5>1. PICK j \in PostsOf(c) : TRUE
          BY <1>0, <1>6 DEF AcctKnown
        <5>2. \A k \in PostsOf(c)' : k <= i
          BY <2>2, <2>4, <2>7, <4>1, <4>3
        <5> QED BY <2>4, <2>5, <2>7, <4>1, <4>3, <5>1, <5>2, EventCodes
      <4> QED BY <2>4, <2>7, <4>2, <4>3
    <3>2. n + 1 \in PostsOf(c)' /\ posted'[n + 1].event = OFFLINE
      BY <2>4, <2>6, <2>7
    <3>3. \A d \in Conn : d # c => /\ PostsOf(d)' = PostsOf(d)
                                /\ \A i \in PostsOf(d) : posted'[i] = posted[i]
                                /\ client'[d] = client[d]
      BY <1>2, <2>7
    <3>4. owner' = owner /\ client'[c] = "closed"
      BY <1>1, <1>2
    <3> SUFFICES ASSUME NEW d \in Conn
                 PROVE
      /\ \A i \in PostsOf(d)' :
           /\ posted'[i].acct = owner[d]
           /\ posted'[i].event = ONLINE <=> \A j \in PostsOf(d)' : i <= j
           /\ posted'[i].event = OFFLINE =>
                client'[d] = "closed" /\ \A j \in PostsOf(d)' : j <= i
           /\ posted'[i].event \in Events =>
                \A j \in PostsOf(d)' :
                  i < j /\ posted'[j].event \in Events =>
                    posted'[i].event <= posted'[j].event
      /\ client'[d] = "closed" /\ PostsOf(d)' # {} =>
           \E i \in PostsOf(d)' : posted'[i].event = OFFLINE
      BY <3>4 DEF SessionWellFormed
    <3>5. CASE d = c
      BY <1>m, <3>1, <3>2, <3>4, <3>5
    <3>6. CASE d # c
      BY <1>0, <3>3, <3>6 DEF SessionWellFormed
    <3> QED BY <3>5, <3>6
  <2> QED BY <1>4, <2>8, <2>9, <2>10, <2>11, <2>12, <2>13 DEF IInv
<1> QED BY <1>5, <1>6

-----------------------------------------------------------------------------
LEMMA Stutter == IInv /\ UNCHANGED httpVars => IInv'
<1> SUFFICES ASSUME IInv, UNCHANGED httpVars PROVE IInv'
  OBVIOUS
<1>1. UNCHANGED <<link, acked, owner, sentOn, extra, toRelay, toMachine,
                  client, acct, posted, failed>>
  BY DEF httpVars, machineVars, netVars, relayVars
<1>2. /\ \A d : PostsOf(d)' = PostsOf(d)
      /\ \A h, f : Posts(h, f)' = Posts(h, f)
  BY <1>1, Unposted
<1>3. \A d, f : MayFollow(d, f)' <=> MayFollow(d, f)
  BY <1>1, <1>2 DEF MayFollow
<1> QED
  BY <1>1, <1>2, <1>3 DEF IInv, TypeOK, LinkOwned, NoneUnused, AcctKnown,
     AcksPosted, InOrder, AckedWasPosted, FirstPostsInOrder, SessionWellFormed

LEMMA StepIInv == IInv /\ [Next]_httpVars => IInv'
<1> SUFFICES ASSUME IInv, [Next]_httpVars PROVE IInv'
  OBVIOUS
<1>1. CASE UNCHANGED httpVars
  BY <1>1, Stutter
<1>2. ASSUME NEW m \in Machine, Report(m) \/ SendExtra(m) \/ Hear(m) \/ Drop(m)
      PROVE  IInv'
  BY <1>2, ReportStep, SendExtraStep, HearStep, DropStep
<1>3. ASSUME NEW m \in Machine, NEW c \in Conn, Connect(m, c)
      PROVE  IInv'
  BY <1>3, ConnectStep
<1>4. ASSUME NEW c \in Conn, OnReport(c) \/ OnOther(c) \/ ReadEof(c) \/ OnClose(c)
      PROVE  IInv'
  BY <1>4, OnReportStep, TakeStep, OnCloseStep
<1> QED BY <1>1, <1>2, <1>3, <1>4 DEF Next

LEMMA Invariance == Spec => []IInv
BY InitIInv, StepIInv, PTL DEF Spec

(* The state has its types, the posts that failed among the posts made     *)
(* (httprelay.c's machine_info_t and the packets on their way).            *)
THEOREM TypeCorrect == Spec => []TypeOK
BY Invariance, PTL DEF IInv

(* What the HTTP server is asked to record of a connection is ONLINE,      *)
(* events that never go backwards and OFFLINE if and only if it is closed, *)
(* for the host that made it (on_tcp_parse, on_tcp_connection).            *)
THEOREM SessionsWellFormed == Spec => []SessionWellFormed
BY Invariance, PTL DEF IInv

(* An event whose ACK a host has heard was put to the HTTP server:         *)
(* on_tcp_parse relays before it acknowledges.                             *)
THEOREM AckedPosted == Spec => []AckedWasPosted
BY Invariance, PTL DEF IInv

(* The first post of an event comes after the first of the one before it,  *)
(* although connections of a host overlap (on_tcp_parse's relay).          *)
THEOREM FirstInOrder == Spec => []FirstPostsInOrder
BY Invariance, PTL DEF IInv

=============================================================================
