-------------------------- MODULE MeshPingProofs --------------------------
(***************************************************************************)
(* What a node may conclude from a ping reply, proved for every set of     *)
(* nodes, every set of addresses and any number of pings.                  *)
(*                                                                         *)
(* The argument: an address names one node for ever (Owned), every reply   *)
(* in the air goes back to the source of a ping it was meant for           *)
(* (Answered), and where a node answered itself it can no longer hear it   *)
(* (OwnReplyIsLost).  That nobody is missed rests on what a node has done  *)
(* with every message it has taken since it joined (NothingMissed).        *)
(***************************************************************************)
EXTENDS MeshPing, TLAPS

Owned ==
  \A n \in Nodes : address[n] # NoAddress => owner[address[n]] = n

PingIsOwned ==
  \A m \in air : m.op = "ping" => owner[m.from] # NoNode

Answered ==
  \A m \in air : m.op = "reply" =>
    /\ m.src = m.from /\ owner[m.from] # NoNode
    /\ \E p \in air : /\ p.op = "ping" /\ p.ping = m.ping
                      /\ p.from = m.to /\ p.to \in {All, m.from}

OwnReplyIsLost ==
  \A m \in air : m.op = "reply" /\ owner[m.from] = owner[m.to] =>
    \A n \in Nodes : address[n] # m.to

Inv == TypeOK /\ Owned /\ PingIsOwned /\ Answered /\ OwnReplyIsLost
         /\ NeighbourIsReal /\ NeverItself

\* Exchanges are told apart by the ping, which comes from its source.
OnePing ==
  \A m \in air :
    /\ m.ping <= pings
    /\ m.op = "ping" => m.src = m.from
    /\ \A k \in air : m.op = "ping" /\ k.op = "ping" /\ m.ping = k.ping => m = k

\* A node that joins has seen nothing.
Forgotten == \A n \in Nodes : address[n] = NoAddress => received[n] = {}

AllAnswered ==
  \A n \in Nodes : \A m \in received[n] :
    m.op = "ping" /\ Answers(n, m) => Reply(n, m) \in air

AllLogged ==
  \A n \in Nodes : \A m \in received[n] :
    m.op = "reply" /\ m.to = address[n] =>
      [node |-> n, neighbour |-> m.from, ping |-> m.ping] \in log

NothingMissed == OnePing /\ Forgotten /\ AllAnswered /\ AllLogged

---------------------------------------------------------------------------

\* The state keeps its types.
THEOREM TypeCorrect == Spec => []TypeOK
<1> USE AddressAssumption
<1>1. Init => TypeOK
  BY DEF Init, TypeOK
<1>2. TypeOK /\ [Next]_vars => TypeOK'
  <2> SUFFICES ASSUME TypeOK, [Next]_vars PROVE TypeOK'
    OBVIOUS
  <2> USE DEF TypeOK
  <2>1. CASE UNCHANGED vars
    BY <2>1 DEF vars
  <2> SUFFICES ASSUME NEW n \in Nodes,
                      \/ Provision(n) \/ NodeReset(n)
                      \/ \E addr \in Addresses \cup {All} : pingNeighbors(n, addr)
                      \/ m_opcode_handlers(n)
               PROVE TypeOK'
    BY <2>1 DEF Next
  <2>2. CASE Provision(n)
    BY <2>2 DEF Provision
  <2>3. CASE NodeReset(n)
    BY <2>3 DEF NodeReset
  <2>4. ASSUME NEW addr \in Addresses \cup {All}, pingNeighbors(n, addr)
        PROVE TypeOK'
    <3>1. address[n] \in Addresses /\ pings' \in 1 .. MaxPings /\ pings' \in 0 .. MaxPings
      BY <2>4 DEF pingNeighbors
    <3>2. [op |-> "ping", ping |-> pings', src |-> address[n], dst |-> All,
           to |-> addr, from |-> address[n]] \in Messages
      BY <3>1 DEF Messages, Pings
    <3>3. air' \subseteq Messages
      BY <2>4, <3>2 DEF pingNeighbors
    <3> QED
      BY <2>4, <3>1, <3>3 DEF pingNeighbors
  <2>5. CASE handle_ping(n)
    <3>1. PICK m \in air :
            /\ m.op = "ping" /\ Receive(n, m)
            /\ air' = air \cup IF Answers(n, m) THEN {Reply(n, m)} ELSE {}
            /\ UNCHANGED <<address, owner, pings, log>>
      BY <2>5 DEF handle_ping
    <3>2. m \in Messages /\ address[n] \in Addresses
      BY <3>1 DEF Receive, Reaches
    <3>3. Reply(n, m) \in Messages
      BY <3>2 DEF Reply, Messages, Pings, Replies
    <3>4. air' \subseteq Messages
      BY <3>1, <3>3
    <3> QED
      BY <3>1, <3>2, <3>4 DEF Receive
  <2>6. CASE handle_ping_reply(n)
    <3>1. PICK m \in air :
            /\ Receive(n, m)
            /\ log' = log \cup Logged(n, m)
            /\ UNCHANGED <<address, owner, air, pings>>
      BY <2>6 DEF handle_ping_reply
    <3>2. m \in Messages
      BY <3>1
    <3>3. Logged(n, m) \subseteq LogEntries
      BY <3>2 DEF Logged, Messages, Pings, Replies, LogEntries
    <3> QED
      BY <3>1, <3>2, <3>3 DEF Receive
  <2> QED
    BY <2>2, <2>3, <2>4, <2>5, <2>6 DEF m_opcode_handlers
<1> QED
  BY <1>1, <1>2, PTL DEF Spec

---------------------------------------------------------------------------

\* No message, no log, no address given out: the invariant holds at first.
LEMMA InitInv == Init => Inv
  BY AddressAssumption
  DEF Init, Inv, TypeOK, Owned, PingIsOwned, Answered, OwnReplyIsLost,
      NeighbourIsReal, NeverItself

\* Giving out a fresh address disturbs nothing that names an owner.
LEMMA ProvisionInv ==
  ASSUME Inv, TypeOK', NEW n \in Nodes, Provision(n) PROVE Inv'
<1> USE AddressAssumption
<1>1. PICK a \in Addresses : /\ owner[a] = NoNode
                             /\ owner' = [owner EXCEPT ![a] = n]
                             /\ address' = [address EXCEPT ![n] = a]
  BY DEF Provision
<1>2. UNCHANGED <<air, received, pings, log>>
  BY DEF Provision
<1>3. \A b \in Addresses : owner[b] # NoNode => b # a /\ owner'[b] = owner[b]
  BY <1>1 DEF Inv, TypeOK
<1>3a. air \subseteq Messages /\ log \subseteq LogEntries
  BY DEF Inv, TypeOK
<1>4. Owned'
  BY <1>1, <1>3 DEF Inv, Owned, TypeOK
<1>5. PingIsOwned'
  BY <1>2, <1>3, <1>3a DEF Inv, PingIsOwned, Messages, Pings, Replies
<1>6. Answered'
  BY <1>2, <1>3, <1>3a DEF Inv, Answered, Messages, Pings, Replies
<1>7. \A m \in air : m.op = "reply" =>
        /\ m.from \in Addresses /\ m.to \in Addresses
        /\ owner[m.from] # NoNode /\ owner[m.to] # NoNode
  <2>1. \A p \in air : p.op = "ping" => p.from \in Addresses /\ owner[p.from] # NoNode
    BY <1>3a DEF Inv, PingIsOwned, Messages, Pings, Replies
  <2> QED
    BY <1>3a, <2>1 DEF Inv, Answered, Messages, Pings, Replies
<1>8. OwnReplyIsLost'
  BY <1>1, <1>2, <1>3, <1>7 DEF Inv, OwnReplyIsLost, TypeOK
<1>9. NeighbourIsReal'
  <2> SUFFICES ASSUME NEW e \in log
               PROVE /\ \E p \in Sent("ping", e.ping) :
                          owner'[p.from] = e.node /\ p.to \in {All, e.neighbour}
                     /\ \E r \in Sent("reply", e.ping) :
                          r.src = e.neighbour /\ owner'[r.src] # NoNode
    BY <1>2 DEF NeighbourIsReal, Sent
  <2>1. PICK p \in Sent("ping", e.ping) :
          owner[p.from] = e.node /\ p.to \in {All, e.neighbour}
    BY DEF Inv, NeighbourIsReal
  <2>2. PICK r \in Sent("reply", e.ping) :
          r.src = e.neighbour /\ owner[r.src] # NoNode
    BY DEF Inv, NeighbourIsReal
  <2>3. p.from \in Addresses /\ r.src \in Addresses /\ e.node # NoNode
    BY <1>3a DEF Sent, Messages, Pings, Replies, LogEntries
  <2> QED
    BY <1>3, <2>1, <2>2, <2>3
<1>10. NeverItself'
  <2>1. \A e \in log : e.neighbour \in Addresses /\ owner[e.neighbour] # NoNode
    BY <1>3a DEF Inv, NeighbourIsReal, LogEntries
  <2> QED
    BY <1>2, <1>3, <2>1 DEF Inv, NeverItself
<1> QED
  BY <1>4, <1>5, <1>6, <1>8, <1>9, <1>10 DEF Inv

\* A node that leaves has no address any more; nothing else changes.
LEMMA NodeResetInv ==
  ASSUME Inv, TypeOK', NEW n \in Nodes, NodeReset(n) PROVE Inv'
<1> USE AddressAssumption DEF Inv
<1>1. /\ address' = [address EXCEPT ![n] = NoAddress]
      /\ UNCHANGED <<owner, air, pings, log>>
  BY DEF NodeReset
<1>2. \A k \in Nodes : address'[k] \in {address[k], NoAddress}
  BY <1>1 DEF TypeOK
<1>3. Owned'
  BY <1>1, <1>2 DEF Owned
<1>4. PingIsOwned' /\ Answered' /\ NeighbourIsReal' /\ NeverItself'
  BY <1>1 DEF PingIsOwned, Answered, NeighbourIsReal, NeverItself, Sent
<1>5. OwnReplyIsLost'
  <2>1. \A m \in air : m.op = "reply" => m.to # NoAddress
    BY DEF TypeOK, Messages, Pings, Replies
  <2> QED
    BY <1>1, <1>2, <2>1 DEF OwnReplyIsLost
<1> QED
  BY <1>3, <1>4, <1>5

\* A ping names the address its node has at that moment.
LEMMA PingInv ==
  ASSUME Inv, TypeOK', NEW n \in Nodes, NEW addr \in Addresses \cup {All},
         pingNeighbors(n, addr)
  PROVE  Inv'
<1> USE AddressAssumption DEF Inv
<1> DEFINE new == [op |-> "ping", ping |-> pings', src |-> address[n],
                   dst |-> All, to |-> addr, from |-> address[n]]
<1>1. air' = air \cup {new} /\ UNCHANGED <<address, owner, received, log>>
  BY DEF pingNeighbors
<1>2. new.op = "ping" /\ owner[new.from] # NoNode
  BY DEF pingNeighbors, Owned
<1> HIDE DEF new
<1>3. Owned' /\ NeverItself'
  BY <1>1 DEF Owned, NeverItself
<1>4. PingIsOwned'
  BY <1>1, <1>2 DEF PingIsOwned
<1>5. Answered' /\ OwnReplyIsLost'
  BY <1>1, <1>2 DEF Answered, OwnReplyIsLost
<1>6. NeighbourIsReal'
  BY <1>1 DEF NeighbourIsReal, Sent
<1> QED
  BY <1>3, <1>4, <1>5, <1>6

\* A reply names the node that sends it and goes to the source of a ping; if
\* that is the node itself it is under an address the node no longer has.
LEMMA HandlePingInv ==
  ASSUME Inv, TypeOK', NEW n \in Nodes, handle_ping(n) PROVE Inv'
<1> USE AddressAssumption DEF Inv
<1>1. PICK m \in air :
        /\ m.op = "ping" /\ Receive(n, m)
        /\ air' = air \cup IF Answers(n, m) THEN {Reply(n, m)} ELSE {}
        /\ UNCHANGED <<address, owner, pings, log>>
  BY DEF handle_ping
<1>2. CASE ~Answers(n, m)
  <2>1. air' = air
    BY <1>1, <1>2
  <2> QED
    BY <1>1, <2>1 DEF Owned, PingIsOwned, Answered, OwnReplyIsLost,
                      NeighbourIsReal, NeverItself, Sent
<1>3. CASE Answers(n, m)
  <2> DEFINE new == Reply(n, m)
  <2>1. air' = air \cup {new}
    BY <1>1, <1>3
  <2>2. /\ new.op = "reply" /\ new.ping = m.ping
        /\ new.src = address[n] /\ new.from = address[n] /\ new.to = m.from
    BY DEF Reply
  <2> HIDE DEF new
  <2>3. address[n] # NoAddress /\ owner[address[n]] = n
    BY <1>1 DEF Receive, Reaches, Owned
  <2>4. Owned' /\ NeverItself'
    BY <1>1 DEF Owned, NeverItself
  <2>5. PingIsOwned'
    BY <1>1, <2>1, <2>2 DEF PingIsOwned
  <2>6. Answered'
    <3> SUFFICES ASSUME NEW r \in air', r.op = "reply"
                 PROVE /\ r.src = r.from /\ owner[r.from] # NoNode
                       /\ \E p \in air : /\ p.op = "ping" /\ p.ping = r.ping
                                         /\ p.from = r.to /\ p.to \in {All, r.from}
      BY <1>1, <2>1 DEF Answered
    <3>1. CASE r \in air
      BY <3>1 DEF Answered
    <3>2. CASE r = new
      BY <1>1, <1>3, <2>2, <2>3, <3>2 DEF Answers
    <3> QED
      BY <2>1, <3>1, <3>2
  <2>7. OwnReplyIsLost'
    <3>1. owner[new.from] = owner[new.to] => \A k \in Nodes : address[k] # new.to
      <4> SUFFICES ASSUME owner[new.from] = owner[new.to],
                          NEW k \in Nodes, address[k] = new.to
                   PROVE FALSE
        OBVIOUS
      <4>1. m.from # NoAddress /\ m.from # address[n]
        BY <1>1, <1>3 DEF TypeOK, Messages, Pings, Replies, Answers
      <4>2. owner[address[k]] = k
        BY <2>2, <4>1 DEF Owned
      <4> QED
        BY <2>2, <2>3, <4>1, <4>2
    <3> QED
      BY <1>1, <2>1, <3>1 DEF OwnReplyIsLost
  <2>8. NeighbourIsReal'
    BY <1>1, <2>1 DEF NeighbourIsReal, Sent
  <2> QED
    BY <2>4, <2>5, <2>6, <2>7, <2>8
<1> QED
  BY <1>2, <1>3

\* A node that takes a reply owns the address the ping was sent from.
LEMMA HandleReplyInv ==
  ASSUME Inv, TypeOK', NEW n \in Nodes, handle_ping_reply(n) PROVE Inv'
<1> USE AddressAssumption DEF Inv
<1>1. PICK m \in air :
        /\ m.op = "reply" /\ Receive(n, m)
        /\ log' = log \cup Logged(n, m)
        /\ UNCHANGED <<address, owner, air, pings>>
  BY DEF handle_ping_reply
<1>2. Owned' /\ PingIsOwned' /\ Answered' /\ OwnReplyIsLost'
  BY <1>1 DEF Owned, PingIsOwned, Answered, OwnReplyIsLost
<1>3. CASE m.to # address[n]
  <2>1. log' = log
    BY <1>1, <1>3 DEF Logged
  <2> QED
    BY <1>1, <1>2, <2>1 DEF NeighbourIsReal, NeverItself, Sent
<1>4. CASE m.to = address[n]
  <2> DEFINE new == [node |-> n, neighbour |-> m.from, ping |-> m.ping]
  <2>1. log' = log \cup {new}
    BY <1>1, <1>4 DEF Logged
  <2>2. new.node = n /\ new.neighbour = m.from /\ new.ping = m.ping
    OBVIOUS
  <2> HIDE DEF new
  <2>3. address[n] # NoAddress /\ owner[m.to] = n
    BY <1>1, <1>4 DEF Receive, Reaches, Owned
  <2>4. NeighbourIsReal'
    <3>1. PICK p \in air : /\ p.op = "ping" /\ p.ping = m.ping
                           /\ p.from = m.to /\ p.to \in {All, m.from}
      BY <1>1 DEF Answered
    <3>2. p \in Sent("ping", m.ping) /\ m \in Sent("reply", m.ping)
      BY <1>1, <3>1 DEF Sent
    <3>3. m.src = m.from /\ owner[m.src] # NoNode
      BY <1>1 DEF Answered
    <3>4. /\ \E q \in Sent("ping", new.ping) :
               owner[q.from] = new.node /\ q.to \in {All, new.neighbour}
          /\ \E r \in Sent("reply", new.ping) :
               r.src = new.neighbour /\ owner[r.src] # NoNode
      BY <2>2, <2>3, <3>1, <3>2, <3>3
    <3> QED
      BY <1>1, <2>1, <3>4 DEF NeighbourIsReal, Sent
  <2>5. owner[m.from] # n
    BY <1>1, <1>4, <2>3 DEF OwnReplyIsLost
  <2>6. NeverItself'
    BY <1>1, <2>1, <2>2, <2>5 DEF NeverItself
  <2> QED
    BY <1>2, <2>4, <2>6
<1> QED
  BY <1>3, <1>4

---------------------------------------------------------------------------

\* Every action of the network and of the firmware preserves the invariant.
LEMMA Inductive == Spec => []Inv
<1>1. Inv /\ TypeOK' /\ [Next]_vars => Inv'
  <2> SUFFICES ASSUME Inv, TypeOK', [Next]_vars PROVE Inv'
    OBVIOUS
  <2>1. CASE UNCHANGED vars
    BY <2>1 DEF vars, Inv, TypeOK, Owned, PingIsOwned, Answered, OwnReplyIsLost,
                NeighbourIsReal, NeverItself, Sent
  <2>2. CASE Next
    BY <2>2, ProvisionInv, NodeResetInv, PingInv, HandlePingInv, HandleReplyInv
    DEF Next, m_opcode_handlers
  <2> QED
    BY <2>1, <2>2
<1> QED
  BY <1>1, InitInv, TypeCorrect, PTL DEF Spec

\* A logged neighbour answered a ping of the node that logs it, one that was
\* meant for it (handle_ping and handle_ping_reply).
THEOREM LoggedNeighbour == Spec => []NeighbourIsReal
<1>1. Inv => NeighbourIsReal
  BY DEF Inv
<1> QED
  BY <1>1, Inductive, PTL

\* No node takes itself for a neighbour, whatever addresses it has had.
THEOREM NoSelfDiscovery == Spec => []NeverItself
<1>1. Inv => NeverItself
  BY DEF Inv
<1> QED
  BY <1>1, Inductive, PTL

---------------------------------------------------------------------------

\* Nothing has been sent.
LEMMA InitMissed == Init => NothingMissed
BY AddressAssumption DEF Init, NothingMissed, OnePing, Forgotten, AllAnswered, AllLogged

\* A node that joins or leaves has received nothing under its new address.
LEMMA MembershipMissed ==
  ASSUME TypeOK, NothingMissed, NEW n \in Nodes, Provision(n) \/ NodeReset(n)
  PROVE  NothingMissed'
<1>1. /\ UNCHANGED <<air, pings, log>>
      /\ \A k \in Nodes : k # n => address'[k] = address[k] /\ received'[k] = received[k]
      /\ received'[n] = {}
  <2>1. CASE Provision(n)
    BY <2>1 DEF Provision, TypeOK, NothingMissed, Forgotten
  <2>2. CASE NodeReset(n)
    BY <2>2 DEF NodeReset, TypeOK
  <2> QED
    BY <2>1, <2>2
<1>2. OnePing' /\ Forgotten'
  BY <1>1 DEF NothingMissed, OnePing, Forgotten
<1>3. AllAnswered'
  BY <1>1 DEF NothingMissed, AllAnswered, Answers, Reply
<1>4. AllLogged'
  BY <1>1 DEF NothingMissed, AllLogged
<1> QED
  BY <1>2, <1>3, <1>4 DEF NothingMissed

\* A ping has a number of its own.
LEMMA PingMissed ==
  ASSUME TypeOK, NothingMissed, NEW n \in Nodes, NEW addr \in Addresses \cup {All},
         pingNeighbors(n, addr)
  PROVE  NothingMissed'
<1> DEFINE new == [op |-> "ping", ping |-> pings', src |-> address[n],
                   dst |-> All, to |-> addr, from |-> address[n]]
<1>1. /\ air' = air \cup {new} /\ pings' = pings + 1 /\ pings \in Nat
      /\ UNCHANGED <<address, owner, received, log>>
  BY AddressAssumption DEF pingNeighbors, TypeOK
<1>2. new.op = "ping" /\ new.ping = pings' /\ new.src = new.from
  OBVIOUS
<1> HIDE DEF new
<1>3. \A m \in air : m.ping \in Nat /\ m.ping <= pings
  BY AddressAssumption DEF TypeOK, Messages, Pings, Replies, NothingMissed, OnePing
<1>4. \A m \in air : m.ping <= pings' /\ m.ping # pings'
  BY <1>1, <1>3
<1>5. OnePing'
  BY <1>1, <1>2, <1>4 DEF NothingMissed, OnePing
<1>6. Forgotten' /\ AllLogged'
  BY <1>1 DEF NothingMissed, Forgotten, AllLogged
<1>7. AllAnswered'
  BY <1>1 DEF NothingMissed, AllAnswered, Answers, Reply
<1> QED
  BY <1>5, <1>6, <1>7 DEF NothingMissed

\* What a node takes is added to what it has taken.
LEMMA Taken ==
  ASSUME TypeOK, NEW n \in Nodes, NEW m, Receive(n, m)
  PROVE  /\ address[n] # NoAddress
         /\ received'[n] = received[n] \cup {m}
         /\ \A k \in Nodes : k # n => received'[k] = received[k]
BY DEF Receive, Reaches, TypeOK

\* A ping that is meant for the node is answered in the step that takes it.
LEMMA HandlePingMissed ==
  ASSUME TypeOK, NothingMissed, NEW n \in Nodes, handle_ping(n) PROVE NothingMissed'
<1>1. PICK m \in air :
        /\ m.op = "ping" /\ Receive(n, m)
        /\ air' = air \cup IF Answers(n, m) THEN {Reply(n, m)} ELSE {}
        /\ UNCHANGED <<address, owner, pings, log>>
  BY DEF handle_ping
<1>2. /\ address[n] # NoAddress /\ received'[n] = received[n] \cup {m}
      /\ \A k \in Nodes : k # n => received'[k] = received[k]
  BY <1>1, Taken
<1>3. OnePing'
  <2>1. Reply(n, m).op = "reply" /\ Reply(n, m).ping = m.ping
    BY DEF Reply
  <2>2. \A k \in air' : k \in air \/ k = Reply(n, m)
    BY <1>1
  <2>3. \A k \in air' : k \in air \/ (k.op = "reply" /\ k.ping = m.ping)
    BY <2>1, <2>2
  <2> QED
    BY <1>1, <2>3 DEF NothingMissed, OnePing
<1>4. Forgotten'
  BY <1>1, <1>2 DEF NothingMissed, Forgotten
<1>5. AllAnswered'
  <2> SUFFICES ASSUME NEW k \in Nodes, NEW p \in received'[k], p.op = "ping", Answers(k, p)
               PROVE  Reply(k, p) \in air'
    BY <1>1 DEF AllAnswered, Answers, Reply
  <2>1. CASE p \in received[k]
    BY <1>1, <2>1 DEF NothingMissed, AllAnswered
  <2>2. CASE p \notin received[k]
    <3>1. k = n /\ p = m
      BY <1>2, <2>2
    <3> QED
      BY <1>1, <3>1
  <2> QED
    BY <2>1, <2>2
<1>6. AllLogged'
  BY <1>1, <1>2 DEF NothingMissed, AllLogged
<1> QED
  BY <1>3, <1>4, <1>5, <1>6 DEF NothingMissed

\* A reply to the node is logged in the step that takes it.
LEMMA HandleReplyMissed ==
  ASSUME TypeOK, NothingMissed, NEW n \in Nodes, handle_ping_reply(n) PROVE NothingMissed'
<1>1. PICK m \in air :
        /\ m.op = "reply" /\ Receive(n, m)
        /\ log' = log \cup Logged(n, m)
        /\ UNCHANGED <<address, owner, air, pings>>
  BY DEF handle_ping_reply
<1>2. /\ address[n] # NoAddress /\ received'[n] = received[n] \cup {m}
      /\ \A k \in Nodes : k # n => received'[k] = received[k]
  BY <1>1, Taken
<1>3. OnePing' /\ Forgotten'
  BY <1>1, <1>2 DEF NothingMissed, OnePing, Forgotten
<1>4. AllAnswered'
  BY <1>1, <1>2 DEF NothingMissed, AllAnswered, Answers, Reply
<1>5. AllLogged'
  <2> SUFFICES ASSUME NEW k \in Nodes, NEW r \in received'[k], r.op = "reply",
                      r.to = address[k]
               PROVE  [node |-> k, neighbour |-> r.from, ping |-> r.ping] \in log'
    BY <1>1 DEF AllLogged
  <2>1. CASE r \in received[k]
    BY <1>1, <2>1 DEF NothingMissed, AllLogged
  <2>2. CASE r \notin received[k]
    <3>1. k = n /\ r = m
      BY <1>2, <2>2
    <3> QED
      BY <1>1, <3>1 DEF Logged
  <2> QED
    BY <2>1, <2>2
<1> QED
  BY <1>3, <1>4, <1>5 DEF NothingMissed

\* No node misses a message it has taken.
LEMMA MissesNothing == Spec => []NothingMissed
<1>1. TypeOK /\ NothingMissed /\ [Next]_vars => NothingMissed'
  <2> SUFFICES ASSUME TypeOK, NothingMissed, [Next]_vars PROVE NothingMissed'
    OBVIOUS
  <2>1. CASE UNCHANGED vars
    BY <2>1 DEF vars, NothingMissed, OnePing, Forgotten, AllAnswered, AllLogged, Answers, Reply
  <2>2. CASE Next
    BY <2>2, MembershipMissed, PingMissed, HandlePingMissed, HandleReplyMissed
    DEF Next, m_opcode_handlers
  <2> QED
    BY <2>1, <2>2
<1> QED
  BY <1>1, InitMissed, TypeCorrect, PTL DEF Spec

\* In a network nobody has left, when nothing is in flight any more, a node has
\* logged exactly the nodes its ping was meant for (pingNeighbors, handle_ping and
\* handle_ping_reply agree on the payload).
THEOREM Discovery == Spec => []NeighboursAreFound
<1>1. Inv /\ NothingMissed => NeighboursAreFound
  <2> SUFFICES ASSUME Inv, NothingMissed,
                      \A a \in Addresses : owner[a] # NoNode => address[owner[a]] = a,
                      \A n \in Nodes, m \in air : Reaches(m, n) => m \in received[n],
                      NEW p \in air, p.op = "ping"
               PROVE  {e.neighbour : e \in {x \in log : x.ping = p.ping}} =
                        {a \in Addresses : owner[a] # NoNode /\ a # p.from
                                             /\ p.to \in {All, a}}
    BY DEF NeighboursAreFound
  <2>1. /\ p.from \in Addresses /\ p.dst = All /\ p.src = p.from
        /\ owner[p.from] \in Nodes /\ address[owner[p.from]] = p.from
    BY DEF Inv, TypeOK, Messages, Pings, Replies, PingIsOwned, NothingMissed, OnePing
  \* Whoever is logged was meant.
  <2>2. ASSUME NEW e \in log, e.ping = p.ping
        PROVE  /\ e.neighbour \in Addresses /\ owner[e.neighbour] # NoNode
               /\ e.neighbour # p.from /\ p.to \in {All, e.neighbour}
    <3>1. PICK q \in Sent("ping", e.ping) : owner[q.from] = e.node /\ q.to \in {All, e.neighbour}
      BY DEF Inv, NeighbourIsReal
    <3>2. q = p
      BY <2>2, <3>1 DEF Sent, NothingMissed, OnePing
    <3>3. owner[e.neighbour] # NoNode
      BY DEF Inv, NeighbourIsReal
    <3>4. owner[e.neighbour] # e.node
      BY DEF Inv, NeverItself
    <3>5. e.neighbour \in Addresses
      BY DEF Inv, TypeOK, LogEntries
    <3> QED
      BY <3>1, <3>2, <3>3, <3>4, <3>5
  \* Whoever was meant has answered, and the answer has been taken.
  <2>3. ASSUME NEW a \in Addresses, owner[a] # NoNode, a # p.from, p.to \in {All, a}
        PROVE  \E e \in log : e.ping = p.ping /\ e.neighbour = a
    <3> DEFINE n == owner[a]  k == owner[p.from]  r == Reply(n, p)
    <3>1. n \in Nodes /\ address[n] = a /\ a # NoAddress
      BY <2>3, AddressAssumption DEF Inv, TypeOK
    <3>2. p \in received[n]
      BY <2>1, <3>1 DEF Reaches
    <3>3. r \in air
      BY <2>3, <3>1, <3>2 DEF NothingMissed, AllAnswered, Answers
    <3>4. /\ r.op = "reply" /\ r.ping = p.ping /\ r.dst = p.from /\ r.to = p.from
          /\ r.from = a
      BY <2>1, <3>1 DEF Reply
    <3> HIDE DEF r
    <3>5. k \in Nodes /\ address[k] = p.from /\ p.from # NoAddress
      BY <2>1, AddressAssumption
    <3>6. r \in received[k]
      BY <3>3, <3>4, <3>5 DEF Reaches
    <3>7. [node |-> k, neighbour |-> a, ping |-> p.ping] \in log
      BY <3>4, <3>5, <3>6 DEF NothingMissed, AllLogged
    <3> QED
      BY <3>7
  <2> QED
    BY <2>2, <2>3
<1> QED
  BY <1>1, Inductive, MissesNothing, PTL
=============================================================================
