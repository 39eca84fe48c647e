------------------------------ MODULE MeshPing ------------------------------
(***************************************************************************)
(* The neighbour discovery of src/model_handler.c and src/chat_cli.c: key  *)
(* 1 publishes a ping, a node that is meant by it replies to its source,   *)
(* and the source logs the reply.  No node keeps state about it: all there *)
(* is to go by is the payload <<addressee, own address>> of the messages.  *)
(*                                                                         *)
(* The mesh loses messages, delivers them in any order, hands a node its   *)
(* own publications too, and shows a message to a node once (its replay    *)
(* protection).  Nodes leave and join the network between the two halves   *)
(* of an exchange; an address is not given out twice.                      *)
(***************************************************************************)
EXTENDS Naturals

CONSTANTS
  Nodes,        \* devices that run this firmware
  Addresses,    \* unicast addresses of the network
  NoAddress,    \* the address of a node that is not in the network
  NoNode,       \* the owner of an address not given out
  All,          \* 0xFFFF in a payload, and the group pings are published to
  MaxPings      \* bound of the model: pings sent

ASSUME AddressAssumption ==
  /\ All \notin Addresses /\ NoAddress \notin Addresses \cup {All}
  /\ NoNode \notin Nodes
  /\ MaxPings \in Nat

VARIABLES
  address,   \* local unicast address of a node, or NoAddress
  owner,     \* the node an address has been given to
  air,       \* every message sent
  received,  \* the messages a node's replay protection has seen
  pings,     \* number of pings sent
  log        \* what handle_ping_reply has logged, with the ping it is due to

vars == <<address, owner, air, received, pings, log>>

\* payload[0] is to, payload[1] is from; ping is not sent, it tells the
\* exchanges of the model apart.
Pings ==
  [op : {"ping"}, ping : 1 .. MaxPings, src : Addresses, dst : {All},
   to : Addresses \cup {All}, from : Addresses]
Replies ==
  [op : {"reply"}, ping : 1 .. MaxPings, src : Addresses, dst : Addresses,
   to : Addresses, from : Addresses]
Messages == Pings \cup Replies

LogEntries == [node : Nodes, neighbour : Addresses, ping : 1 .. MaxPings]

Init ==
  /\ address = [n \in Nodes |-> NoAddress]
  /\ owner = [a \in Addresses |-> NoNode]
  /\ air = {} /\ received = [n \in Nodes |-> {}]
  /\ pings = 0 /\ log = {}

---------------------------------------------------------------------------
(* The network *)

Provision(n) ==
  /\ address[n] = NoAddress
  /\ \E a \in Addresses :
       /\ owner[a] = NoNode
       /\ owner' = [owner EXCEPT ![a] = n]
       /\ address' = [address EXCEPT ![n] = a]
  /\ UNCHANGED <<air, received, pings, log>>

NodeReset(n) ==
  /\ address[n] # NoAddress
  /\ address' = [address EXCEPT ![n] = NoAddress]
  /\ received' = [received EXCEPT ![n] = {}]
  /\ UNCHANGED <<owner, air, pings, log>>

Reaches(m, n) == address[n] # NoAddress /\ m.dst \in {All, address[n]}

Receive(n, m) ==
  /\ Reaches(m, n) /\ m \notin received[n]
  /\ received' = [received EXCEPT ![n] = @ \cup {m}]

---------------------------------------------------------------------------
(* The firmware *)

\* A node without an address has no publication either: nothing is sent.
pingNeighbors(n, addr) ==
  /\ address[n] # NoAddress /\ pings < MaxPings
  /\ pings' = pings + 1
  /\ air' = air \cup
       {[op |-> "ping", ping |-> pings', src |-> address[n], dst |-> All,
         to |-> addr, from |-> address[n]]}
  /\ UNCHANGED <<address, owner, received, log>>

\* Mutant: a node does not recognise its own ping.
AnswersItself(n, m) == m.to \in {All, address[n]}

\* Mutant: a ping to one node is answered by all.
AnswersAny(n, m) == m.from # address[n]

Answers(n, m) == m.from # address[n] /\ m.to \in {All, address[n]}

\* Mutant: the payload is sent back as it came.
EchoedReply(n, m) ==
  [op |-> "reply", ping |-> m.ping, src |-> address[n], dst |-> m.src,
   to |-> m.to, from |-> m.from]

Reply(n, m) ==
  [op |-> "reply", ping |-> m.ping, src |-> address[n], dst |-> m.src,
   to |-> m.from, from |-> address[n]]

handle_ping(n) ==
  \E m \in air :
    /\ m.op = "ping"
    /\ Receive(n, m)
    /\ air' = air \cup IF Answers(n, m) THEN {Reply(n, m)} ELSE {}
    /\ UNCHANGED <<address, owner, pings, log>>

Logged(n, m) ==
  IF m.to = address[n]
  THEN {[node |-> n, neighbour |-> m.from, ping |-> m.ping]} ELSE {}

handle_ping_reply(n) ==
  \E m \in air :
    /\ m.op = "reply"
    /\ Receive(n, m)
    /\ log' = log \cup Logged(n, m)
    /\ UNCHANGED <<address, owner, air, pings>>

\* What a node does with what the mesh hands it (m_opcode_handlers).
m_opcode_handlers(n) == handle_ping(n) \/ handle_ping_reply(n)

Next ==
  \E n \in Nodes :
    \/ Provision(n) \/ NodeReset(n)
    \/ \E addr \in Addresses \cup {All} : pingNeighbors(n, addr)
    \/ m_opcode_handlers(n)

Spec == Init /\ [][Next]_vars

---------------------------------------------------------------------------
(* Properties *)

TypeOK ==
  /\ address \in [Nodes -> Addresses \cup {NoAddress}]
  /\ owner \in [Addresses -> Nodes \cup {NoNode}]
  /\ air \subseteq Messages
  /\ received \in [Nodes -> SUBSET Messages]
  /\ pings \in 0 .. MaxPings
  /\ log \subseteq LogEntries

Sent(op, k) == {m \in air : m.op = op /\ m.ping = k}

\* A reply a node logs belongs to a ping that node has sent, from the node it
\* names, which was meant by the ping: no reply to somebody else, or to an
\* address the node had in an earlier life, is taken for a neighbour.
NeighbourIsReal ==
  \A e \in log :
    /\ \E p \in Sent("ping", e.ping) :
         owner[p.from] = e.node /\ p.to \in {All, e.neighbour}
    /\ \E r \in Sent("reply", e.ping) :
         r.src = e.neighbour /\ owner[r.src] # NoNode

\* No node finds itself: its own ping may come back to it, late or under an
\* address it no longer has ("don't reply to own ping").
NeverItself == \A e \in log : owner[e.neighbour] # e.node

\* The two handlers agree on the payload: in a network nobody has left, when
\* nothing is in flight any more, the pinging node has logged every node its
\* ping was meant for, and no other.
NeighboursAreFound ==
  LET Stable == \A a \in Addresses : owner[a] # NoNode => address[owner[a]] = a
      Quiet == \A n \in Nodes, m \in air : Reaches(m, n) => m \in received[n]
      Meant(p) == {a \in Addresses : owner[a] # NoNode /\ a # p.from
                                     /\ p.to \in {All, a}}
  IN  Stable /\ Quiet =>
        \A p \in {m \in air : m.op = "ping"} :
          {e.neighbour : e \in {x \in log : x.ping = p.ping}} = Meant(p)
=============================================================================
