--------------------------- MODULE RangingProofs ---------------------------
(***************************************************************************)
(* Proofs about Ranging, for every number of nodes and every width of the  *)
(* sequence numbers.                                                       *)
(*                                                                         *)
(* RotationInv ties the target, the counters and the poll message to       *)
(* tx_count by division; ChipInv says how old the frame in the chip and    *)
(* the copy in rx_buffer can be at each step.  Together they are inductive.*)
(***************************************************************************)
EXTENDS RangingRefines, TLAPS

\* The node polled in exchange k.
NodeOf(k) == ((k - 1) % NumNodes) + 1

\* How often frame_incr has counted node n after k exchanges.
Laps(k, n) == (k \div NumNodes) + (IF n <= k % NumNodes THEN 1 ELSE 0)

\* Exchanges whose number has been spent: all but the one being polled.
Spent == IF step = "poll" THEN tx_count - 1 ELSE tx_count

RotationInv ==
  /\ tx_count = 0 => target_node = 0
  /\ tx_count > 0 => /\ target_node = NodeOf(tx_count)
                     /\ tx_poll_msg.dest = target_node
                     /\ tx_poll_msg.sn = ((tx_count - 1) \div NumNodes) % SeqMod
  /\ \A n \in Node : frame_seq_nb[n] = Laps(Spent, n) % SeqMod
  /\ step \in {"boot", "halted", "idle"} => tx_count % NumNodes = 0
  /\ step \notin {"boot", "halted", "idle"} =>
       tx_count % NumNodes = calls % NumNodes
  /\ step \notin {"boot", "halted", "idle", "begin"} => tx_count > 0
  /\ calls <= NumNodes /\ (step = "begin" => calls < NumNodes)

\* An answer to one of our polls comes from the node of that exchange.
Consistent(f) ==
  f.ex # Elsewhere => f.ex \in 1 .. tx_count /\ f.from = NodeOf(f.ex)

\* Without other initiators a response answers one of our polls.
Solitary(f) == ~OtherInitiators => (f.from # Other => f.ex # Elsewhere)

ChipInv ==
  /\ radio # "off" =>
       tx_count > 0 /\ step \notin {"boot", "halted", "idle", "begin"}
  /\ radio = "rx" => tx_stamp = tx_count
  /\ rx_frame.len = "whole"
  /\ Consistent(rx_frame) /\ Solitary(rx_frame)
  /\ rx_frame.ex # Elsewhere => rx_stamp = rx_frame.ex
  /\ rx_frame.ex # Elsewhere /\ rx_frame.ex = tx_count =>
       radio = "off" /\ tx_stamp = tx_count
  /\ GoodEvent \in status /\ rx_frame.ex # Elsewhere =>
       /\ rx_frame.ex >= tx_count - 1
       /\ step \notin {"poll", "good"} => rx_frame.ex = tx_count
  /\ step = "good" => GoodEvent \in status
  /\ step \in {"length", "read"} /\ rx_frame.ex # Elsewhere =>
       rx_frame.ex >= tx_count - 1
  /\ step = "read" => frame_len = "whole"

BufferInv ==
  /\ step \in {"check", "compute"} => Solitary(rx_buffer)
  /\ step = "check" /\ rx_buffer.ex # Elsewhere =>
       /\ Consistent(rx_buffer)
       /\ rx_buffer.ex >= tx_count - 1
       /\ rx_buffer.ex = tx_count => SameFrame(rx_buffer, rx_frame)
  /\ step = "compute" => rx_buffer.from = target_node
  /\ step = "compute" /\ rx_buffer.ex # Elsewhere =>
       rx_buffer.ex = tx_count /\ SameFrame(rx_buffer, rx_frame)

IInv == TypeOK /\ RotationInv /\ ChipInv /\ BufferInv /\ RangeIsCoherent

---------------------------------------------------------------------------
(* Division: what the rotation computes by counting. *)

\* A natural number is its quotient and remainder.
LEMMA QuotRem ==
  ASSUME NEW d \in Nat, d >= 2, NEW k \in Nat
  PROVE  k = d * (k \div d) + (k % d) /\ k \div d \in Nat /\ k % d \in 0 .. d - 1
BY SMT

\* Quotient and remainder are unique.
LEMMA QuotRemUnique ==
  ASSUME NEW d \in Nat, d >= 2, NEW k \in Nat, NEW q \in Nat,
         NEW r \in 0 .. d - 1, k = d * q + r
  PROVE  k % d = r /\ k \div d = q
BY SMT

\* Counting one further moves the remainder, or the quotient and resets it.
LEMMA QuotRemStep ==
  ASSUME NEW d \in Nat, d >= 2, NEW k \in Nat
  PROVE  /\ (k % d) + 1 < d => /\ (k + 1) % d = (k % d) + 1
                               /\ (k + 1) \div d = k \div d
         /\ (k % d) + 1 >= d => /\ (k + 1) % d = 0
                                /\ (k + 1) \div d = (k \div d) + 1
<1> DEFINE q == k \div d
           r == k % d
<1>1. k = d * q + r /\ q \in Nat /\ r \in 0 .. d - 1
  BY QuotRem
<1> HIDE DEF q, r
<1>2. ASSUME r + 1 < d PROVE (k + 1) % d = r + 1 /\ (k + 1) \div d = q
  <2>1. k + 1 = d * q + (r + 1) /\ r + 1 \in 0 .. d - 1 /\ k + 1 \in Nat
    BY <1>1, <1>2
  <2>2. QED
    BY <2>1, <1>1, QuotRemUnique
<1>3. ASSUME r + 1 >= d PROVE (k + 1) % d = 0 /\ (k + 1) \div d = q + 1
  <2>1. k + 1 = d * (q + 1) + 0 /\ q + 1 \in Nat /\ 0 \in 0 .. d - 1 /\ k + 1 \in Nat
    BY <1>1, <1>3
  <2>2. QED
    BY <2>1, QuotRemUnique
<1>4. QED
  BY <1>2, <1>3 DEF q, r

\* Wrapping at every increment is the same as wrapping the count.
LEMMA WrapStep ==
  ASSUME NEW d \in Nat, d >= 2, NEW k \in Nat
  PROVE  (k + 1) % d = ((k % d) + 1) % d
<1>1. k % d \in 0 .. d - 1 /\ 0 \in 0 .. d - 1
  BY QuotRem
<1>2. CASE (k % d) + 1 < d
  <2>1. ((k % d) + 1) % d = (k % d) + 1
    BY <1>1, <1>2
  <2>2. QED
    BY <2>1, <1>2, QuotRemStep
<1>3. CASE (k % d) + 1 >= d
  <2>1. (k % d) + 1 = d
    BY <1>1, <1>3
  <2>2. d = d * 1 + 0
    OBVIOUS
  <2>3. d % d = 0
    BY <2>2, <1>1, QuotRemUnique
  <2>4. QED
    BY <2>1, <2>3, <1>3, QuotRemStep
<1>4. QED
  BY <1>1, <1>2, <1>3

\* target_node follows the closed form of the rotation.
LEMMA NextTargetIsNodeOf ==
  ASSUME NEW k \in Nat, NEW n \in 0 .. NumNodes,
         k = 0 => n = 0, k > 0 => n = NodeOf(k)
  PROVE  NextTarget(n) = NodeOf(k + 1) /\ NextTarget(n) \in Node
<1>1. CASE k = 0
  <2>1. 0 = NumNodes * 0 + 0 /\ 0 \in 0 .. NumNodes - 1
    BY NumNodesAssumption
  <2>2. 0 % NumNodes = 0
    BY <2>1, QuotRemUnique, NumNodesAssumption
  <2>3. (k + 1) - 1 = 0
    BY <1>1
  <2>4. QED
    BY <2>2, <2>3, <1>1, NumNodesAssumption DEF NextTarget, NodeOf, Node
<1>2. CASE k > 0
  <2> DEFINE j == k - 1
  <2>1. j \in Nat /\ j + 1 = k /\ (k + 1) - 1 = k
    BY <1>2
  <2> HIDE DEF j
  <2>2. n = (j % NumNodes) + 1
    BY <1>2 DEF NodeOf, j
  <2>3. j % NumNodes \in 0 .. NumNodes - 1
    BY <2>1, QuotRem, NumNodesAssumption
  <2>4. /\ (j % NumNodes) + 1 < NumNodes => k % NumNodes = (j % NumNodes) + 1
        /\ (j % NumNodes) + 1 >= NumNodes => k % NumNodes = 0
    BY <2>1, QuotRemStep, NumNodesAssumption
  <2>5. NodeOf(k + 1) = (k % NumNodes) + 1
    BY <2>1 DEF NodeOf
  <2>6. QED
    BY <2>2, <2>3, <2>4, <2>5, NumNodesAssumption DEF NextTarget, Node
<1>3. QED
  BY <1>1, <1>2

\* Exchange k + 1 counts its own node and no other.
LEMMA LapsStep ==
  ASSUME NEW k \in Nat, NEW n \in Node
  PROVE  /\ Laps(k, n) \in Nat
         /\ n = NodeOf(k + 1) => Laps(k + 1, n) = Laps(k, n) + 1
                                 /\ Laps(k, n) = k \div NumNodes
         /\ n # NodeOf(k + 1) => Laps(k + 1, n) = Laps(k, n)
<1> DEFINE q == k \div NumNodes
           r == k % NumNodes
           q1 == (k + 1) \div NumNodes
           r1 == (k + 1) % NumNodes
<1>1. q \in Nat /\ r \in 0 .. NumNodes - 1
  BY QuotRem, NumNodesAssumption
<1>2. /\ r + 1 < NumNodes => r1 = r + 1 /\ q1 = q
      /\ r + 1 >= NumNodes => r1 = 0 /\ q1 = q + 1
  BY QuotRemStep, NumNodesAssumption
<1>3. NodeOf(k + 1) = r + 1
  <2>1. (k + 1) - 1 = k
    OBVIOUS
  <2>2. QED
    BY <2>1 DEF NodeOf
<1>4. /\ Laps(k, n) = q + (IF n <= r THEN 1 ELSE 0)
      /\ Laps(k + 1, n) = q1 + (IF n <= r1 THEN 1 ELSE 0)
  BY DEF Laps
<1>5. n \in 1 .. NumNodes
  BY DEF Node
<1> HIDE DEF q, r, q1, r1
<1>6. QED
  BY <1>1, <1>2, <1>3, <1>4, <1>5, NumNodesAssumption DEF q

---------------------------------------------------------------------------
(* The initial state *)

LEMMA InitIInv == Init => IInv
<1> SUFFICES ASSUME Init PROVE IInv
  OBVIOUS
<1>1. TypeOK
  <2> USE NumNodesAssumption, SeqModAssumption DEF Init, Other
  <2>1. step \in Steps /\ tx_poll_msg \in [dest : Node, sn : 0 .. SeqMod - 1]
    BY DEF Steps, Node
  <2>2. /\ rx_buffer \in [from : 0 .. NumNodes, ex : Nat]
        /\ rx_frame \in Frame
    BY DEF NoFrame, Frame, Elsewhere
  <2>3. distance \in Range /\ printed \in [node : 0 .. NumNodes, range : Range]
    BY DEF Range, NoRange
  <2>4. frame_seq_nb \in [Node -> 0 .. SeqMod - 1]
    OBVIOUS
  <2>5. QED
    BY <2>1, <2>2, <2>3, <2>4 DEF TypeOK
<1>2. 0 % NumNodes = 0 /\ 0 \div NumNodes = 0
  <2>1. 0 = NumNodes * 0 + 0 /\ 0 \in 0 .. NumNodes - 1
    BY NumNodesAssumption
  <2>2. QED
    BY <2>1, QuotRemUnique, NumNodesAssumption
<1>3. 0 % SeqMod = 0
  <2>1. 0 = SeqMod * 0 + 0 /\ 0 \in 0 .. SeqMod - 1
    BY SeqModAssumption
  <2>2. QED
    BY <2>1, QuotRemUnique, SeqModAssumption
<1>4. \A n \in Node : Laps(0, n) = 0
  BY <1>2, NumNodesAssumption DEF Laps, Node
<1>5. RotationInv
  BY <1>2, <1>3, <1>4, NumNodesAssumption DEF Init, RotationInv, Spent
<1>6. ChipInv /\ BufferInv /\ RangeIsCoherent
  BY DEF Init, ChipInv, BufferInv, RangeIsCoherent, Consistent, Solitary, NoFrame,
         Other, Elsewhere, NoRange, GoodEvent
<1>7. QED
  BY <1>1, <1>5, <1>6 DEF IInv

---------------------------------------------------------------------------
(* Types *)

LEMMA TypeStep == TypeOK /\ [Next]_vars => TypeOK'
<1> SUFFICES ASSUME TypeOK, [Next]_vars PROVE TypeOK'
  OBVIOUS
<1> USE NumNodesAssumption, SeqModAssumption, MaxTxAssumption, AirAssumption
<1> USE DEF TypeOK, initiator, chip, RunLength
<1>1. CASE DwmInitFails
  BY <1>1 DEF DwmInitFails, Steps
<1>2. CASE breadcrumb_dwm_init
  BY <1>2 DEF breadcrumb_dwm_init, Steps
<1>3. CASE func4
  BY <1>3 DEF func4, Steps
<1>4. CASE StartExchange
  <2>1. NextTarget(target_node) \in Node
    BY DEF NextTarget, Node
  <2>2. target_node' = NextTarget(target_node)
    BY <1>4 DEF StartExchange
  <2>3. target_node' \in Node /\ frame_seq_nb[target_node'] \in 0 .. SeqMod - 1
    BY <2>1, <2>2
  <2>4. tx_poll_msg' \in [dest : Node, sn : 0 .. SeqMod - 1]
    BY <1>4, <2>3 DEF StartExchange
  <2>5. target_node' \in 0 .. NumNodes
    BY <2>3 DEF Node
  <2>6. QED
    BY <1>4, <2>4, <2>5 DEF StartExchange, Steps
<1>5. CASE PollStatus
  <2>1. frame_seq_nb' \in [Node -> 0 .. SeqMod - 1]
    <3>1. \A v \in 0 .. SeqMod - 1 : (v + 1) % SeqMod \in 0 .. SeqMod - 1
      BY QuotRem
    <3>2. QED
      BY <1>5, <3>1 DEF PollStatus, frame_incr
  <2>2. QED
    BY <1>5, <2>1 DEF PollStatus, Steps
<1>6. CASE ClearGoodEvent
  BY <1>6 DEF ClearGoodEvent, Steps
<1>7. CASE ReadLength
  <2>1. frame_len' \in {"whole", "short", "long"}
    BY <1>7 DEF ReadLength, Frame
  <2>2. QED
    BY <1>7, <2>1 DEF ReadLength, Steps
<1>8. CASE ReadFrame
  <2>1. rx_frame.from \in 0 .. NumNodes /\ rx_frame.ex \in Nat
    BY DEF Frame
  <2>2. rx_buffer' \in [from : 0 .. NumNodes, ex : Nat]
    BY <1>8, <2>1 DEF ReadFrame, Copied
  <2>3. QED
    BY <1>8, <2>2 DEF ReadFrame, Steps
<1>9. CASE AcceptResponse
  BY <1>9 DEF AcceptResponse, Steps
<1>10. CASE RejectResponse
  BY <1>10 DEF RejectResponse, Steps
<1>11. CASE ComputeDistance
  <2>1. distance' \in Range
    BY <1>11 DEF ComputeDistance, Range
  <2>2. QED
    BY <1>11, <2>1 DEF ComputeDistance, Steps
<1>12. CASE print_distance
  BY <1>12 DEF print_distance, Steps
<1>13. CASE ClearBadEvents
  BY <1>13 DEF ClearBadEvents, Steps
<1>14. CASE dwt_rxreset
  BY <1>14 DEF dwt_rxreset, Steps
<1>15. CASE Sleep
  BY <1>15 DEF Sleep, Steps
<1>16. CASE TxDone
  BY <1>16 DEF TxDone
<1>17. CASE RxFrame
  <2>1. rx_frame' \in Frame
    <3>1. \A f \in Heard : f \in Frame
      <4>1. SUFFICES ASSUME NEW f \in [from : 0 .. NumNodes,
                                       ex : {Elsewhere, tx_count}, len : FrameLengths]
                     PROVE  f \in Frame
        BY DEF Heard
      <4>2. f.ex \in Nat
        BY DEF Elsewhere
      <4>3. f.len \in {"whole", "short", "long"}
        OBVIOUS
      <4>4. QED
        BY <4>2, <4>3 DEF Frame
    <3>2. QED
      BY <1>17, <3>1 DEF RxFrame
  <2>2. status' \subseteq RxEvents \cup {"TXFRS"}
    BY <1>17 DEF RxFrame, RxEvents, BadEvents, GoodEvent
  <2>3. QED
    BY <1>17, <2>1, <2>2 DEF RxFrame
<1>18. CASE RxError
  BY <1>18 DEF RxError, RxEvents, BadEvents
<1>19. CASE RxTimeout
  BY <1>19 DEF RxTimeout, RxEvents, BadEvents
<1>20. CASE UNCHANGED vars
  BY <1>20 DEF vars
<1>21. QED
  BY <1>1, <1>2, <1>3, <1>4, <1>5, <1>6, <1>7, <1>8, <1>9, <1>10, <1>11, <1>12,
     <1>13, <1>14, <1>15, <1>16, <1>17, <1>18, <1>19, <1>20
     DEF Next, ss_init_run, dw1000, Wait

\* Ranging keeps its types, for every value of the constants.
THEOREM TypeCorrect == Spec => []TypeOK
<1>1. Init => TypeOK
  BY InitIInv DEF IInv
<1>2. QED
  BY <1>1, TypeStep, PTL DEF Spec

---------------------------------------------------------------------------
(* The rotation *)

LEMMA RotationStep ==
  TypeOK /\ RotationInv /\ [Next]_vars => RotationInv'
<1> SUFFICES ASSUME TypeOK, RotationInv, [Next]_vars
             PROVE  RotationInv'
  OBVIOUS
<1> USE NumNodesAssumption, SeqModAssumption
<1> DEFINE Same == /\ UNCHANGED <<calls, target_node, frame_seq_nb, tx_poll_msg,
                                  tx_count>>
\* A step inside an exchange that leaves the rotation's variables alone.
<1>1. ASSUME Same, step' = step PROVE RotationInv'
  BY <1>1 DEF RotationInv, Spent, NodeOf, Laps
<1>2. ASSUME Same,
             step \notin {"boot", "halted", "idle", "begin", "poll"},
             step' \notin {"boot", "halted", "idle", "begin", "poll"}
      PROVE  RotationInv'
  BY <1>2 DEF RotationInv, Spent, NodeOf, Laps
<1> HIDE DEF Same
<1>3. CASE DwmInitFails \/ breadcrumb_dwm_init
  BY <1>3 DEF DwmInitFails, breadcrumb_dwm_init, RotationInv, Spent, NodeOf, Laps
<1>4. CASE func4
  <2>1. 0 % NumNodes = 0
    <3>1. 0 = NumNodes * 0 + 0 /\ 0 \in 0 .. NumNodes - 1
      OBVIOUS
    <3>2. QED
      BY <3>1, QuotRemUnique
  <2>2. QED
    BY <1>4, <2>1 DEF func4, RotationInv, Spent, NodeOf, Laps
<1>5. CASE StartExchange
  <2>1. tx_count \in Nat /\ calls \in Nat /\ calls < NumNodes /\ step = "begin"
    BY <1>5 DEF StartExchange, TypeOK, RotationInv
  <2>2. /\ target_node' = NextTarget(target_node) /\ tx_count' = tx_count + 1
        /\ calls' = calls + 1 /\ step' = "poll" /\ frame_seq_nb' = frame_seq_nb
    BY <1>5 DEF StartExchange
  <2>3. target_node' = NodeOf(tx_count + 1) /\ target_node' \in Node
    <3>1. target_node \in 0 .. NumNodes
      BY DEF TypeOK
    <3>2. /\ tx_count = 0 => target_node = 0
          /\ tx_count > 0 => target_node = NodeOf(tx_count)
      BY DEF RotationInv
    <3>3. QED
      BY <2>1, <2>2, <3>1, <3>2, NextTargetIsNodeOf
  <2>4. tx_count' - 1 = tx_count
    BY <2>1, <2>2
  <2>5. frame_seq_nb[target_node'] = (tx_count \div NumNodes) % SeqMod
    <3>1. frame_seq_nb[target_node'] = Laps(tx_count, target_node') % SeqMod
      BY <2>1, <2>3 DEF RotationInv, Spent
    <3>2. QED
      BY <3>1, <2>1, <2>3, LapsStep
  <2>6. /\ tx_poll_msg'.dest = target_node'
        /\ tx_poll_msg'.sn = ((tx_count' - 1) \div NumNodes) % SeqMod
    BY <1>5, <2>4, <2>5 DEF StartExchange
  <2>7. tx_count' % NumNodes = calls' % NumNodes
    <3>1. tx_count % NumNodes = calls % NumNodes
      BY <2>1 DEF RotationInv
    <3>2. QED
      BY <2>1, <2>2, <3>1, WrapStep
  <2>8. \A n \in Node : frame_seq_nb'[n] = Laps(tx_count' - 1, n) % SeqMod
    BY <2>1, <2>2, <2>4 DEF RotationInv, Spent
  <2>9. target_node' = NodeOf(tx_count')
    BY <2>2, <2>3
  <2>10. Spent' = tx_count' - 1
    BY <2>2 DEF Spent
  <2>11. \A n \in Node : frame_seq_nb'[n] = (Laps(Spent, n) % SeqMod)'
    BY <2>8, <2>10 DEF Laps
  <2>12. tx_count' > 0 /\ calls' <= NumNodes
    BY <2>1, <2>2
  <2>13. (target_node = NodeOf(tx_count))'
    BY <2>9 DEF NodeOf
  <2>14. QED
    BY <2>2, <2>6, <2>7, <2>11, <2>12, <2>13 DEF RotationInv
<1>6. CASE PollStatus
  <2>1. /\ step = "poll" /\ step' \in {"good", "bad"} /\ tx_count \in Nat
        /\ tx_count > 0
        /\ UNCHANGED <<calls, target_node, tx_poll_msg, tx_count>>
        /\ frame_seq_nb' = [frame_seq_nb EXCEPT ![target_node] = (@ + 1) % SeqMod]
    BY <1>6 DEF PollStatus, frame_incr, RotationInv, TypeOK
  <2> DEFINE k == tx_count - 1
  <2>2. k \in Nat /\ k + 1 = tx_count /\ Spent = k
    BY <2>1 DEF Spent
  <2>3. target_node = NodeOf(k + 1)
    BY <2>1, <2>2 DEF RotationInv
  <2> HIDE DEF k
  <2>4. ASSUME NEW n \in Node
        PROVE  frame_seq_nb'[n] = Laps(k + 1, n) % SeqMod
    <3>1. frame_seq_nb[n] = Laps(k, n) % SeqMod /\ Laps(k, n) \in Nat
      BY <2>2, LapsStep DEF RotationInv
    <3>2. CASE n = target_node
      <4>1. Laps(k + 1, n) = Laps(k, n) + 1
        BY <3>2, <2>2, <2>3, LapsStep
      <4>2. frame_seq_nb'[n] = (frame_seq_nb[n] + 1) % SeqMod
        BY <2>1, <3>2 DEF TypeOK
      <4>3. QED
        BY <3>1, <4>1, <4>2, WrapStep
    <3>3. CASE n # target_node
      <4>1. Laps(k + 1, n) = Laps(k, n)
        BY <3>3, <2>2, <2>3, LapsStep
      <4>2. frame_seq_nb'[n] = frame_seq_nb[n]
        BY <2>1, <3>3 DEF TypeOK
      <4>3. QED
        BY <3>1, <4>1, <4>2
    <3>4. QED
      BY <3>2, <3>3
  <2>5. Spent' = k + 1
    BY <2>1, <2>2 DEF Spent
  <2>6. \A n \in Node : frame_seq_nb'[n] = (Laps(Spent, n) % SeqMod)'
    BY <2>4, <2>5 DEF Laps
  <2>7. QED
    BY <2>1, <2>6 DEF RotationInv, NodeOf
<1>7. CASE ClearGoodEvent
  BY <1>7, <1>2 DEF ClearGoodEvent, Same
<1>8. CASE ReadLength
  BY <1>8, <1>2 DEF ReadLength, Same
<1>9. CASE ReadFrame
  BY <1>9, <1>2 DEF ReadFrame, Same
<1>10. CASE AcceptResponse
  BY <1>10, <1>2 DEF AcceptResponse, Same
<1>11. CASE RejectResponse
  BY <1>11, <1>2 DEF RejectResponse, Same
<1>12. CASE ComputeDistance
  BY <1>12, <1>2 DEF ComputeDistance, Same
<1>13. CASE print_distance
  BY <1>13, <1>2 DEF print_distance, Same
<1>14. CASE ClearBadEvents
  BY <1>14, <1>2 DEF ClearBadEvents, Same
<1>15. CASE dwt_rxreset
  BY <1>15, <1>2 DEF dwt_rxreset, Same
<1>16. CASE Sleep
  <2>1. /\ step = "sleep" /\ UNCHANGED <<calls, target_node, frame_seq_nb,
                                         tx_poll_msg, tx_count>>
        /\ step' = IF calls < NumNodes THEN "begin" ELSE "idle"
    BY <1>16 DEF Sleep, RunLength
  <2>2. tx_count % NumNodes = calls % NumNodes /\ calls \in Nat /\ calls <= NumNodes
    BY <2>1 DEF RotationInv, TypeOK
  <2>3. NumNodes % NumNodes = 0
    <3>1. NumNodes = NumNodes * 1 + 0 /\ 0 \in 0 .. NumNodes - 1
      OBVIOUS
    <3>2. QED
      BY <3>1, QuotRemUnique
  <2>4. CASE calls < NumNodes
    BY <2>1, <2>2, <2>4 DEF RotationInv, Spent, NodeOf, Laps
  <2>5. CASE calls = NumNodes
    BY <2>1, <2>2, <2>3, <2>5 DEF RotationInv, Spent, NodeOf, Laps
  <2>6. QED
    BY <2>2, <2>4, <2>5
<1>17. CASE TxDone \/ RxFrame \/ RxError \/ RxTimeout
  BY <1>17, <1>1 DEF TxDone, RxFrame, RxError, RxTimeout, initiator, Same
<1>18. CASE UNCHANGED vars
  BY <1>18, <1>1 DEF vars, initiator, Same
<1>19. QED
  BY <1>3, <1>4, <1>5, <1>6, <1>7, <1>8, <1>9, <1>10, <1>11, <1>12, <1>13,
     <1>14, <1>15, <1>16, <1>17, <1>18 DEF Next, ss_init_run, dw1000, Wait

\* The k-th poll goes to node (k-1) mod N + 1 with number (k-1) div N, and a
\* run of func4 leaves all nodes equally often polled: for every number of
\* nodes, every width of the numbers, and whatever the chip reported.
THEOREM Schedule == Spec => [](PollSchedule /\ RunServesEveryNode)
<1> DEFINE Inv == TypeOK /\ RotationInv
<1>1. Init => Inv
  BY InitIInv DEF IInv
<1>2. Inv /\ [Next]_vars => Inv'
  BY TypeStep, RotationStep
<1>3. Inv => PollSchedule
  BY DEF RotationInv, PollSchedule, NodeOf
<1>4. Inv => RunServesEveryNode
  <2> SUFFICES ASSUME Inv, step = "idle", NEW m \in Node, NEW n \in Node
               PROVE  frame_seq_nb[m] = frame_seq_nb[n]
    BY DEF RunServesEveryNode
  <2>1. tx_count % NumNodes = 0 /\ Spent = tx_count
    BY DEF RotationInv, Spent
  <2>2. ~(m <= 0) /\ ~(n <= 0)
    BY NumNodesAssumption DEF Node
  <2>3. Laps(tx_count, m) = Laps(tx_count, n)
    BY <2>1, <2>2 DEF Laps
  <2>4. QED
    BY <2>1, <2>3 DEF RotationInv
<1>5. QED
  BY <1>1, <1>2, <1>3, <1>4, PTL DEF Spec

\* After a run of func4 every node has been polled equally often, so the
\* next run starts again at node 1.
THEOREM EqualService == Spec => []RunServesEveryNode
<1>1. PollSchedule /\ RunServesEveryNode => RunServesEveryNode
  OBVIOUS
<1>2. QED
  BY <1>1, Schedule, PTL

---------------------------------------------------------------------------
(* The age of frames *)

\* Two exchanges that follow each other poll different nodes.
LEMMA NeighboursDiffer ==
  ASSUME NEW k \in Nat, k > 1
  PROVE  NodeOf(k) # NodeOf(k - 1)
<1> DEFINE j == k - 2
<1>1. j \in Nat /\ k - 1 = j + 1 /\ (k - 1) - 1 = j
  OBVIOUS
<1> HIDE DEF j
<1>2. NodeOf(k) = ((j + 1) % NumNodes) + 1 /\ NodeOf(k - 1) = (j % NumNodes) + 1
  BY <1>1 DEF NodeOf
<1>3. j % NumNodes \in 0 .. NumNodes - 1
  BY <1>1, QuotRem, NumNodesAssumption
<1>4. (j + 1) % NumNodes # j % NumNodes
  <2> DEFINE r == j % NumNodes
             r1 == (j + 1) % NumNodes
  <2>1. /\ r + 1 < NumNodes => r1 = r + 1
        /\ r + 1 >= NumNodes => r1 = 0
    BY <1>1, QuotRemStep, NumNodesAssumption
  <2>2. r \in 0 .. NumNodes - 1
    BY <1>3
  <2> HIDE DEF r, r1
  <2>3. r1 # r
    BY <2>1, <2>2, NumNodesAssumption
  <2>4. QED
    BY <2>3 DEF r, r1
<1>5. (j + 1) % NumNodes \in 0 .. NumNodes - 1
  BY <1>1, QuotRem, NumNodesAssumption
<1>6. QED
  BY <1>2, <1>3, <1>4, <1>5

\* A frame of this exchange or the last that comes from the node polled now
\* answers the poll of this exchange.
LEMMA FreshFromTarget ==
  ASSUME TypeOK, RotationInv, tx_count > 0,
         NEW f, f.ex \in Nat, f.ex # Elsewhere, Consistent(f),
         f.ex >= tx_count - 1, f.from = target_node
  PROVE  f.ex = tx_count
<1>1. f.ex \in 1 .. tx_count /\ f.from = NodeOf(f.ex) /\ tx_count \in Nat
  BY DEF Consistent, TypeOK
<1>2. f.from = NodeOf(tx_count)
  BY DEF RotationInv
<1>3. CASE f.ex = tx_count - 1
  <2>1. tx_count > 1
    BY <1>1, <1>3
  <2>2. QED
    BY <1>1, <1>2, <1>3, <2>1, NeighboursDiffer
<1>4. QED
  BY <1>1, <1>3

LEMMA ChipStep ==
  ASSUME FrameLengths = {"whole"}
  PROVE  TypeOK /\ RotationInv /\ ChipInv /\ [Next]_vars => ChipInv'
<1> SUFFICES ASSUME TypeOK, RotationInv, ChipInv, [Next]_vars
             PROVE  ChipInv'
  OBVIOUS
<1> USE DEF ChipInv, TypeOK, GoodEvent
<1> USE DEF Consistent, Solitary, NodeOf, initiator, chip
<1>1. CASE DwmInitFails \/ breadcrumb_dwm_init \/ func4
  BY <1>1 DEF DwmInitFails, breadcrumb_dwm_init, func4
<1>2. CASE StartExchange
  BY <1>2 DEF StartExchange
<1>3. CASE PollStatus
  BY <1>3 DEF PollStatus, RxEvents
<1>4. CASE ClearGoodEvent
  BY <1>4 DEF ClearGoodEvent
<1>5. CASE ReadLength
  BY <1>5 DEF ReadLength
<1>6. CASE ReadFrame
  BY <1>6 DEF ReadFrame
<1>7. CASE AcceptResponse \/ RejectResponse
  BY <1>7 DEF AcceptResponse, RejectResponse
<1>8. CASE ComputeDistance \/ print_distance
  BY <1>8 DEF ComputeDistance, print_distance
<1>9. CASE ClearBadEvents
  BY <1>9 DEF ClearBadEvents, BadEvents
<1>10. CASE dwt_rxreset
  BY <1>10 DEF dwt_rxreset
<1>11. CASE Sleep
  BY <1>11 DEF Sleep
<1>12. CASE TxDone
  BY <1>12 DEF TxDone
<1>13. CASE RxFrame
  <2>1. tx_count > 0 /\ tx_stamp = tx_count /\ tx_poll_msg.dest = NodeOf(tx_count)
    BY <1>13 DEF RxFrame, RotationInv
  <2>2. rx_frame' \in Heard /\ rx_stamp' = tx_count
    BY <1>13 DEF RxFrame
  <2>3. /\ rx_frame'.len = "whole"
        /\ rx_frame'.ex # Elsewhere =>
             rx_frame'.ex = tx_count /\ rx_frame'.from = NodeOf(tx_count)
        /\ ~OtherInitiators => (rx_frame'.from # Other => rx_frame'.ex # Elsewhere)
    BY <2>1, <2>2 DEF Heard
  <2>4. QED
    BY <1>13, <2>1, <2>2, <2>3 DEF RxFrame
<1>14. CASE RxError \/ RxTimeout
  BY <1>14 DEF RxError, RxTimeout
<1>15. CASE UNCHANGED vars
  BY <1>15 DEF vars
<1>16. QED
  BY <1>1, <1>2, <1>3, <1>4, <1>5, <1>6, <1>7, <1>8, <1>9, <1>10, <1>11, <1>12,
     <1>13, <1>14, <1>15 DEF Next, ss_init_run, dw1000, Wait

LEMMA BufferStep ==
  ASSUME FrameLengths = {"whole"}
  PROVE  TypeOK /\ RotationInv /\ ChipInv /\ BufferInv /\ [Next]_vars => BufferInv'
<1> SUFFICES ASSUME TypeOK, RotationInv, ChipInv, BufferInv, [Next]_vars
             PROVE  BufferInv'
  OBVIOUS
<1> USE DEF BufferInv, initiator, chip
<1>1. CASE DwmInitFails \/ breadcrumb_dwm_init \/ func4
  BY <1>1 DEF DwmInitFails, breadcrumb_dwm_init, func4
<1>2. CASE StartExchange \/ PollStatus
  BY <1>2 DEF StartExchange, PollStatus
<1>3. CASE ClearGoodEvent \/ ReadLength
  BY <1>3 DEF ClearGoodEvent, ReadLength
<1>4. CASE ReadFrame
  <2>1. /\ rx_buffer' = [from |-> rx_frame.from, ex |-> rx_frame.ex]
        /\ rx_frame' = rx_frame /\ tx_count' = tx_count
        /\ step' = "check" /\ step = "read"
    BY <1>4 DEF ReadFrame, Copied, ChipInv
  <2>2. Solitary(rx_frame) /\ (rx_frame.ex # Elsewhere =>
          Consistent(rx_frame) /\ rx_frame.ex >= tx_count - 1)
    BY <2>1 DEF ChipInv
  <2>3. QED
    BY <2>1, <2>2 DEF Consistent, Solitary, SameFrame, NodeOf
<1>5. CASE AcceptResponse
  <2>1. /\ step = "check" /\ step' = "compute" /\ rx_buffer.from = target_node
        /\ UNCHANGED <<rx_buffer, rx_frame, target_node, tx_count>>
    BY <1>5 DEF AcceptResponse, IsExpectedResponse
  <2>2. tx_count > 0 /\ tx_count \in Nat /\ rx_buffer.ex \in Nat
    BY <2>1 DEF RotationInv, TypeOK
  <2>3. ASSUME rx_buffer.ex # Elsewhere
        PROVE  rx_buffer.ex = tx_count /\ SameFrame(rx_buffer, rx_frame)
    <3>1. /\ Consistent(rx_buffer) /\ rx_buffer.ex >= tx_count - 1
          /\ rx_buffer.ex = tx_count => SameFrame(rx_buffer, rx_frame)
      BY <2>1, <2>3
    <3>2. rx_buffer.ex = tx_count
      BY <2>1, <2>2, <2>3, <3>1, FreshFromTarget
    <3>3. QED
      BY <3>1, <3>2
  <2>4. QED
    BY <2>1, <2>3 DEF Solitary, SameFrame
<1>6. CASE RejectResponse \/ ComputeDistance \/ print_distance
  BY <1>6 DEF RejectResponse, ComputeDistance, print_distance
<1>7. CASE ClearBadEvents \/ dwt_rxreset \/ Sleep
  BY <1>7 DEF ClearBadEvents, dwt_rxreset, Sleep
<1>8. CASE TxDone
  BY <1>8 DEF TxDone, Consistent, Solitary, SameFrame, NodeOf
<1>9. CASE RxFrame
  \* The receiver is on, so the copy is not of this exchange's response.
  <2>1. /\ radio = "rx"
        /\ UNCHANGED <<step, rx_buffer, target_node, tx_count>>
    BY <1>9 DEF RxFrame
  <2>2. ~(rx_frame.ex # Elsewhere /\ rx_frame.ex = tx_count)
    BY <2>1 DEF ChipInv
  <2>3. step \in {"check", "compute"} /\ rx_buffer.ex # Elsewhere =>
          rx_buffer.ex # tx_count
    BY <2>2 DEF SameFrame
  <2>4. ~(step = "compute" /\ rx_buffer.ex # Elsewhere)
    BY <2>3
  <2>5. QED
    BY <2>1, <2>3, <2>4 DEF Consistent, Solitary, NodeOf
<1>10. CASE RxError \/ RxTimeout
  BY <1>10 DEF RxError, RxTimeout, Consistent, Solitary, SameFrame, NodeOf
<1>11. CASE UNCHANGED vars
  BY <1>11 DEF vars, Consistent, Solitary, SameFrame, NodeOf
<1>12. QED
  BY <1>1, <1>2, <1>3, <1>4, <1>5, <1>6, <1>7, <1>8, <1>9, <1>10, <1>11
     DEF Next, ss_init_run, dw1000, Wait

\* Only ComputeDistance writes the distance, and it does so from one exchange.
LEMMA CoherentStep ==
  TypeOK /\ RotationInv /\ ChipInv /\ BufferInv /\ RangeIsCoherent /\ [Next]_vars
    => RangeIsCoherent'
<1> SUFFICES ASSUME TypeOK, RotationInv, ChipInv, BufferInv, RangeIsCoherent,
                    [Next]_vars
             PROVE  RangeIsCoherent'
  OBVIOUS
<1>1. CASE ComputeDistance
  <2>1. /\ step = "compute"
        /\ distance' = [node |-> target_node, peer |-> rx_buffer.ex,
                        tx |-> tx_stamp, rx |-> rx_stamp]
    BY <1>1 DEF ComputeDistance
  <2>2. tx_count > 0 /\ tx_count \in Nat /\ target_node = NodeOf(tx_count)
    BY <2>1 DEF RotationInv, TypeOK
  <2>3. target_node # Other
    <3>1. (tx_count - 1) % NumNodes \in 0 .. NumNodes - 1
      BY <2>2, QuotRem, NumNodesAssumption
    <3>2. QED
      BY <2>2, <3>1 DEF NodeOf, Other
  <2>4. SUFFICES ASSUME Ours(rx_buffer.ex)
                 PROVE  distance'.peer = tx_count /\ distance'.tx = tx_count
                        /\ distance'.rx = tx_count /\ distance'.node = target_node
    BY <2>1, <2>2 DEF RangeIsCoherent, Ours, NodeOf
  <2>5. rx_buffer.ex # Elsewhere
    BY <2>1, <2>3, <2>4 DEF Ours, BufferInv, Solitary
  <2>6. rx_buffer.ex = tx_count /\ rx_frame.ex = tx_count
    BY <2>1, <2>5 DEF BufferInv, SameFrame
  <2>7. tx_stamp = tx_count /\ rx_stamp = tx_count
    BY <2>5, <2>6 DEF ChipInv
  <2>8. QED
    BY <2>1, <2>6, <2>7
<1>2. CASE ~ComputeDistance
  <2>1. distance' = distance
    BY <1>2 DEF Next, ss_init_run, dw1000, Wait, vars, initiator, chip,
       DwmInitFails, breadcrumb_dwm_init, func4, StartExchange, PollStatus,
       ClearGoodEvent, ReadLength, ReadFrame, AcceptResponse, RejectResponse,
       print_distance, ClearBadEvents, dwt_rxreset, Sleep,
       TxDone, RxFrame, RxError, RxTimeout
  <2>2. QED
    BY <2>1 DEF RangeIsCoherent
<1>3. QED
  BY <1>1, <1>2

\* As long as every frame on the air has the length of a response, a distance
\* computed from an answer to our poll combines the four timestamps of one
\* exchange and is of the node polled in it, even when error bits left over
\* from one exchange cut the next one short, and whoever else is polling.
THEOREM Coherence ==
  ASSUME FrameLengths = {"whole"}
  PROVE  Spec => []RangeIsCoherent
<1>1. Init => IInv
  BY InitIInv
<1>2. IInv /\ [Next]_vars => IInv'
  BY TypeStep, RotationStep, ChipStep, BufferStep, CoherentStep DEF IInv
<1>3. IInv => RangeIsCoherent
  BY DEF IInv
<1>4. QED
  BY <1>1, <1>2, <1>3, PTL DEF Spec

\* Where there is no other initiator, this is so of every distance.
THEOREM SoleInitiator ==
  ASSUME FrameLengths = {"whole"}, ~OtherInitiators
  PROVE  Spec => [](distance # NoRange =>
                      /\ distance.tx = distance.peer /\ distance.rx = distance.peer
                      /\ distance.node = NodeOf(distance.peer))
<1>1. RangeIsCoherent =>
        (distance # NoRange =>
           /\ distance.tx = distance.peer /\ distance.rx = distance.peer
           /\ distance.node = NodeOf(distance.peer))
  BY DEF RangeIsCoherent, Ours, NodeOf
<1>2. QED
  BY <1>1, Coherence, PTL

\* As long as every frame has the length of a response, the frame that rx_count
\* is raised for is the frame the chip has just received.
THEOREM AcceptedIsReceived ==
  ASSUME FrameLengths = {"whole"}
  PROVE  Spec => AcceptedFrameIsReceived
<1>1. Init => IInv
  BY InitIInv
<1>2. IInv /\ [Next]_vars => IInv'
  BY TypeStep, RotationStep, ChipStep, BufferStep, CoherentStep DEF IInv
<1>3. IInv /\ [Next]_vars => [rx_count' > rx_count /\ Ours(rx_buffer.ex) =>
                                SameFrame(rx_buffer, rx_frame)]_vars
  <2> SUFFICES ASSUME IInv, [Next]_vars, rx_count' > rx_count, Ours(rx_buffer.ex)
               PROVE  SameFrame(rx_buffer, rx_frame)
    BY DEF vars
  <2>1. CASE AcceptResponse
    <3>1. /\ step = "check" /\ step' = "compute" /\ rx_buffer.from = target_node
          /\ rx_frame' = rx_frame /\ rx_buffer' = rx_buffer
      BY <2>1 DEF AcceptResponse, IsExpectedResponse, chip
    <3>2. BufferInv'
      BY BufferStep DEF IInv
    <3>3. target_node # Other
      <4>1. tx_count > 0 /\ tx_count \in Nat /\ target_node = NodeOf(tx_count)
        BY <3>1 DEF IInv, RotationInv, TypeOK
      <4>2. (tx_count - 1) % NumNodes \in 0 .. NumNodes - 1
        BY <4>1, QuotRem, NumNodesAssumption
      <4>3. QED
        BY <4>1, <4>2 DEF NodeOf, Other
    <3>4. rx_buffer.ex # Elsewhere
      BY <3>1, <3>3 DEF IInv, BufferInv, Solitary, Ours
    <3>5. QED
      BY <3>1, <3>2, <3>4 DEF BufferInv, SameFrame
  <2>2. CASE ~AcceptResponse
    <3>1. rx_count' = rx_count
      BY <2>2 DEF Next, ss_init_run, dw1000, Wait, vars, initiator, chip,
         DwmInitFails, breadcrumb_dwm_init, func4, StartExchange, PollStatus,
         ClearGoodEvent, ReadLength, ReadFrame, RejectResponse, ComputeDistance,
         print_distance, ClearBadEvents, dwt_rxreset, Sleep,
         TxDone, RxFrame, RxError, RxTimeout
    <3>2. QED
      BY <3>1 DEF IInv, TypeOK
  <2>3. QED
    BY <2>1, <2>2
<1>4. QED
  BY <1>1, <1>2, <1>3, PTL DEF Spec, AcceptedFrameIsReceived

---------------------------------------------------------------------------
(* Refinement *)

\* The steps at which the rest of the firmware sees something.
LEMMA Unseen ==
  [Next]_vars /\ ~StartExchange /\ ~ComputeDistance =>
    UNCHANGED <<distance, tx_count>> /\ (Measuring' => Measuring)
BY DEF Measuring, Next, ss_init_run, dw1000, Wait, vars, initiator, chip,
   DwmInitFails, breadcrumb_dwm_init, func4, PollStatus, ClearGoodEvent,
   ReadLength, ReadFrame, AcceptResponse, RejectResponse, print_distance,
   ClearBadEvents, dwt_rxreset, Sleep, TxDone, RxFrame, RxError, RxTimeout

\* The initiator implements RangeService: exchanges do not overlap, and each
\* yields at most one distance, of the node it polled and, as long as nobody
\* else is polling, of this exchange.
THEOREM Refinement ==
  ASSUME FrameLengths = {"whole"}
  PROVE  Spec => ImplementsService
<1>1. Init => IInv
  BY InitIInv
<1>2. IInv /\ [Next]_vars => IInv'
  BY TypeStep, RotationStep, ChipStep, BufferStep, CoherentStep DEF IInv
<1>3. Init => Service!Init
  BY DEF Init, Service!Init, Service!Elsewhere, NoRange, Other, Measuring
<1>4. IInv /\ [Next]_vars => [Service!Next]_Service!vars
  <2> SUFFICES ASSUME IInv, [Next]_vars
               PROVE  [Service!Next]_Service!vars
    OBVIOUS
  <2>1. CASE StartExchange
    BY <2>1 DEF StartExchange, Measuring, Service!Next, Service!Begin
  <2>2. CASE ComputeDistance
    <3>1. /\ step = "compute" /\ step' = "print" /\ tx_count' = tx_count
          /\ distance'.node = target_node /\ distance'.peer = rx_buffer.ex
      BY <2>2 DEF ComputeDistance
    <3>2. target_node = NodeOf(tx_count) /\ tx_count > 0 /\ tx_count \in Nat
      BY <3>1 DEF IInv, RotationInv, TypeOK
    <3>3. target_node # Other
      <4>1. (tx_count - 1) % NumNodes \in 0 .. NumNodes - 1
        BY <3>2, QuotRem, NumNodesAssumption
      <4>2. QED
        BY <3>2, <4>1 DEF NodeOf, Other
    <3>4. rx_buffer.ex # Elsewhere => rx_buffer.ex = tx_count
      BY <3>1 DEF IInv, BufferInv
    <3>5. ~OtherInitiators => rx_buffer.ex # Elsewhere
      BY <3>1, <3>3 DEF IInv, BufferInv, Solitary
    <3>6. rx_buffer.ex \in
            {tx_count} \cup (IF OtherInitiators THEN {Service!Elsewhere} ELSE {})
      BY <3>4, <3>5 DEF Elsewhere, Service!Elsewhere
    <3>7. target_node = Service!NodeOfExchange(tx_count)
      BY <3>2 DEF NodeOf, Service!NodeOfExchange
    <3>8. Service!Measure
      BY <3>1, <3>6, <3>7 DEF Service!Measure, Measuring
    <3>9. QED
      BY <3>8 DEF Service!Next
  <2>3. CASE ~StartExchange /\ ~ComputeDistance
    <3>1. UNCHANGED <<distance, tx_count>> /\ (Measuring' => Measuring)
      BY <2>3, Unseen
    <3>2. CASE Measuring' = Measuring
      BY <3>1, <3>2 DEF Service!vars
    <3>3. CASE Measuring /\ ~Measuring'
      BY <3>1, <3>3 DEF Service!Next, Service!GiveUp
    <3>4. Measuring \in BOOLEAN /\ Measuring' \in BOOLEAN
      BY DEF Measuring
    <3>5. QED
      BY <3>1, <3>2, <3>3, <3>4
  <2>4. QED
    BY <2>1, <2>2, <2>3
<1>5. QED
  BY <1>1, <1>2, <1>3, <1>4, PTL DEF Spec, ImplementsService, Service!Spec

=============================================================================
