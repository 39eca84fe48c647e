------------------------------ MODULE Ranging ------------------------------
(***************************************************************************)
(* The UWB ranging initiator of src/uwb_bread.c, driven by func4 of        *)
(* src/main.c, next to the DW1000 transceiver it polls over SPI.           *)
(*                                                                         *)
(* The initiator polls its responders in rotation and measures a distance  *)
(* from every response it accepts.  It runs to completion in the main      *)
(* loop; the transceiver works beside it, so an event may be raised        *)
(* between any two of the initiator's accesses to the chip.  One action is *)
(* one such access with the computation around it.                         *)
(*                                                                         *)
(* A frame is abstracted to the node that its header names, the exchange   *)
(* whose timestamps it carries, and its length next to a response's.  A    *)
(* timestamp is abstracted to the exchange it was taken in.                *)
(***************************************************************************)
EXTENDS Integers

CONSTANTS
  NumNodes,     \* responders in the rotation (three in the code)
  SeqMod,       \* sequence numbers wrap at this value (uint8: 256)
  MaxTx,        \* bound of the model: no run starts after this many polls
  FrameLengths, \* on the air: whole, short (of a response), long (for rx_buffer)
  OtherInitiators, \* TRUE: the responders answer other initiators as well
  StickyErrors  \* TRUE: a good frame may raise an error bit next to RXFCG

ASSUME NumNodesAssumption == NumNodes \in Nat /\ NumNodes >= 2
ASSUME SeqModAssumption == SeqMod \in Nat /\ SeqMod >= 2
ASSUME MaxTxAssumption == MaxTx \in Nat
ASSUME AirAssumption ==
  /\ FrameLengths \subseteq {"whole", "short", "long"}
  /\ OtherInitiators \in BOOLEAN /\ StickyErrors \in BOOLEAN

VARIABLES
  step,         \* where main() and ss_init_run() are
  calls,        \* exchanges begun in this run: the loop index of func4
  target_node,  \* 0 until the first exchange
  frame_seq_nb, \* per node: frame_seq_nb_1, frame_seq_nb_2, frame_seq_nb_3
  tx_poll_msg,  \* the poll written to the chip: its addressee and number
  tx_count,
  rx_count,
  frame_len,    \* read before the frame is
  rx_buffer,    \* the initiator's copy: the header and the timestamps in it
  distance,     \* the last measurement, by the data it was computed from
  printed,      \* the last line print_distance wrote
  rx_timeout,   \* the frame wait timeout is programmed in the chip
  status,       \* SYS_STATUS of the chip
  radio,        \* "off", "tx" or "rx"
  rx_frame,     \* RX_BUFFER and RX_FINFO of the chip
  rx_stamp,     \* RX_TIME of the chip: the exchange of the last reception
  tx_stamp      \* TX_TIME of the chip: the exchange sent last

initiator == <<step, calls, target_node, frame_seq_nb, tx_poll_msg, tx_count,
               rx_count, frame_len, rx_buffer, distance, printed, rx_timeout>>
chip == <<status, radio, rx_frame, rx_stamp, tx_stamp>>
vars == <<initiator, chip>>

---------------------------------------------------------------------------
(* Data *)

Node == 1 .. NumNodes
Other == 0      \* in the header of a frame that is not a response
Elsewhere == 0  \* the exchange of timestamps that do not answer our polls

Frame == [from : 0 .. NumNodes, ex : Nat, len : {"whole", "short", "long"}]
NoFrame == [from |-> Other, ex |-> Elsewhere, len |-> "whole"]

\* What the chip received is in the buffer.
SameFrame(b, f) == b.from = f.from /\ b.ex = f.ex

\* The four timestamps a distance is computed from, and the node they are of.
Range == [node : 0 .. NumNodes, peer : Nat, tx : Nat, rx : Nat]
NoRange == [node |-> Other, peer |-> 0, tx |-> 0, rx |-> 0]

GoodEvent == "RXFCG"
BadEvents == {"ALL_RX_TO", "ALL_RX_ERR"}
RxEvents == BadEvents \cup {GoodEvent}

\* func4 makes three calls and the rotation has three nodes.
RunLength == NumNodes

\* Mutant: the index is reset one node too early (>= 3 for >= 4).
NextTargetSkipsLast(n) == IF n + 1 >= NumNodes THEN 1 ELSE n + 1

\* Lines 178 to 186: the next node of the rotation.
NextTarget(n) == IF n + 1 >= NumNodes + 1 THEN 1 ELSE n + 1

---------------------------------------------------------------------------
(* The initiator *)

Init ==
  /\ step = "boot" /\ calls = 0
  /\ target_node = 0
  /\ frame_seq_nb = [n \in Node |-> 0]
  /\ tx_poll_msg = [dest |-> 1, sn |-> 0]
  /\ tx_count = 0 /\ rx_count = 0
  /\ frame_len = "whole"
  /\ rx_buffer = [from |-> Other, ex |-> Elsewhere]
  /\ distance = NoRange
  /\ printed = [node |-> Other, range |-> NoRange]
  /\ rx_timeout = FALSE
  /\ status = {} /\ radio = "off"
  /\ rx_frame = NoFrame
  /\ rx_stamp = 0 /\ tx_stamp = 0

\* dwt_initialise answers DWT_ERROR: the firmware spins for ever.
DwmInitFails ==
  /\ step = "boot"
  /\ step' = "halted"
  /\ UNCHANGED <<calls, target_node, frame_seq_nb, tx_poll_msg, tx_count,
                 rx_count, frame_len, rx_buffer, distance, printed, rx_timeout, chip>>

\* Mutant: dwt_setrxtimeout is not called.
InitWithoutTimeout ==
  /\ step = "boot"
  /\ step' = "idle"
  /\ UNCHANGED <<calls, target_node, frame_seq_nb, tx_poll_msg, tx_count,
                 rx_count, frame_len, rx_buffer, distance, printed, rx_timeout, chip>>

breadcrumb_dwm_init ==
  /\ step = "boot"
  /\ step' = "idle"
  /\ rx_timeout' = TRUE
  /\ UNCHANGED <<calls, target_node, frame_seq_nb, tx_poll_msg, tx_count,
                 rx_count, frame_len, rx_buffer, distance, printed, chip>>

\* The main loop takes func4 from the scheduler.
func4 ==
  /\ step = "idle"
  /\ tx_count < MaxTx
  /\ step' = "begin" /\ calls' = 0
  /\ UNCHANGED <<target_node, frame_seq_nb, tx_poll_msg, tx_count, rx_count,
                 frame_len, rx_buffer, distance, printed, rx_timeout, chip>>

\* Nothing is scheduled, or the chip is dead: the processor waits.
Wait == step \in {"idle", "halted"} /\ UNCHANGED vars

\* ss_init_run up to the polling loop: choose the node, send it a poll.
StartExchange ==
  /\ step = "begin"
  /\ step' = "poll" /\ calls' = calls + 1
  /\ target_node' = NextTarget(target_node)
  /\ tx_poll_msg' = [dest |-> target_node', sn |-> frame_seq_nb[target_node']]
  /\ tx_count' = tx_count + 1
  /\ status' = status \ {"TXFRS"}
  /\ radio' = "tx"
  /\ UNCHANGED <<frame_seq_nb, rx_count, frame_len, rx_buffer, distance, printed,
                 rx_timeout, rx_frame, rx_stamp, tx_stamp>>

\* Mutant: only an exchange that was answered spends a number.
FrameIncrOnSuccess(n) ==
  frame_seq_nb' = IF GoodEvent \in status
                  THEN [frame_seq_nb EXCEPT ![n] = (@ + 1) % SeqMod]
                  ELSE frame_seq_nb

frame_incr(n) ==
  frame_seq_nb' = [frame_seq_nb EXCEPT ![n] = (@ + 1) % SeqMod]

\* The polling loop sees a receive event; the number is spent either way.
PollStatus ==
  /\ step = "poll"
  /\ status \cap RxEvents # {}
  /\ frame_incr(target_node)
  /\ step' = IF GoodEvent \in status THEN "good" ELSE "bad"
  /\ UNCHANGED <<calls, target_node, tx_poll_msg, tx_count, rx_count, frame_len,
                 rx_buffer, distance, printed, rx_timeout, chip>>

ClearGoodEvent ==
  /\ step = "good"
  /\ step' = "length"
  /\ status' = status \ {GoodEvent}
  /\ UNCHANGED <<calls, target_node, frame_seq_nb, tx_poll_msg, tx_count,
                 rx_count, frame_len, rx_buffer, distance, printed, rx_timeout,
                 radio, rx_frame, rx_stamp, tx_stamp>>

ReadLength ==
  /\ step = "length"
  /\ step' = "read"
  /\ frame_len' = rx_frame.len
  /\ UNCHANGED <<calls, target_node, frame_seq_nb, tx_poll_msg, tx_count,
                 rx_count, rx_buffer, distance, printed, rx_timeout, chip>>

\* frame_len bytes are copied, none of them when they do not fit, and rx_buffer
\* keeps what it held in the rest: a short frame leaves the timestamps, and the
\* header where it ends in its own.
Copied(n) ==
  CASE n = "long"  -> {rx_buffer}
    [] n = "short" -> {[rx_buffer EXCEPT !.from = m] : m \in {rx_frame.from, rx_buffer.from}}
    [] n = "whole" -> {[from |-> rx_frame.from, ex |-> rx_frame.ex]}

ReadFrame ==
  /\ step = "read"
  /\ step' = "check"
  /\ rx_buffer' \in Copied(frame_len)
  /\ UNCHANGED <<calls, target_node, frame_seq_nb, tx_poll_msg, tx_count,
                 rx_count, frame_len, distance, printed, rx_timeout, chip>>

\* Mutant: the source address is not part of the comparison.
IsAnyResponse == rx_buffer.from # Other

\* memcmp of the common part against rx_resp_msg, whose source address
\* target_node_select has set to that of target_node.
IsExpectedResponse == rx_buffer.from = target_node

AcceptResponse ==
  /\ step = "check"
  /\ IsExpectedResponse
  /\ step' = "compute"
  /\ rx_count' = rx_count + 1
  /\ UNCHANGED <<calls, target_node, frame_seq_nb, tx_poll_msg, tx_count, frame_len,
                 rx_buffer, distance, printed, rx_timeout, chip>>

RejectResponse ==
  /\ step = "check"
  /\ ~IsExpectedResponse
  /\ step' = "print"
  /\ UNCHANGED <<calls, target_node, frame_seq_nb, tx_poll_msg, tx_count,
                 rx_count, frame_len, rx_buffer, distance, printed, rx_timeout, chip>>

\* The peer's two timestamps come from rx_buffer, ours from the chip.
ComputeDistance ==
  /\ step = "compute"
  /\ step' = "print"
  /\ distance' = [node |-> target_node, peer |-> rx_buffer.ex,
                  tx |-> tx_stamp, rx |-> rx_stamp]
  /\ UNCHANGED <<calls, target_node, frame_seq_nb, tx_poll_msg, tx_count,
                 rx_count, frame_len, rx_buffer, printed, rx_timeout, chip>>

print_distance ==
  /\ step = "print"
  /\ step' = "sleep"
  /\ printed' = [node |-> target_node, range |-> distance]
  /\ UNCHANGED <<calls, target_node, frame_seq_nb, tx_poll_msg, tx_count,
                 rx_count, frame_len, rx_buffer, distance, rx_timeout, chip>>

ClearBadEvents ==
  /\ step = "bad"
  /\ step' = "reset"
  /\ status' = status \ BadEvents
  /\ UNCHANGED <<calls, target_node, frame_seq_nb, tx_poll_msg, tx_count,
                 rx_count, frame_len, rx_buffer, distance, printed, rx_timeout,
                 radio, rx_frame, rx_stamp, tx_stamp>>

\* A reset during reception may abort it; it does not stop a transmission.
dwt_rxreset ==
  /\ step = "reset"
  /\ step' = "sleep"
  /\ \/ radio' = radio
     \/ radio = "rx" /\ radio' = "off"
  /\ UNCHANGED <<calls, target_node, frame_seq_nb, tx_poll_msg, tx_count,
                 rx_count, frame_len, rx_buffer, distance, printed, rx_timeout,
                 status, rx_frame, rx_stamp, tx_stamp>>

\* RNG_DELAY_MS is 500 ms and the frame wait timeout 65 ms: what the chip
\* was doing is over when the delay is.
Sleep ==
  /\ step = "sleep"
  /\ radio = "off"
  /\ step' = IF calls < RunLength THEN "begin" ELSE "idle"
  /\ UNCHANGED <<calls, target_node, frame_seq_nb, tx_poll_msg, tx_count,
                 rx_count, frame_len, rx_buffer, distance, printed, rx_timeout, chip>>

---------------------------------------------------------------------------
(* The transceiver, with the responders and the air behind it *)

\* The poll is sent; DWT_RESPONSE_EXPECTED turns the receiver on after it.
TxDone ==
  /\ radio = "tx"
  /\ radio' = "rx"
  /\ status' = status \cup {"TXFRS"}
  /\ tx_stamp' = tx_count
  /\ UNCHANGED <<initiator, rx_frame, rx_stamp>>

\* The node polled answers with a whole response.  Its header, like that of
\* every response, bears the addresses all initiators have in common and, once
\* the sequence number is cleared, nothing else that says whom it answers.
Heard ==
  {f \in [from : 0 .. NumNodes, ex : {Elsewhere, tx_count}, len : FrameLengths] :
     /\ f.ex = tx_count => f.from = tx_poll_msg.dest /\ f.len = "whole"
     /\ f.ex = Elsewhere /\ f.from # Other => OtherInitiators}

RxFrame ==
  /\ radio = "rx"
  /\ radio' = "off"
  /\ rx_frame' \in Heard
  /\ rx_stamp' = tx_count
  /\ \/ status' = status \cup {GoodEvent}
     \/ StickyErrors /\ status' = status \cup {GoodEvent, "ALL_RX_ERR"}
  /\ UNCHANGED <<initiator, tx_stamp>>

RxError ==
  /\ radio = "rx"
  /\ radio' = "off"
  /\ status' = status \cup {"ALL_RX_ERR"}
  /\ UNCHANGED <<initiator, rx_frame, rx_stamp, tx_stamp>>

RxTimeout ==
  /\ radio = "rx" /\ rx_timeout
  /\ radio' = "off"
  /\ status' = status \cup {"ALL_RX_TO"}
  /\ UNCHANGED <<initiator, rx_frame, rx_stamp, tx_stamp>>

---------------------------------------------------------------------------
ss_init_run ==
  \/ StartExchange \/ PollStatus
  \/ ClearGoodEvent \/ ReadLength \/ ReadFrame
  \/ AcceptResponse \/ RejectResponse \/ ComputeDistance \/ print_distance
  \/ ClearBadEvents \/ dwt_rxreset
  \/ Sleep

dw1000 == TxDone \/ RxFrame \/ RxError \/ RxTimeout

Next ==
  \/ DwmInitFails \/ breadcrumb_dwm_init \/ func4 \/ Wait
  \/ ss_init_run
  \/ dw1000

\* The main loop runs whenever no interrupt does; a transmission ends, and
\* the chip's own timer ends a reception.  Nobody promises a frame.
Fairness == WF_vars(ss_init_run) /\ WF_vars(TxDone) /\ WF_vars(RxTimeout)

Spec == Init /\ [][Next]_vars
FairSpec == Spec /\ Fairness

---------------------------------------------------------------------------
(* Properties *)

Steps == {"boot", "halted", "idle", "begin", "poll", "good", "length", "read",
          "check", "compute", "print", "bad", "reset", "sleep"}

\* Every variable keeps its type; MaxTx bounds the polls a run can reach.
TypeOK ==
  /\ step \in Steps
  /\ calls \in Nat
  /\ target_node \in 0 .. NumNodes
  /\ frame_seq_nb \in [Node -> 0 .. SeqMod - 1]
  /\ tx_poll_msg \in [dest : Node, sn : 0 .. SeqMod - 1]
  /\ tx_count \in Nat /\ rx_count \in Nat
  /\ frame_len \in {"whole", "short", "long"} /\ rx_timeout \in BOOLEAN
  /\ rx_buffer \in [from : 0 .. NumNodes, ex : Nat]
  /\ rx_frame \in Frame
  /\ distance \in Range
  /\ printed \in [node : 0 .. NumNodes, range : Range]
  /\ status \subseteq RxEvents \cup {"TXFRS"}
  /\ radio \in {"off", "tx", "rx"}
  /\ rx_stamp \in Nat /\ tx_stamp \in Nat

\* The k-th poll of the device goes to node (k-1) mod N + 1 and carries the
\* number (k-1) div N: whatever the exchanges before it came to, the rotation
\* of ss_init_run and the counters of frame_incr stay in step.
PollSchedule ==
  tx_count > 0 =>
    /\ tx_poll_msg.dest = ((tx_count - 1) % NumNodes) + 1
    /\ tx_poll_msg.sn = ((tx_count - 1) \div NumNodes) % SeqMod

\* A whole run of func4 spends one number of every node: between runs no
\* node has been polled more often than another.
RunServesEveryNode ==
  step = "idle" => \A m, n \in Node : frame_seq_nb[m] = frame_seq_nb[n]

\* The timestamps are of an answer to one of our polls.  Next to another
\* initiator nothing in a frame shows it, and the code cannot tell.
Ours(ex) == OtherInitiators => ex # Elsewhere

\* A distance is computed from the four timestamps of one exchange, and it is
\* of the node polled in that exchange: never from the response of the node
\* before it in the rotation that arrived too late to be read in its turn.
\* Without other initiators this is so of every distance.
RangeIsCoherent ==
  distance # NoRange /\ Ours(distance.peer) =>
    /\ distance.tx = distance.peer /\ distance.rx = distance.peer
    /\ distance.node = ((distance.peer - 1) % NumNodes) + 1

\* An accepted frame is counted for the exchange in which it was accepted:
\* the frame just received is the one rx_count is raised for.  (The comment
\* above the memcmp: "Check that the frame is the expected response".)
AcceptedFrameIsReceived ==
  [][rx_count' > rx_count /\ Ours(rx_buffer.ex) =>
       SameFrame(rx_buffer, rx_frame)]_vars

\* What print_distance writes next to a node is a distance of that node (the
\* comment above the call: "print ranges to correct node").
PrintedRangeIsOfNode ==
  printed.range # NoRange => printed.node = printed.range.node

\* The busy-wait on the status register always ends, although the firmware
\* has no timeout of its own and a responder may never answer.
PollLoopEnds == (step = "poll") ~> (step = "sleep")
=============================================================================
