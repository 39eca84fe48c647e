------------------------- MODULE TransceiverProofs -------------------------
(***************************************************************************)
(* The invariants of the driver's event service, proved for any number of  *)
(* starts and of frames.                                                   *)
(*                                                                         *)
(* The chip acts between any two steps of the service, so that what the    *)
(* service decides on is a status it has read before.  The invariant says  *)
(* what may have changed since: which events are still owed, which buffer  *)
(* holds which of the frames that wait, what may be on next to them, and   *)
(* why AAT is set.                                                         *)
(***************************************************************************)
EXTENDS Transceiver, SequenceTheorems, TLAPS

\* The frames that wait to be reported.
Waiting == Len(unreported)

\* Of the two buffers.
TheOther(b) == 1 - b

\* Where the service has a frame to report; where it has not yet looked at the
\* other events it has read; where the frame's interrupt is cleared.
Serving == {"deactivate", "frame", "length", "fctrl", "aat"}
BeforeTx == Serving \cup {"cbRxOk", "transmissions"}
Taken == {"length", "fctrl", "aat"}

\* The events the service has read and not yet reported.
Pending ==
  CASE at \in BeforeTx -> seen \ {"RXFCG", "AAT"}
    [] at \in {"cbTxDone", "timeouts"} -> seen \cap RxEvents
    [] at \in {"cbRxTo", "errors"} -> seen \cap RxErr
    [] at \in {"main", "cbRxErr"} -> {}

\* An event is owed as long as the chip shows it or the service is about to
\* report it.
EventsAreOwed == owed = (status \ {"AAT"}) \cup Pending

\* The buffer of the oldest frame that waits.  In the callback of a frame the
\* host's pointer is still at that frame's.
Oldest == IF config.dblbuffon /\ at = "cbRxOk" THEN TheOther(HSRBP) ELSE HSRBP

\* The chip fills the buffer behind the frames that wait, and the only one if
\* there is only one.
Pointers ==
  /\ config.dblbuffon =>
       Waiting <= 2 /\ ICRBP = IF Waiting = 1 THEN TheOther(Oldest) ELSE Oldest
  /\ ~config.dblbuffon => Waiting <= 1 /\ ICRBP = HSRBP

\* The buffers hold the frames that wait, in their order.
Buffers ==
  /\ RXFCG[Oldest] <=> (Waiting >= 1 /\ at \notin Taken)
  /\ RXFCG[TheOther(Oldest)] <=> Waiting = 2
  /\ Waiting >= 1 => rx_buffer[Oldest] = unreported[1]
  /\ Waiting = 2 => rx_buffer[TheOther(Oldest)] = unreported[2]

\* What the service has read of the frame it reports.
FrameInService ==
  /\ at \in Serving =>
       /\ Waiting >= 1 /\ "RXFCG" \in seen
       /\ cbData.status = seen
       /\ "AAT" \in status => "AAT" \in seen
  /\ at \in {"fctrl", "aat"} => cbData.datalength = unreported[1]
  /\ at = "aat" => cbData.fctrl = unreported[1]
  /\ cbData.status \in {seen, seen \ {"AAT"}}

\* The receiver is on by itself, or will be, or has been: an acknowledgement was
\* sent to a response.
Ghostly ==
  radio = "ghost" \/ (radio = "ack" /\ WAIT4RESP) \/ Waiting = 2

\* A reception ends in one way.
OneFailure(events) == events \cap RxTo = {} \/ events \cap RxErr = {}

\* What may be on, next to what waits.
Radio ==
  /\ radio \in {"tx", "rx", "listen", "sleep"} => Waiting = 0 /\ "AAT" \notin status
  /\ radio # "idle" => status \cap RxEvents = {}
  /\ radio \in {"ack", "ghost"} =>
       Waiting <= 1 /\ (Waiting = 1 => unreported[1].ack) /\ config.autoack
  /\ radio = "ack" => "TXFRS" \notin status /\ "AAT" \in status
  /\ radio = "ghost" => "TXFRS" \in status
  /\ Waiting = 2 => /\ radio = "idle" /\ unreported[1].ack /\ config.autoack
                    /\ "TXFRS" \in status /\ status \cap RxEvents = {}
  /\ WAIT4RESP /\ radio \in {"tx", "rx"} => wait4resp
  /\ Ghostly => "AAT" \in status /\ wait4resp
  /\ unreset => status \cap RxEvents # {}
  /\ OneFailure(status) /\ OneFailure(seen)
  /\ lostAck => config.autoack

\* AAT is there for an acknowledgement that is sent or not yet confirmed, or by
\* mistake for a frame that waits.
Acknowledged ==
  "AAT" \in status =>
     \/ radio = "ack" \/ "TXFRS" \in status
     \/ Waiting >= 1 /\ ~unreported[1].ack

\* A receiver that waits for a response does not acknowledge it as long as the
\* transmission is not confirmed.
Unconfirmed == radio = "rx" /\ WAIT4RESP /\ config.autoack => "TXFRS" \in status

\* Next to an acknowledgement after which the receiver goes on, none waits; next
\* to any other, one.
AtMostOne ==
  /\ Waiting <= 1 /\ (radio = "ghost" \/ (radio = "ack" /\ WAIT4RESP) => Waiting = 0)
  /\ Unconfirmed

\* Until the service recovers from a failure it has read, nothing is on and the
\* application may start nothing.
Failed ==
  /\ radio = "idle" /\ Waiting <= 1
  /\ "AAT" \in cbData.status \/ status \cap RxEvents # {}
  /\ "TXFRS" \in seen => "TXFRS" \notin status

\* What the chip and the callbacks may have done since the service read the
\* status it decides on.
SinceRead ==
  /\ at \in BeforeTx /\ "TXFRS" \in seen =>
       /\ config.dblbuffon => "TXFRS" \in status
       /\ radio = "ghost" => "AAT" \in seen
  /\ at \in BeforeTx => seen \cap RxEvents \subseteq status
  /\ at = "transmissions" => "TXFRS" \in seen
  /\ at \in {"timeouts", "cbRxTo"} => seen \cap RxTo # {}
  /\ at = "errors" => seen \cap RxErr # {}
  /\ at \in {"cbRxOk", "transmissions"} => AtMostOne
  /\ at \notin BeforeTx /\ Pending \cap RxEvents # {} => Failed
  /\ at = "cbRxOk" /\ "TXFRS" \in seen /\ "AAT" \notin cbData.status =>
       ("AAT" \in status => Waiting >= 1)
  /\ at \in {"cbRxOk", "transmissions"} /\ {"TXFRS", "AAT"} \subseteq seen /\ wait4resp =>
       "AAT" \in cbData.status /\ radio \notin {"tx", "rx"}

\* Low-power listening is on until its frame is served, and the chip sleeps or
\* listens only then.
LowPower ==
  /\ lowPower => /\ listener /\ at \in {"main", "deactivate"}
                 /\ radio \in {"sleep", "listen", "idle"} /\ status = {}
                 /\ radio = "idle" => Waiting >= 1
  /\ listener => /\ config.listens /\ at \in {"main", "cbRxOk"} \cup Serving
                 /\ at \in {"main", "deactivate"} => lowPower
                 /\ at # "main" => seen = {"RXFCG"}
  /\ radio \in {"sleep", "listen"} => lowPower

\* The inductive invariant.
IInv ==
  /\ TypeOK /\ EventsAreOwed /\ Pointers /\ Buffers /\ FrameInService /\ Radio
  /\ Acknowledged /\ SinceRead /\ LowPower

---------------------------------------------------------------------------
(* The initial states *)

\* The first of the frames that wait is a frame.
LEMMA WaitingType ==
  ASSUME TypeOK
  PROVE  /\ Waiting \in Nat
         /\ unreported = <<>> <=> Waiting = 0
         /\ Waiting >= 1 => unreported[1] \in Frame
BY LenProperties, EmptySeq, ElementOfSeq DEF TypeOK, Waiting

\* The invariant holds when the driver has not been called.
LEMMA Initially == Init => IInv
<1> SUFFICES ASSUME Init PROVE IInv
  OBVIOUS
<1>1. Waiting = 0
  BY DEF Init, Waiting
<1>2. TypeOK
  <2>1. unreported \in Seq(Frame)
    BY DEF Init
  <2>2. starts \in 0 .. MaxStarts /\ frames \in 0 .. MaxFrames
    BY TransceiverAssumption DEF Init
  <2>3. /\ RXFCG \in [0 .. 1 -> BOOLEAN] /\ rx_buffer \in [0 .. 1 -> Frame \cup {NoFrame}]
    BY DEF Init
  <2>4. cbData \in [status : SUBSET seen, datalength : Frame \cup {NoFrame},
                     fctrl : Frame \cup {NoFrame}]
    BY DEF Init
  <2> QED
    BY <2>1, <2>2, <2>3, <2>4 DEF Init, TypeOK, Callbacks
<1>3. Pending = {}
  BY DEF Init, Pending, BeforeTx, Serving
<1>4. EventsAreOwed
  BY <1>3 DEF Init, EventsAreOwed
<1>5. Pointers /\ Buffers
  BY <1>1 DEF Init, Pointers, Buffers, Oldest, TheOther
<1>6. FrameInService /\ Radio /\ Acknowledged /\ LowPower
  BY <1>1 DEF Init, FrameInService, Radio, Ghostly, Acknowledged, LowPower, Serving
<1>7. SinceRead
  BY <1>3 DEF Init, SinceRead, BeforeTx, Serving
<1> QED
  BY <1>2, <1>4, <1>5, <1>6, <1>7 DEF IInv

---------------------------------------------------------------------------
(* The chip *)

\* A chip that listens by itself has received nothing.
LEMMA DozeKeeps == IInv /\ Doze => IInv'
<1> SUFFICES ASSUME IInv, Doze PROVE IInv'
  OBVIOUS
<1> USE DEF Doze, service
<1>1. TypeOK'
  BY DEF IInv, TypeOK
<1>2. EventsAreOwed'
  BY DEF IInv, EventsAreOwed, Pending
<1>3. Pointers' /\ Buffers'
  BY DEF IInv, Pointers, Buffers, Oldest, Waiting
<1>4. FrameInService' /\ Acknowledged'
  BY DEF IInv, FrameInService, Acknowledged, Waiting
<1>5. Radio'
  BY DEF IInv, Radio, Ghostly, Waiting
<1>6. SinceRead'
  BY DEF IInv, SinceRead, AtMostOne, Failed, Unconfirmed, Pending, Waiting
<1>7. LowPower'
  BY DEF IInv, LowPower, Waiting
<1> QED
  BY <1>1, <1>2, <1>3, <1>4, <1>5, <1>6, <1>7 DEF IInv

\* What is on, is on although no failure waits to be reported.
LEMMA NothingFailed ==
  ASSUME IInv, radio # "idle"
  PROVE  at \notin BeforeTx => Pending \cap RxEvents = {}
BY DEF IInv, SinceRead, Failed

\* A transmission ends, and a receiver that is to wait for the response is on.
LEMMA TxEndKeeps == IInv /\ TxEnd => IInv'
<1> SUFFICES ASSUME IInv, TxEnd PROVE IInv'
  OBVIOUS
<1> USE DEF TxEnd, Sent, service
<1>1. TypeOK'
  BY DEF IInv, TypeOK
<1>2. EventsAreOwed'
  BY DEF IInv, EventsAreOwed, Pending
<1>3. Pointers' /\ Buffers'
  BY DEF IInv, Pointers, Buffers, Oldest, Waiting
<1>4. FrameInService' /\ Acknowledged'
  BY DEF IInv, FrameInService, Acknowledged, Waiting
<1>5. Radio'
  BY DEF IInv, Radio, Ghostly, OneFailure, Waiting, RxEvents, RxTo, RxErr
<1>6. SinceRead'
  <2>1. at \notin BeforeTx => Pending' \cap RxEvents = {}
    BY NothingFailed DEF Pending
  <2>2. at \in {"cbRxOk", "transmissions"} => AtMostOne'
    BY DEF IInv, Radio, SinceRead, AtMostOne, Unconfirmed, Waiting
  <2> QED
    BY <2>1, <2>2 DEF IInv, Radio, SinceRead, Waiting
<1>7. LowPower'
  BY DEF IInv, LowPower, Waiting
<1> QED
  BY <1>1, <1>2, <1>3, <1>4, <1>5, <1>6, <1>7 DEF IInv

\* So does an acknowledgement.
LEMMA AckEndKeeps == IInv /\ AckEnd => IInv'
<1> SUFFICES ASSUME IInv, AckEnd PROVE IInv'
  OBVIOUS
<1> USE DEF AckEnd, Sent, service
<1>1. TypeOK'
  BY DEF IInv, TypeOK
<1>2. EventsAreOwed'
  BY DEF IInv, EventsAreOwed, Pending
<1>3. Pointers' /\ Buffers'
  BY DEF IInv, Pointers, Buffers, Oldest, Waiting
<1>4. FrameInService' /\ Acknowledged'
  BY DEF IInv, FrameInService, Acknowledged, Waiting
<1>5. Radio'
  BY DEF IInv, Radio, Ghostly, OneFailure, Waiting, RxEvents, RxTo, RxErr
<1>6. SinceRead'
  <2>1. at \notin BeforeTx => Pending' \cap RxEvents = {}
    BY NothingFailed DEF Pending
  <2>2. at \in {"cbRxOk", "transmissions"} => AtMostOne'
    BY DEF IInv, Radio, SinceRead, AtMostOne, Unconfirmed, Waiting
  <2> QED
    BY <2>1, <2>2 DEF IInv, TypeOK, Configurations, Radio, SinceRead, Waiting
<1>7. LowPower'
  BY DEF IInv, LowPower, Waiting
<1> QED
  BY <1>1, <1>2, <1>3, <1>4, <1>5, <1>6, <1>7 DEF IInv

\* A reception fails: the receiver is off.
LEMMA RxEndKeeps == ASSUME IInv, NEW e \in RxEvents, RxEnd(e) PROVE IInv'
<1> USE DEF RxEnd, service
<1>1. TypeOK'
  <2>1. lostAck' \in BOOLEAN
    BY DEF IInv, TypeOK, Configurations
  <2>2. (status \cup {e}) \subseteq {"TXFRS", "AAT"} \cup RxEvents
    BY DEF IInv, TypeOK
  <2>3. (owed \cup {e}) \subseteq {"TXFRS"} \cup RxEvents
    BY DEF IInv, TypeOK
  <2> QED
    BY <2>1, <2>2, <2>3 DEF IInv, TypeOK
<1>2. EventsAreOwed'
  BY DEF IInv, EventsAreOwed, Pending, RxEvents, RxTo, RxErr
<1>3. Pointers' /\ Buffers'
  BY DEF IInv, Pointers, Buffers, Oldest, Waiting
<1>4. FrameInService' /\ Acknowledged'
  BY DEF IInv, FrameInService, Acknowledged, Waiting, RxEvents, RxTo, RxErr
<1>5. Radio'
  BY DEF IInv, Radio, Ghostly, OneFailure, Waiting, RxEvents, RxTo, RxErr
<1>6. SinceRead'
  <2>1. at \notin BeforeTx => Pending' \cap RxEvents = {}
    BY NothingFailed DEF Pending
  <2>2. at \in {"cbRxOk", "transmissions"} => AtMostOne'
    BY DEF IInv, SinceRead, AtMostOne, Unconfirmed, Waiting
  <2>3. status \subseteq status' /\ ("TXFRS" \in status' <=> "TXFRS" \in status)
    BY DEF RxEvents, RxTo, RxErr
  <2>4. "AAT" \in status' <=> "AAT" \in status
    BY DEF RxEvents, RxTo, RxErr
  <2> QED
    BY <2>1, <2>2, <2>3, <2>4 DEF IInv, SinceRead, Waiting
<1>7. LowPower'
  BY DEF IInv, LowPower, Waiting
<1> QED
  BY <1>1, <1>2, <1>3, <1>4, <1>5, <1>6, <1>7 DEF IInv

\* A frame that arrives waits behind the others.
LEMMA Appended ==
  ASSUME NEW f \in Frame, unreported \in Seq(Frame), unreported' = Append(unreported, f)
  PROVE  /\ unreported' \in Seq(Frame) /\ Waiting' = Waiting + 1
         /\ unreported'[Waiting + 1] = f
         /\ \A k \in 1 .. Waiting : unreported'[k] = unreported[k]
BY AppendProperties DEF Waiting

\* A good frame: only a receiver that is on by itself has one waiting before it.
LEMMA RxGoodKeeps == ASSUME IInv, NEW f \in Frame, RxGood(f) PROVE IInv'
<1>1. /\ radio \in {"rx", "ghost", "listen"}
      /\ f.ack => config.autoack /\ radio = "rx" /\ "TXFRS" \notin status
      /\ radio' = IF f.ack THEN "ack" ELSE "idle"
      /\ rx_buffer' = [rx_buffer EXCEPT ![ICRBP] = f]
      /\ RXFCG' = [RXFCG EXCEPT ![ICRBP] = TRUE]
      /\ ICRBP' = IF config.dblbuffon THEN 1 - ICRBP ELSE ICRBP
      /\ status' = IF f.ack \/ lostAck THEN status \cup {"AAT"} ELSE status
      /\ lostAck' = FALSE
      /\ UNCHANGED <<lowPower, WAIT4RESP, HSRBP, unreset, config, at, seen, cbData, listener,
                     wait4resp, owed, awaiting, starts>>
  BY DEF RxGood, service
<1>2. /\ unreported' \in Seq(Frame) /\ Waiting' = Waiting + 1
      /\ unreported'[Waiting + 1] = f
      /\ \A k \in 1 .. Waiting : unreported'[k] = unreported[k]
  BY Appended DEF RxGood, IInv, TypeOK
<1>3. f.ack \in BOOLEAN /\ frames' \in 0 .. MaxFrames
  BY TransceiverAssumption DEF RxGood, IInv, TypeOK, Frame
<1>4. Waiting \in Nat /\ Waiting <= 1 /\ (Waiting = 1 => radio = "ghost")
  BY <1>1, WaitingType DEF IInv, Radio
<1>5. Waiting = 1 => unreported'[1] = unreported[1]
  BY <1>2, <1>4
<1>6. /\ Waiting = 0 => Waiting' = 1 /\ unreported'[1] = f
      /\ Waiting = 1 => Waiting' = 2 /\ unreported'[2] = f
  BY <1>2, <1>4
<1>7. Waiting = 0 \/ Waiting = 1
  BY <1>4
<1>8. /\ ICRBP \in 0 .. 1 /\ HSRBP \in 0 .. 1 /\ config.dblbuffon \in BOOLEAN
      /\ config.autoack \in BOOLEAN /\ (config.autoack => config.dblbuffon)
      /\ config.listens => ~config.dblbuffon
      /\ RXFCG \in [0 .. 1 -> BOOLEAN] /\ rx_buffer \in [0 .. 1 -> Frame \cup {NoFrame}]
  BY DEF IInv, TypeOK, Configurations
<1>9. TypeOK'
  <2>1. RXFCG' \in [0 .. 1 -> BOOLEAN] /\ rx_buffer' \in [0 .. 1 -> Frame \cup {NoFrame}]
    BY <1>1, <1>8
  <2>2. ICRBP' \in 0 .. 1
    BY <1>1, <1>8
  <2>3. status' \subseteq {"TXFRS", "AAT"} \cup RxEvents
    BY <1>1 DEF IInv, TypeOK
  <2>4. cbData' \in [status : SUBSET seen', datalength : Frame \cup {NoFrame},
                      fctrl : Frame \cup {NoFrame}]
    BY <1>1 DEF IInv, TypeOK
  <2> QED
    BY ZenonT(40), <1>1, <1>2, <1>3, <2>1, <2>2, <2>3, <2>4 DEF IInv, TypeOK
<1>10. EventsAreOwed'
  BY <1>1 DEF IInv, EventsAreOwed, Pending
<1>11. Pointers'
  BY <1>1, <1>4, <1>6, <1>7, <1>8 DEF IInv, Pointers, Radio, Oldest, TheOther
<1>12. Buffers'
  <2>1. CASE Waiting = 0
    BY <1>1, <1>6, <1>8, <2>1
    DEF IInv, Pointers, Buffers, FrameInService, Oldest, TheOther, Serving, Taken
  <2>2. CASE Waiting = 1
    BY <1>1, <1>4, <1>5, <1>6, <1>8, <2>2
    DEF IInv, Pointers, Buffers, Radio, Oldest, TheOther, Taken
  <2> QED
    BY <1>7, <2>1, <2>2
<1>13. FrameInService'
  BY <1>1, <1>4, <1>5, <1>6, <1>7
  DEF IInv, FrameInService, Radio, Ghostly, Serving
<1>14. Radio'
  BY <1>1, <1>3, <1>4, <1>5, <1>6, <1>7, <1>8
  DEF IInv, Radio, Ghostly, OneFailure, RxEvents, RxTo, RxErr
<1>15. Acknowledged'
  BY <1>1, <1>3, <1>4, <1>5, <1>6, <1>7 DEF IInv, Radio, Ghostly, Acknowledged
<1>16. SinceRead'
  <2>1. at \in {"cbRxOk", "transmissions"} => AtMostOne'
    BY <1>1, <1>3, <1>4, <1>6, <1>7 DEF IInv, Radio, SinceRead, AtMostOne, Unconfirmed
  <2>2. at \notin BeforeTx /\ Pending \cap RxEvents # {} => Failed'
    BY <1>1, <1>3, <1>4, <1>6, <1>7 DEF IInv, Radio, SinceRead, Failed, Unconfirmed
  <2>3. Pending' = Pending /\ status \subseteq status'
    BY <1>1 DEF Pending
  <2> QED
    BY <1>1, <1>3, <1>6, <1>7, <2>1, <2>2, <2>3 DEF IInv, SinceRead
<1>17. LowPower'
  BY <1>1, <1>3, <1>4, <1>6, <1>7, <1>8 DEF IInv, LowPower, Radio
<1> QED
  BY <1>9, <1>10, <1>11, <1>12, <1>13, <1>14, <1>15, <1>16, <1>17 DEF IInv

---------------------------------------------------------------------------
(* The application *)

\* What the application starts it starts on a chip with nothing left to report.
LEMMA StartsClean ==
  ASSUME IInv, MayStart
  PROVE  /\ Waiting = 0 /\ "AAT" \notin status /\ status \cap RxEvents = {} /\ ~unreset
         /\ "TXFRS" \in status => at = "cbRxOk" /\ "TXFRS" \in seen
         /\ at \in {"main"} \cup Callbacks /\ at \notin Serving \cup {"transmissions"}
         /\ radio = "idle" /\ ~lowPower /\ (listener => at = "cbRxOk")
         /\ starts + 1 \in 0 .. MaxStarts
         /\ RXFCG[0] = FALSE /\ RXFCG[1] = FALSE
         /\ (config.dblbuffon /\ at = "cbRxOk") \/ HSRBP = ICRBP
<1>1. Waiting = 0 /\ radio = "idle" /\ at \in {"main"} \cup Callbacks
  BY WaitingType DEF IInv, MayStart
<1>2. at \notin Serving \cup {"transmissions"}
  BY <1>1 DEF Callbacks, Serving
<1>3. status \cap RxEvents = {}
  BY DEF MayStart, IInv, EventsAreOwed, RxEvents, RxTo, RxErr
<1>4. "TXFRS" \in status => at = "cbRxOk" /\ "TXFRS" \in seen
  BY DEF MayStart, IInv, EventsAreOwed
<1>5. "AAT" \notin status
  <2>1. "AAT" \in status => "TXFRS" \in status
    BY <1>1 DEF IInv, Acknowledged
  <2>2. at = "cbRxOk" => "AAT" \notin cbData.status
    BY DEF MayStart
  <2> QED
    BY <1>1, <1>4, <2>1, <2>2 DEF IInv, SinceRead
<1>6. ~unreset
  BY <1>3 DEF IInv, Radio
<1>7. ~lowPower /\ (listener => at = "cbRxOk")
  BY <1>1, <1>2 DEF IInv, LowPower
<1>8. starts + 1 \in 0 .. MaxStarts
  BY TransceiverAssumption DEF MayStart, IInv, TypeOK
<1>9. RXFCG[0] = FALSE /\ RXFCG[1] = FALSE
  <2>1. /\ RXFCG[Oldest] = FALSE /\ RXFCG[TheOther(Oldest)] = FALSE
    BY <1>1 DEF IInv, Buffers, TypeOK, Oldest, TheOther
  <2>2. Oldest \in {0, 1} /\ TheOther(0) = 1 /\ TheOther(1) = 0
    BY DEF IInv, TypeOK, Oldest, TheOther
  <2> QED
    BY <2>1, <2>2
<1>10. (config.dblbuffon /\ at = "cbRxOk") \/ HSRBP = ICRBP
  BY <1>1 DEF IInv, Pointers, TypeOK, Configurations, Oldest
<1> QED
  BY <1>1, <1>2, <1>3, <1>4, <1>5, <1>6, <1>7, <1>8, <1>9, <1>10

\* A transmission is started.
LEMMA StartTxKeeps ==
  ASSUME IInv, NEW expected \in BOOLEAN, NEW late \in BOOLEAN, StartTx(expected, late)
  PROVE  IInv'
<1>1. /\ Waiting = 0 /\ "AAT" \notin status /\ status \cap RxEvents = {} /\ ~unreset
      /\ at \in {"main"} \cup Callbacks /\ at \notin Serving \cup {"transmissions"}
      /\ radio = "idle" /\ ~lowPower /\ (listener => at = "cbRxOk")
      /\ starts + 1 \in 0 .. MaxStarts
  BY StartsClean DEF StartTx
<1>2. /\ radio' \in {"tx", "idle"} /\ WAIT4RESP' \in BOOLEAN
      /\ WAIT4RESP' => wait4resp'
      /\ wait4resp' \in BOOLEAN /\ awaiting' \in BOOLEAN /\ starts' = starts + 1
      /\ ~(at = "cbRxOk" /\ "TXFRS" \in cbData.status)
      /\ UNCHANGED <<lowPower, status, RXFCG, rx_buffer, ICRBP, HSRBP, unreset, lostAck, config,
                     owed, unreported, frames, at, seen, cbData, listener>>
  BY DEF StartTx, dwt_starttx, service, IInv, TypeOK
<1>3. TypeOK'
  BY <1>1, <1>2 DEF IInv, TypeOK
<1>4. EventsAreOwed'
  BY <1>2 DEF IInv, EventsAreOwed, Pending
<1>5. Pointers' /\ Buffers' /\ Waiting' = Waiting
  BY <1>2 DEF IInv, Pointers, Buffers, Oldest, Waiting
<1>6. FrameInService' /\ Acknowledged'
  BY <1>1, <1>2, <1>5 DEF IInv, FrameInService, Acknowledged
<1>7. Radio'
  BY <1>1, <1>2, <1>5 DEF IInv, Radio, Ghostly
<1>8. SinceRead'
  <2>1. at \notin BeforeTx => Pending' \cap RxEvents = {}
    <3>1. at # "main" => "AAT" \notin cbData.status
      BY DEF StartTx, MayStart
    <3> QED
      BY <1>1, <1>2, <3>1 DEF IInv, SinceRead, Failed, Pending
  <2>2. at # "transmissions" /\ (at = "cbRxOk" => "TXFRS" \notin seen)
    BY <1>1, <1>2 DEF IInv, FrameInService
  <2>3. at \in {"cbRxOk", "transmissions"} => AtMostOne'
    BY <1>1, <1>2, <1>5, <2>2 DEF IInv, SinceRead, AtMostOne, Unconfirmed
  <2> QED
    BY <1>1, <1>2, <1>5, <2>1, <2>2, <2>3 DEF IInv, SinceRead
<1>9. LowPower'
  BY <1>1, <1>2, <1>5 DEF IInv, LowPower
<1> QED
  BY <1>3, <1>4, <1>5, <1>6, <1>7, <1>8, <1>9 DEF IInv

\* The receiver is turned on, at once or with a delay; the pointers of the
\* buffers agree already.
LEMMA StartRxKeeps == IInv /\ StartRx => IInv'
<1> SUFFICES ASSUME IInv, StartRx PROVE IInv'
  OBVIOUS
<1>1. /\ Waiting = 0 /\ "AAT" \notin status /\ status \cap RxEvents = {} /\ ~unreset
      /\ "TXFRS" \in status => at = "cbRxOk" /\ "TXFRS" \in seen
      /\ at \in {"main"} \cup Callbacks /\ at \notin Serving \cup {"transmissions"}
      /\ radio = "idle" /\ ~lowPower /\ (listener => at = "cbRxOk")
      /\ starts + 1 \in 0 .. MaxStarts
      /\ RXFCG[0] = FALSE /\ RXFCG[1] = FALSE
      /\ (config.dblbuffon /\ at = "cbRxOk") \/ HSRBP = ICRBP
      /\ MayStart
  BY StartsClean DEF StartRx
<1>2. RXFCG \in [0 .. 1 -> BOOLEAN] /\ HSRBP \in 0 .. 1
  BY DEF IInv, TypeOK
<1>3. /\ radio' \in {"rx", "idle"} /\ WAIT4RESP' = FALSE
      /\ starts' = starts + 1 /\ HSRBP' = HSRBP /\ RXFCG' = RXFCG /\ unreported' = unreported
      /\ UNCHANGED <<lowPower, rx_buffer, ICRBP, unreset, lostAck, config, frames, awaiting,
                     at, seen, cbData, listener>>
      /\ \/ UNCHANGED <<status, owed, wait4resp>>
         \/ /\ status' = {} /\ owed' = owed \cap seen /\ wait4resp' = FALSE
            /\ ~(config.dblbuffon /\ at = "cbRxOk")
  <2>1. CASE dwt_rxenable(~ByHand)
    BY <1>1, <2>1 DEF StartRx, dwt_rxenable, dwt_syncrxbufptrs, ByHand, service
  <2>2. ASSUME NEW idle \in BOOLEAN, ~ByHand, dwt_rxenableLate(idle)
        PROVE  /\ radio' \in {"rx", "idle"} /\ WAIT4RESP' = FALSE
               /\ HSRBP' = HSRBP /\ RXFCG' = RXFCG /\ unreported' = unreported
               /\ UNCHANGED <<lowPower, rx_buffer, ICRBP, unreset, lostAck, config, frames,
                              awaiting>>
               /\ status' = {} /\ owed' = owed \cap seen /\ wait4resp' = FALSE
               /\ ~(config.dblbuffon /\ at = "cbRxOk")
    <3>1. RXFCG[HSRBP] = FALSE
      BY <1>1, <1>2
    <3>2. [RXFCG EXCEPT ![HSRBP] = FALSE] = RXFCG
      BY <1>2, <3>1
    <3>3. unreported = <<>>
      BY <1>1 DEF MayStart
    <3> QED
      BY <1>1, <2>2, <3>2, <3>3 DEF dwt_rxenableLate, dwt_syncrxbufptrs, ByHand
  <2> QED
    BY <2>1, <2>2 DEF StartRx, service
<1>4. Waiting' = Waiting /\ status' \subseteq status
  BY <1>3 DEF Waiting
<1>5. TypeOK'
  BY <1>1, <1>3, <1>4 DEF IInv, TypeOK
<1>6. EventsAreOwed'
  <2>1. CASE UNCHANGED <<status, owed>>
    BY <1>3, <2>1 DEF IInv, EventsAreOwed, Pending
  <2>2. CASE status' = {} /\ owed' = owed \cap seen
    <3>1. Pending' = Pending /\ Pending \subseteq seen
      BY <1>3 DEF Pending, IInv, TypeOK, BeforeTx, Serving, Callbacks
    <3>2. status \subseteq {"TXFRS"}
      BY <1>1 DEF IInv, TypeOK
    <3>3. "TXFRS" \in status => "TXFRS" \in Pending
      BY <1>1 DEF Pending, BeforeTx
    <3> QED
      BY <2>2, <3>1, <3>2, <3>3 DEF IInv, EventsAreOwed
  <2> QED
    BY <1>3, <2>1, <2>2
<1>7. Pointers' /\ Buffers'
  BY <1>3, <1>4 DEF IInv, Pointers, Buffers, Oldest
<1>8. FrameInService' /\ Acknowledged'
  BY <1>1, <1>3, <1>4 DEF IInv, FrameInService, Acknowledged
<1>9. Radio'
  BY <1>1, <1>3, <1>4 DEF IInv, Radio, Ghostly, OneFailure
<1>10. SinceRead'
  <2>1. at = "cbRxOk" => "AAT" \notin cbData.status
    BY <1>1 DEF MayStart
  <2>2. at \in BeforeTx => seen \cap RxEvents = {}
    BY <1>1 DEF IInv, SinceRead
  <2>3. at \in {"cbRxOk", "transmissions"} => AtMostOne'
    BY <1>1, <1>3, <1>4 DEF AtMostOne, Unconfirmed
  <2>4. at \notin BeforeTx => Pending' \cap RxEvents = {}
    <3>1. at # "main" => "AAT" \notin cbData.status
      BY <1>1 DEF MayStart
    <3> QED
      BY <1>1, <1>3, <3>1 DEF IInv, SinceRead, Failed, Pending
  <2>5. at \in BeforeTx => at = "cbRxOk"
    BY <1>1 DEF BeforeTx
  <2> QED
    BY <1>1, <1>3, <1>4, <2>1, <2>2, <2>3, <2>4, <2>5 DEF IInv, SinceRead
<1>11. LowPower'
  BY <1>1, <1>3, <1>4 DEF IInv, LowPower
<1> QED
  BY <1>5, <1>6, <1>7, <1>8, <1>9, <1>10, <1>11 DEF IInv

\* What is left when all is turned off.  Not within the callback of a frame,
\* where the host's pointer stays behind.
LEMMA ForcedOff ==
  ASSUME IInv, NEW read, dwt_forcetrxoff(read), dwt_rxreset,
         UNCHANGED <<seen, cbData, listener>>,
         awaiting' \in BOOLEAN, starts' \in 0 .. MaxStarts,
         at \in {"main", "transmissions", "timeouts", "errors"}, ~lowPower, Waiting <= 1,
         at' \in {"main", "cbTxDone", "cbRxTo", "cbRxErr"}
  PROVE  /\ TypeOK' /\ Pointers' /\ Buffers' /\ FrameInService' /\ Radio'
         /\ Acknowledged' /\ LowPower'
         /\ Waiting' = 0 /\ radio' = "idle" /\ status' = {} /\ owed' = owed \cap read
<1>1. /\ radio' = "idle" /\ WAIT4RESP' = FALSE /\ HSRBP' = ICRBP /\ status' = {}
      /\ RXFCG' = [RXFCG EXCEPT ![HSRBP] = FALSE]
      /\ owed' = owed \cap read /\ unreported' = <<>> /\ wait4resp' = FALSE
      /\ unreset' = FALSE
      /\ UNCHANGED <<lowPower, rx_buffer, ICRBP, lostAck, config, frames, seen, cbData, listener>>
  BY DEF dwt_forcetrxoff, dwt_syncrxbufptrs, dwt_rxreset
<1>2. Waiting' = 0
  BY <1>1 DEF Waiting
<1>3. Waiting \in Nat /\ (Waiting = 0 \/ Waiting = 1)
  BY WaitingType DEF IInv
<1>4. TypeOK'
  <2>1. RXFCG' \in [0 .. 1 -> BOOLEAN] /\ HSRBP' \in 0 .. 1 /\ unreported' \in Seq(Frame)
    BY <1>1 DEF IInv, TypeOK
  <2>2. cbData' \in [status : SUBSET seen', datalength : Frame \cup {NoFrame},
                      fctrl : Frame \cup {NoFrame}]
    BY <1>1 DEF IInv, TypeOK
  <2>3. owed' \subseteq {"TXFRS"} \cup RxEvents
    BY <1>1 DEF IInv, TypeOK
  <2> QED
    BY <1>1, <2>1, <2>2, <2>3 DEF IInv, TypeOK, Callbacks
<1>5. Pointers'
  BY <1>1, <1>2 DEF Pointers, Oldest
<1>6. Buffers'
  <2>1. RXFCG \in [0 .. 1 -> BOOLEAN] /\ HSRBP \in {0, 1} /\ ICRBP \in {0, 1}
    BY DEF IInv, TypeOK
  <2>2. RXFCG[TheOther(HSRBP)] = FALSE
    BY <1>3, <2>1 DEF IInv, Buffers, Oldest, TheOther
  <2>3. RXFCG'[0] = FALSE /\ RXFCG'[1] = FALSE
    BY <1>1, <2>1, <2>2 DEF TheOther
  <2>4. HSRBP' \in {0, 1}
    BY <1>1, <2>1
  <2> QED
    BY <1>2, <2>3, <2>4 DEF Buffers, Oldest, TheOther
<1>7. FrameInService'
  BY <1>1 DEF IInv, FrameInService, Serving
<1>8. Radio' /\ Acknowledged'
  BY <1>1, <1>2 DEF IInv, Radio, Ghostly, OneFailure, Acknowledged
<1>9. LowPower'
  BY <1>1 DEF IInv, LowPower, Serving
<1> QED
  BY <1>1, <1>2, <1>4, <1>5, <1>6, <1>7, <1>8, <1>9

\* The application turns all off.
LEMMA StopKeeps == IInv /\ Stop => IInv'
<1> SUFFICES ASSUME IInv, Stop PROVE IInv'
  OBVIOUS
<1>1. /\ at = "main" /\ at' = "main" /\ ~lowPower /\ Waiting <= 1
      /\ UNCHANGED <<seen, cbData, listener>> /\ awaiting' \in BOOLEAN
      /\ dwt_forcetrxoff({}) /\ dwt_rxreset
  BY DEF Stop, service, Waiting
<1>2. starts' \in 0 .. MaxStarts
  BY TransceiverAssumption DEF Stop, IInv, TypeOK
<1>3. /\ TypeOK' /\ Pointers' /\ Buffers' /\ FrameInService' /\ Radio'
      /\ Acknowledged' /\ LowPower' /\ status' = {} /\ owed' = owed \cap {}
  BY <1>1, <1>2, ForcedOff
<1>4. Pending' = {}
  BY <1>1 DEF Pending, BeforeTx, Serving
<1>5. EventsAreOwed'
  BY <1>3, <1>4 DEF EventsAreOwed
<1>6. SinceRead'
  BY <1>1, <1>4 DEF SinceRead, BeforeTx, Serving
<1> QED
  BY <1>3, <1>5, <1>6 DEF IInv

\* The chip is put to sleep, to listen.
LEMMA ListenKeeps == IInv /\ Listen => IInv'
<1> SUFFICES ASSUME IInv, Listen PROVE IInv'
  OBVIOUS
<1>1. /\ Waiting = 0 /\ "AAT" \notin status /\ status \cap RxEvents = {}
      /\ "TXFRS" \notin status /\ ~unreset /\ starts + 1 \in 0 .. MaxStarts
  BY StartsClean DEF Listen
<1>2. /\ at = "main" /\ at' = "main" /\ config.listens
      /\ lowPower' = TRUE /\ radio' = "sleep" /\ listener' = TRUE /\ starts' = starts + 1
      /\ UNCHANGED <<WAIT4RESP, status, RXFCG, rx_buffer, ICRBP, HSRBP, unreset, lostAck, config,
                     seen, cbData, wait4resp, owed, unreported, awaiting, frames>>
  BY DEF Listen, dwt_setlowpowerlistening
<1>3. Waiting' = Waiting
  BY <1>2 DEF Waiting
<1>4. status = {}
  BY <1>1 DEF IInv, TypeOK
<1>5. TypeOK'
  BY <1>1, <1>2 DEF IInv, TypeOK
<1>6. EventsAreOwed'
  BY <1>2 DEF IInv, EventsAreOwed, Pending
<1>7. Pointers' /\ Buffers'
  BY <1>2, <1>3 DEF IInv, Pointers, Buffers, Oldest
<1>8. FrameInService' /\ Acknowledged'
  BY <1>1, <1>2, <1>3 DEF IInv, FrameInService, Acknowledged, Serving
<1>9. Radio'
  BY <1>1, <1>2, <1>3, <1>4 DEF IInv, Radio, Ghostly, OneFailure
<1>10. SinceRead'
  BY <1>2 DEF SinceRead, BeforeTx, Serving, Pending
<1>11. LowPower'
  BY <1>2, <1>3, <1>4 DEF LowPower
<1> QED
  BY <1>5, <1>6, <1>7, <1>8, <1>9, <1>10, <1>11 DEF IInv

---------------------------------------------------------------------------
(* The service *)

\* What the service reads: the frame's interrupt is up for a frame that waits.
LEMMA StatusRead ==
  ASSUME IInv, ReadStatus
  PROVE  /\ "RXFCG" \in seen' <=> Waiting >= 1
         /\ seen' \ {"RXFCG"} = status /\ "RXFCG" \notin status
         /\ cbData' = [cbData EXCEPT !.status = seen'] /\ cbData'.status = seen'
         /\ at = "main" /\ Pending = {} /\ owed = status \ {"AAT"}
         /\ Waiting' = Waiting /\ seen' = SYS_STATUS
<1>1. /\ at = "main" /\ seen' = SYS_STATUS /\ cbData' = [cbData EXCEPT !.status = SYS_STATUS]
      /\ unreported' = unreported
  BY DEF ReadStatus
<1>2. RXFCG[HSRBP] <=> Waiting >= 1
  BY <1>1 DEF IInv, Buffers, Oldest, Taken
<1>3. "RXFCG" \notin status
  BY DEF IInv, TypeOK, RxEvents, RxTo, RxErr
<1>4. cbData'.status = seen'
  BY <1>1 DEF IInv, TypeOK
<1>5. Pending = {}
  BY <1>1 DEF Pending, BeforeTx, Serving
<1> QED
  BY <1>1, <1>2, <1>3, <1>4, <1>5 DEF SYS_STATUS, Waiting, IInv, EventsAreOwed

\* What the service has read is what the chip shows, at this step.
LEMMA IsrKeeps == IInv /\ dwt_isr => IInv'
<1> SUFFICES ASSUME IInv, dwt_isr PROVE IInv'
  OBVIOUS
<1>1. /\ "RXFCG" \in seen' <=> Waiting >= 1
      /\ seen' \ {"RXFCG"} = status /\ "RXFCG" \notin status
      /\ cbData' = [cbData EXCEPT !.status = seen'] /\ cbData'.status = seen'
      /\ at = "main" /\ Pending = {} /\ owed = status \ {"AAT"} /\ Waiting' = Waiting
  BY StatusRead DEF dwt_isr
<1>2. /\ ~listener /\ at' = Frames(seen')
      /\ UNCHANGED <<radio, lowPower, WAIT4RESP, status, RXFCG, rx_buffer, ICRBP, HSRBP, unreset,
                     lostAck, config, listener, wait4resp, owed, unreported, awaiting, starts,
                     frames>>
  BY StatusRead DEF dwt_isr, ReadStatus, chip
<1>3. at' \in {"frame", "transmissions", "timeouts", "errors", "main"}
  BY <1>2 DEF Frames, Transmissions, Timeouts, Errors
<1>4. /\ at' = "frame" <=> "RXFCG" \in seen'
      /\ at' = "transmissions" => "TXFRS" \in seen'
      /\ at' \in {"timeouts", "errors", "main"} => "TXFRS" \notin seen'
      /\ at' = "timeouts" => seen' \cap RxTo # {}
      /\ at' = "errors" => seen' \cap RxErr # {}
  BY <1>2 DEF Frames, Transmissions, Timeouts, Errors
<1>5. ~lowPower
  BY <1>2 DEF IInv, LowPower
<1>6. TypeOK'
  <2>1. seen' \subseteq {"RXFCG", "TXFRS", "AAT"} \cup RxEvents
    BY <1>1 DEF IInv, TypeOK
  <2>2. cbData' \in [status : SUBSET seen', datalength : Frame \cup {NoFrame},
                      fctrl : Frame \cup {NoFrame}]
    BY <1>1 DEF IInv, TypeOK
  <2> QED
    BY <1>2, <1>3, <2>1, <2>2 DEF IInv, TypeOK
<1>7. Pending' \subseteq status /\ "AAT" \notin Pending'
  BY <1>1, <1>3 DEF Pending, BeforeTx, Serving, RxEvents, RxTo, RxErr
<1>8. EventsAreOwed'
  BY <1>1, <1>2, <1>7 DEF EventsAreOwed
<1>9. Pointers'
  BY <1>1, <1>2, <1>3 DEF IInv, Pointers, Oldest
<1>10. Buffers'
  BY <1>1, <1>2, <1>3 DEF IInv, Buffers, Oldest, Taken
<1>11. FrameInService'
  BY <1>1, <1>2, <1>3, <1>4 DEF FrameInService, Serving
<1>12. Radio' /\ Acknowledged'
  <2>1. seen' \cap RxTo = status \cap RxTo /\ seen' \cap RxErr = status \cap RxErr
    BY <1>1 DEF RxTo, RxErr
  <2>2. OneFailure(status') /\ OneFailure(seen')
    BY <1>2, <2>1 DEF IInv, Radio, OneFailure
  <2>3. Radio'
    BY <1>1, <1>2, <2>2 DEF IInv, Radio, Ghostly
  <2> QED
    BY <1>1, <1>2, <2>3 DEF IInv, Acknowledged
<1>13. SinceRead'
  <2>1. at' \in BeforeTx => at' \in {"frame", "transmissions"}
    BY <1>3 DEF BeforeTx, Serving
  <2>2. "TXFRS" \in seen' <=> "TXFRS" \in status
    BY <1>1
  <2>3. "AAT" \in seen' <=> "AAT" \in status
    BY <1>1
  <2>4. at' # "frame" => Waiting' = 0
    BY <1>1, <1>4, WaitingType DEF IInv
  <2>5. seen' \cap RxEvents = status \cap RxEvents
    BY <1>1 DEF RxEvents, RxTo, RxErr
  <2>6. at' \in {"cbRxOk", "transmissions"} => AtMostOne'
    BY <1>2, <1>3, <1>4, <2>2, <2>4 DEF AtMostOne, Unconfirmed
  <2>7. at' \notin BeforeTx /\ Pending' \cap RxEvents # {} => Failed'
    <3> SUFFICES ASSUME at' \notin BeforeTx, Pending' \cap RxEvents # {} PROVE Failed'
      OBVIOUS
    <3>1. status \cap RxEvents # {}
      BY <1>7
    <3>2. radio = "idle"
      BY <3>1 DEF IInv, Radio
    <3>3. "TXFRS" \notin seen' /\ Waiting' = 0
      BY <1>3, <1>4, <2>4 DEF BeforeTx, Serving
    <3> QED
      BY <1>2, <3>1, <3>2, <3>3 DEF Failed
  <2>8. radio = "ghost" => "AAT" \in status
    BY DEF IInv, Radio, Ghostly
  <2>9. radio \in {"tx", "rx"} => "AAT" \notin status
    BY DEF IInv, Radio
  <2> QED
    BY <1>1, <1>2, <1>3, <1>4, <2>1, <2>2, <2>3, <2>5, <2>6, <2>7, <2>8, <2>9 DEF SinceRead
<1>14. LowPower'
  BY <1>2, <1>5 DEF IInv, LowPower
<1> QED
  BY <1>6, <1>8, <1>9, <1>10, <1>11, <1>12, <1>13, <1>14 DEF IInv

\* Listening, the service has read nothing but a frame.
LEMMA ListenIsrKeeps == IInv /\ dwt_lowpowerlistenisr => IInv'
<1> SUFFICES ASSUME IInv, dwt_lowpowerlistenisr PROVE IInv'
  OBVIOUS
<1>1. /\ "RXFCG" \in seen' <=> Waiting >= 1
      /\ seen' \ {"RXFCG"} = status /\ "RXFCG" \notin status
      /\ cbData' = [cbData EXCEPT !.status = seen'] /\ cbData'.status = seen'
      /\ at = "main" /\ Pending = {} /\ owed = status \ {"AAT"} /\ Waiting' = Waiting
  BY StatusRead DEF dwt_lowpowerlistenisr
<1>2. /\ listener /\ at' = "deactivate"
      /\ UNCHANGED <<radio, lowPower, WAIT4RESP, status, RXFCG, rx_buffer, ICRBP, HSRBP, unreset,
                     lostAck, config, listener, wait4resp, owed, unreported, awaiting, starts,
                     frames>>
      /\ seen' \ {"AAT"} # {}
  BY StatusRead DEF dwt_lowpowerlistenisr, ReadStatus, chip, dwt_checkirq
<1>3. lowPower /\ status = {}
  BY <1>1, <1>2 DEF IInv, LowPower
<1>4. seen' = {"RXFCG"} /\ Waiting >= 1
  BY <1>1, <1>2, <1>3
<1>5. radio = "idle"
  BY <1>3, <1>4, WaitingType DEF IInv, LowPower, Radio
<1>6. TypeOK'
  <2>1. cbData' \in [status : SUBSET seen', datalength : Frame \cup {NoFrame},
                      fctrl : Frame \cup {NoFrame}]
    BY <1>1 DEF IInv, TypeOK
  <2> QED
    BY <1>2, <1>4, <2>1 DEF IInv, TypeOK
<1>7. Pending' = {}
  BY <1>2, <1>4 DEF Pending, BeforeTx, Serving
<1>8. EventsAreOwed'
  BY <1>1, <1>2, <1>7 DEF EventsAreOwed
<1>9. Pointers' /\ Buffers'
  BY <1>1, <1>2 DEF IInv, Pointers, Buffers, Oldest, Taken
<1>10. FrameInService'
  BY <1>1, <1>2, <1>3, <1>4 DEF FrameInService, Serving
<1>11. Radio' /\ Acknowledged'
  BY <1>1, <1>2, <1>3, <1>4, <1>5
  DEF IInv, Radio, Ghostly, Acknowledged, OneFailure, RxTo, RxErr
<1>12. SinceRead'
  BY <1>2, <1>4, <1>7 DEF SinceRead, BeforeTx, Serving, RxEvents, RxTo, RxErr
<1>13. LowPower'
  BY <1>1, <1>2, <1>3, <1>4, <1>5 DEF IInv, LowPower, Serving
<1> QED
  BY <1>6, <1>8, <1>9, <1>10, <1>11, <1>12, <1>13 DEF IInv

\* Low-power listening is turned off before the frame's interrupt is cleared.
LEMMA DeactivateKeeps == IInv /\ Deactivate => IInv'
<1> SUFFICES ASSUME IInv, Deactivate PROVE IInv'
  OBVIOUS
<1>1. /\ at = "deactivate" /\ at' = "frame" /\ lowPower' = FALSE
      /\ UNCHANGED <<radio, WAIT4RESP, status, RXFCG, rx_buffer, ICRBP, HSRBP, unreset, lostAck,
                     config, seen, cbData, listener, wait4resp, owed, unreported, awaiting,
                     starts, frames>>
  BY DEF Deactivate, dwt_setlowpowerlistening
<1>2. Waiting' = Waiting /\ Pending' = Pending
  BY <1>1 DEF Waiting, Pending, BeforeTx, Serving
<1>3. TypeOK'
  BY <1>1 DEF IInv, TypeOK
<1>4. EventsAreOwed'
  BY <1>1, <1>2 DEF IInv, EventsAreOwed
<1>5. Pointers' /\ Buffers'
  BY <1>1, <1>2 DEF IInv, Pointers, Buffers, Oldest, Taken
<1>6. FrameInService' /\ Acknowledged'
  BY <1>1, <1>2 DEF IInv, FrameInService, Acknowledged, Serving
<1>7. Radio'
  BY <1>1, <1>2 DEF IInv, Radio, Ghostly, OneFailure
<1>8. SinceRead'
  BY <1>1, <1>2 DEF IInv, SinceRead, BeforeTx, Serving
<1>9. LowPower'
  BY <1>1, WaitingType DEF IInv, LowPower, FrameInService, Radio, Serving
<1> QED
  BY <1>3, <1>4, <1>5, <1>6, <1>7, <1>8, <1>9 DEF IInv

\* The chip stays awake when the interrupt is cleared.
LEMMA ClearFrameKeeps == IInv /\ ClearFrame => IInv'
<1> SUFFICES ASSUME IInv, ClearFrame PROVE IInv'
  OBVIOUS
<1>1. /\ at = "frame" /\ at' = "length" /\ RXFCG' = [RXFCG EXCEPT ![HSRBP] = FALSE]
      /\ radio' = IF lowPower THEN "sleep" ELSE radio
      /\ UNCHANGED <<lowPower, WAIT4RESP, status, rx_buffer, ICRBP, HSRBP, unreset, lostAck,
                     config, seen, cbData, listener, wait4resp, owed, unreported, awaiting,
                     starts, frames>>
  BY DEF ClearFrame
<1>2. Waiting' = Waiting /\ Pending' = Pending
  BY <1>1 DEF Waiting, Pending, BeforeTx, Serving
<1>3. radio' = radio
  BY <1>1 DEF IInv, LowPower
<1>4. TypeOK'
  BY <1>1, <1>3 DEF IInv, TypeOK
<1>5. EventsAreOwed'
  BY <1>1, <1>2 DEF IInv, EventsAreOwed
<1>6. Pointers'
  BY <1>1, <1>2 DEF IInv, Pointers, Oldest
<1>7. Buffers'
  <2>1. RXFCG \in [0 .. 1 -> BOOLEAN] /\ HSRBP \in {0, 1}
    BY DEF IInv, TypeOK
  <2>2. TheOther(HSRBP) \in 0 .. 1 /\ TheOther(HSRBP) # HSRBP
    BY <2>1 DEF TheOther
  <2>3. RXFCG'[HSRBP] = FALSE /\ RXFCG'[TheOther(HSRBP)] = RXFCG[TheOther(HSRBP)]
    BY <1>1, <2>1, <2>2
  <2> QED
    BY <1>1, <1>2, <2>3 DEF IInv, Buffers, Oldest, Taken
<1>8. FrameInService' /\ Acknowledged'
  BY <1>1, <1>2, <1>3 DEF IInv, FrameInService, Acknowledged, Serving
<1>9. Radio'
  BY <1>1, <1>2, <1>3 DEF IInv, Radio, Ghostly, OneFailure
<1>10. SinceRead'
  BY <1>1, <1>2, <1>3 DEF IInv, SinceRead, BeforeTx, Serving
<1>11. LowPower'
  BY <1>1, <1>2, <1>3 DEF IInv, LowPower, Serving
<1> QED
  BY <1>4, <1>5, <1>6, <1>7, <1>8, <1>9, <1>10, <1>11 DEF IInv

\* The buffer at the host's pointer is the frame's for both reads.
LEMMA ReadKeeps == IInv /\ (ReadLength \/ ReadFrameControl) => IInv'
<1> SUFFICES ASSUME IInv, ReadLength \/ ReadFrameControl PROVE IInv'
  OBVIOUS
<1>1. /\ \/ /\ at = "length" /\ at' = "fctrl"
            /\ cbData' = [cbData EXCEPT !.datalength = rx_buffer[HSRBP]]
         \/ /\ at = "fctrl" /\ at' = "aat"
            /\ cbData' = [cbData EXCEPT !.fctrl = rx_buffer[HSRBP]]
      /\ UNCHANGED <<radio, lowPower, WAIT4RESP, status, RXFCG, rx_buffer, ICRBP, HSRBP, unreset,
                     lostAck, config, seen, listener, wait4resp, owed, unreported, awaiting,
                     starts, frames>>
  BY DEF ReadLength, ReadFrameControl, chip
<1>2. Waiting' = Waiting /\ Pending' = Pending
  BY <1>1 DEF Waiting, Pending, BeforeTx, Serving
<1>3. rx_buffer[HSRBP] = unreported[1]
  BY <1>1 DEF IInv, FrameInService, Buffers, Oldest, Serving
<1>4. rx_buffer[HSRBP] \in Frame \cup {NoFrame} /\ cbData'.status = cbData.status
  BY <1>1 DEF IInv, TypeOK
<1>5. TypeOK'
  <2>1. cbData' \in [status : SUBSET seen', datalength : Frame \cup {NoFrame},
                      fctrl : Frame \cup {NoFrame}]
    BY <1>1, <1>4 DEF IInv, TypeOK
  <2> QED
    BY <1>1, <2>1 DEF IInv, TypeOK
<1>6. EventsAreOwed'
  BY <1>1, <1>2 DEF IInv, EventsAreOwed
<1>7. Pointers' /\ Buffers'
  BY <1>1, <1>2 DEF IInv, Pointers, Buffers, Oldest, Taken
<1>8. FrameInService'
  BY <1>1, <1>2, <1>3, <1>4 DEF IInv, TypeOK, FrameInService, Serving
<1>9. Radio' /\ Acknowledged'
  BY <1>1, <1>2 DEF IInv, Radio, Ghostly, OneFailure, Acknowledged
<1>10. SinceRead'
  BY <1>1, <1>2, <1>4 DEF IInv, SinceRead, BeforeTx, Serving
<1>11. LowPower'
  BY <1>1, <1>2 DEF IInv, LowPower, Serving
<1> QED
  BY <1>5, <1>6, <1>7, <1>8, <1>9, <1>10, <1>11 DEF IInv

\* The frame that is handed over does not wait any more.
LEMMA HandedOver ==
  ASSUME TypeOK, Waiting >= 1, CallRxOk
  PROVE  /\ unreported' \in Seq(Frame) /\ Waiting' = Waiting - 1
         /\ Waiting = 2 => unreported'[1] = unreported[2]
<1>1. unreported \in Seq(Frame) /\ unreported # <<>> /\ unreported' = Tail(unreported)
  BY WaitingType DEF TypeOK, CallRxOk
<1>2. /\ Tail(unreported) \in Seq(Frame)
      /\ Len(Tail(unreported)) = Len(unreported) - 1
      /\ \A i \in 1 .. Len(Tail(unreported)) : Tail(unreported)[i] = unreported[i + 1]
  BY <1>1, HeadTailProperties
<1> QED
  BY <1>1, <1>2 DEF Waiting

\* The callback of a frame: where AAT is wrong it is taken back, and where it is
\* right the chip has acknowledged this frame.
LEMMA CallRxOkKeeps == IInv /\ CallRxOk => IInv'
<1> SUFFICES ASSUME IInv, CallRxOk PROVE IInv'
  OBVIOUS
<1>1. /\ at = "aat" /\ at' = "cbRxOk" /\ awaiting' = FALSE
      /\ \/ /\ WrongAAT /\ status' = status \ {"AAT"} /\ wait4resp' = FALSE
            /\ cbData' = [cbData EXCEPT !.status = @ \ {"AAT"}]
         \/ ~WrongAAT /\ UNCHANGED <<status, wait4resp, cbData>>
      /\ UNCHANGED <<radio, lowPower, WAIT4RESP, RXFCG, rx_buffer, ICRBP, HSRBP, unreset, lostAck,
                     config, seen, listener, owed, starts, frames>>
  BY DEF CallRxOk
<1>2. /\ Waiting \in {1, 2} /\ "RXFCG" \in seen /\ cbData.status = seen
      /\ "AAT" \in status => "AAT" \in seen
      /\ cbData.fctrl = unreported[1]
      /\ WrongAAT <=> "AAT" \in seen /\ ~unreported[1].ack
  <2>1. Waiting >= 1 /\ Waiting <= 2 /\ Waiting \in Nat
    BY <1>1, WaitingType DEF IInv, TypeOK, Configurations, FrameInService, Pointers, Serving
  <2> QED
    BY <1>1, <2>1 DEF IInv, FrameInService, Serving, WrongAAT
<1>3. /\ unreported' \in Seq(Frame) /\ Waiting' = Waiting - 1
      /\ Waiting = 2 => unreported'[1] = unreported[2]
  BY <1>2, HandedOver DEF IInv
<1>4. /\ Waiting = 1 => Waiting' = 0
      /\ Waiting = 2 => Waiting' = 1 /\ unreported'[1] = unreported[2]
      /\ radio \in {"idle", "ack", "ghost"} /\ Waiting' \in {0, 1}
  BY <1>2, <1>3 DEF IInv, TypeOK, Radio
<1>5. cbData' \in [status : SUBSET seen', datalength : Frame \cup {NoFrame},
                    fctrl : Frame \cup {NoFrame}]
      /\ (WrongAAT => cbData'.status = seen \ {"AAT"})
      /\ (~WrongAAT => cbData'.status = seen)
  BY <1>1, <1>2 DEF IInv, TypeOK
\* AAT is wrong only for a frame behind which nothing waits and nothing is on.
<1>6. WrongAAT => Waiting = 1 /\ radio = "idle"
  BY <1>2, <1>4 DEF IInv, Radio
<1>7. /\ status' \subseteq status /\ status \ {"AAT"} \subseteq status'
      /\ WrongAAT => "AAT" \notin status' /\ ~wait4resp'
      /\ ~WrongAAT => status' = status /\ wait4resp' = wait4resp
  BY <1>1
<1>8. TypeOK'
  BY <1>1, <1>3, <1>5, <1>7 DEF IInv, TypeOK, Callbacks
<1>9. EventsAreOwed'
  <2>1. Pending' = Pending
    BY <1>1 DEF Pending, BeforeTx, Serving
  <2> QED
    BY <1>1, <1>7, <2>1 DEF IInv, EventsAreOwed
<1>10. HSRBP \in {0, 1} /\ config.dblbuffon \in BOOLEAN
  BY DEF IInv, TypeOK, Configurations
<1>11. Pointers'
  BY <1>1, <1>2, <1>4, <1>10 DEF IInv, Pointers, Oldest, TheOther
<1>12. Buffers'
  BY <1>1, <1>2, <1>4, <1>10 DEF IInv, Pointers, Buffers, Oldest, TheOther, Taken
<1>13. FrameInService'
  BY <1>1, <1>5 DEF FrameInService, Serving
<1>14. Radio'
  <2>1. OneFailure(status') /\ OneFailure(seen')
    BY <1>1, <1>7 DEF IInv, Radio, OneFailure
  <2>2. status' \cap RxEvents = status \cap RxEvents
    BY <1>7 DEF RxEvents, RxTo, RxErr
  <2>3. CASE WrongAAT
    BY <1>1, <1>4, <1>6, <1>7, <2>1, <2>2, <2>3 DEF IInv, Radio, Ghostly
  <2>4. CASE ~WrongAAT
    BY <1>1, <1>2, <1>4, <1>7, <2>1, <2>2, <2>4 DEF IInv, Radio, Ghostly
  <2> QED
    BY <2>3, <2>4
<1>15. Acknowledged'
  BY <1>1, <1>2, <1>7 DEF IInv, Acknowledged
<1>16. SinceRead'
  <2>1. AtMostOne'
    BY <1>1, <1>2, <1>4, <1>7 DEF IInv, Radio, AtMostOne, Unconfirmed
  <2>2. "TXFRS" \in seen =>
          /\ config.dblbuffon => "TXFRS" \in status
          /\ radio = "ghost" => "AAT" \in seen
    BY <1>1 DEF IInv, SinceRead, BeforeTx, Serving
  <2>3. seen \cap RxEvents \subseteq status'
    BY <1>1, <1>7 DEF IInv, SinceRead, BeforeTx, Serving, RxEvents, RxTo, RxErr
  <2>4. "TXFRS" \in status => "TXFRS" \in status'
    BY <1>7
  <2>5. "AAT" \notin cbData'.status => "AAT" \notin status'
    BY <1>2, <1>5, <1>7
  <2>6. "AAT" \in seen /\ wait4resp' => "AAT" \in cbData'.status
    BY <1>5, <1>7
  <2> QED
    BY <1>1, <1>4, <2>1, <2>2, <2>3, <2>4, <2>5, <2>6 DEF SinceRead, BeforeTx
<1>17. LowPower'
  BY <1>1, <1>4 DEF IInv, LowPower, Serving
<1> QED
  BY <1>8, <1>9, <1>11, <1>12, <1>13, <1>14, <1>15, <1>16, <1>17 DEF IInv

\* The service goes on with what it has read, the host's pointer at the buffer
\* that is next.
LEMMA ToggleKeeps == IInv /\ Toggle => IInv'
<1> SUFFICES ASSUME IInv, Toggle PROVE IInv'
  OBVIOUS
<1>1. /\ at = "cbRxOk" /\ ~listener /\ at' = Transmissions(seen)
      /\ HSRBP' = IF config.dblbuffon THEN TheOther(HSRBP) ELSE HSRBP
      /\ UNCHANGED <<radio, lowPower, WAIT4RESP, status, RXFCG, rx_buffer, ICRBP, unreset, lostAck,
                     config, seen, cbData, listener, wait4resp, owed, unreported, awaiting,
                     starts, frames>>
  BY DEF Toggle, HRBT, TheOther
<1>2. at' \in {"transmissions", "timeouts", "errors", "main"}
  BY <1>1 DEF Transmissions, Timeouts, Errors
<1>3. /\ at' = "transmissions" <=> "TXFRS" \in seen
      /\ at' = "timeouts" => seen \cap RxTo # {}
      /\ at' = "errors" => seen \cap RxErr # {} /\ seen \cap RxTo = {}
      /\ at' = "main" => seen \cap RxErr = {} /\ seen \cap RxTo = {}
  BY <1>1 DEF Transmissions, Timeouts, Errors
<1>4. Waiting' = Waiting /\ Oldest' = Oldest
  BY <1>1, <1>2 DEF Waiting, Oldest
<1>5. Pending' = Pending
  <2>1. Pending = seen \ {"RXFCG", "AAT"}
    BY <1>1 DEF Pending, BeforeTx
  <2>2. seen \subseteq {"RXFCG", "TXFRS", "AAT"} \cup RxEvents
    BY DEF IInv, TypeOK
  <2>3. CASE at' = "transmissions"
    BY <1>1, <2>1, <2>3 DEF Pending, BeforeTx
  <2>4. CASE at' = "timeouts"
    <3>1. Pending' = seen \cap RxEvents
      BY <1>1, <2>4 DEF Pending, BeforeTx, Serving
    <3> QED
      BY <1>3, <2>1, <2>2, <2>4, <3>1 DEF RxEvents, RxTo, RxErr
  <2>5. CASE at' = "errors"
    <3>1. Pending' = seen \cap RxErr
      BY <1>1, <2>5 DEF Pending, BeforeTx, Serving
    <3> QED
      BY <1>3, <2>1, <2>2, <2>5, <3>1 DEF RxEvents, RxTo, RxErr
  <2>6. CASE at' = "main"
    <3>1. Pending' = {}
      BY <1>1, <2>6 DEF Pending, BeforeTx, Serving
    <3> QED
      BY <1>3, <2>1, <2>2, <2>6, <3>1 DEF RxEvents, RxTo, RxErr
  <2> QED
    BY <1>2, <2>3, <2>4, <2>5, <2>6
<1>6. TypeOK'
  <2>1. HSRBP' \in 0 .. 1
    BY <1>1 DEF IInv, TypeOK, TheOther
  <2>2. cbData' \in [status : SUBSET seen', datalength : Frame \cup {NoFrame},
                      fctrl : Frame \cup {NoFrame}]
    BY <1>1 DEF IInv, TypeOK
  <2> QED
    BY <1>1, <1>2, <2>1, <2>2 DEF IInv, TypeOK
<1>7. EventsAreOwed'
  BY <1>1, <1>5 DEF IInv, EventsAreOwed
<1>8. Pointers'
  BY <1>1, <1>4 DEF IInv, Pointers, Oldest
<1>9. Buffers'
  BY <1>1, <1>2, <1>4 DEF IInv, Buffers, Taken
<1>10. FrameInService'
  BY <1>1, <1>2 DEF IInv, FrameInService, Serving
<1>11. Radio' /\ Acknowledged'
  BY <1>1, <1>4 DEF IInv, Radio, Ghostly, OneFailure, Acknowledged
<1>12. SinceRead'
  <2>1. at \in BeforeTx /\ (at' \in BeforeTx => at' = "transmissions")
    BY <1>1, <1>2 DEF BeforeTx, Serving
  <2>2. AtMostOne'
    BY <1>1, <1>4 DEF IInv, SinceRead, AtMostOne, Unconfirmed
  <2>3. at' \notin BeforeTx /\ Pending' \cap RxEvents # {} => Failed'
    <3> SUFFICES ASSUME at' \notin BeforeTx, Pending \cap RxEvents # {} PROVE Failed'
      BY <1>5
    <3>1. status \cap RxEvents # {}
      BY <1>1, <2>1 DEF IInv, SinceRead, Pending
    <3>2. radio = "idle" /\ Waiting <= 1
      BY <1>1, <3>1 DEF IInv, Radio, SinceRead, AtMostOne
    <3>3. "TXFRS" \notin seen
      BY <1>3 DEF BeforeTx
    <3> QED
      BY <1>1, <1>4, <3>1, <3>2, <3>3 DEF Failed
  <2> QED
    BY <1>1, <1>2, <1>3, <1>4, <2>1, <2>2, <2>3 DEF IInv, SinceRead
<1>13. LowPower'
  BY <1>1, <1>4 DEF IInv, LowPower, Serving
<1> QED
  BY <1>6, <1>7, <1>8, <1>9, <1>10, <1>11, <1>12, <1>13 DEF IInv

\* dwt_lowpowerlistenisr has read of no other event.
LEMMA ListenerReturnsKeeps == IInv /\ ListenerReturns => IInv'
<1> SUFFICES ASSUME IInv, ListenerReturns PROVE IInv'
  OBVIOUS
<1>1. /\ at = "cbRxOk" /\ listener /\ at' = "main" /\ listener' = FALSE
      /\ UNCHANGED <<radio, lowPower, WAIT4RESP, status, RXFCG, rx_buffer, ICRBP, HSRBP, unreset,
                     lostAck, config, seen, cbData, wait4resp, owed, unreported, awaiting,
                     starts, frames>>
  BY DEF ListenerReturns, chip
<1>2. seen = {"RXFCG"} /\ ~config.dblbuffon
  BY <1>1 DEF IInv, TypeOK, Configurations, LowPower
<1>3. Waiting' = Waiting /\ Oldest' = Oldest
  BY <1>1, <1>2 DEF Waiting, Oldest
<1>4. Pending = {} /\ Pending' = {}
  BY <1>1, <1>2 DEF Pending, BeforeTx, Serving
<1>5. TypeOK'
  BY SMTT(30), <1>1 DEF IInv, TypeOK
<1>6. EventsAreOwed'
  BY <1>1, <1>4 DEF IInv, EventsAreOwed
<1>7. Pointers' /\ Buffers'
  BY <1>1, <1>3 DEF IInv, Pointers, Buffers, Taken
<1>8. FrameInService'
  BY <1>1 DEF IInv, FrameInService, Serving
<1>9. Radio' /\ Acknowledged'
  BY <1>1, <1>3 DEF IInv, Radio, Ghostly, OneFailure, Acknowledged
<1>10. SinceRead'
  BY <1>1, <1>4 DEF SinceRead, BeforeTx, Serving
<1>11. LowPower'
  BY <1>1, <1>3 DEF IInv, LowPower, Serving
<1> QED
  BY <1>5, <1>6, <1>7, <1>8, <1>9, <1>10, <1>11 DEF IInv

\* A transmission is confirmed.  The receiver is on by itself only behind an
\* acknowledgement the service has read of, and then it is turned off.
LEMMA ClearTxKeeps == IInv /\ ClearTx => IInv'
<1> SUFFICES ASSUME IInv, ClearTx PROVE IInv'
  OBVIOUS
<1>1. /\ at = "transmissions" /\ at' = "cbTxDone"
      /\ UNCHANGED <<seen, cbData, listener, awaiting, starts>>
  BY DEF ClearTx
<1>2. ~lowPower /\ ~listener
  BY <1>1 DEF IInv, LowPower, Serving
<1>3. /\ "TXFRS" \in seen /\ AtMostOne
      /\ config.dblbuffon => "TXFRS" \in status
      /\ radio = "ghost" => "AAT" \in seen
      /\ seen \cap RxEvents \subseteq status
      /\ "AAT" \in seen /\ wait4resp => "AAT" \in cbData.status
  BY <1>1 DEF IInv, SinceRead, BeforeTx
<1>4. Pending = seen \ {"RXFCG", "AAT"} /\ Pending' = seen \cap RxEvents
  BY <1>1 DEF Pending, BeforeTx, Serving
<1>5. seen \subseteq {"RXFCG", "TXFRS", "AAT"} \cup RxEvents
  BY DEF IInv, TypeOK
<1>6. CASE ByAcknowledgement
  <2>1. dwt_forcetrxoff(seen \ {"TXFRS"}) /\ dwt_rxreset
    BY <1>6 DEF ClearTx
  <2>2. awaiting' \in BOOLEAN /\ starts' \in 0 .. MaxStarts
    BY <1>1 DEF IInv, TypeOK
  <2>3. /\ TypeOK' /\ Pointers' /\ Buffers' /\ FrameInService' /\ Radio'
        /\ Acknowledged' /\ LowPower' /\ Waiting' = 0 /\ radio' = "idle" /\ status' = {}
        /\ owed' = owed \cap (seen \ {"TXFRS"})
    BY <1>1, <1>2, <1>3, <2>1, <2>2, ForcedOff DEF AtMostOne
  <2>4. EventsAreOwed'
    <3>1. owed = (status \ {"AAT"}) \cup (seen \ {"RXFCG", "AAT"}) /\ "RXFCG" \notin status
      BY <1>4 DEF IInv, EventsAreOwed, TypeOK, RxEvents, RxTo, RxErr
    <3> QED
      BY <1>4, <1>5, <2>3, <3>1 DEF EventsAreOwed, RxEvents, RxTo, RxErr
  <2>5. Failed'
    BY <1>1, <1>3, <1>6, <2>3 DEF Failed, ByAcknowledgement
  <2>6. SinceRead'
    BY <1>1, <2>5 DEF SinceRead, BeforeTx, Serving
  <2> QED
    BY <2>3, <2>4, <2>6 DEF IInv
<1>7. CASE ~ByAcknowledgement
  <2>1. /\ status' = status \ {"TXFRS", "AAT"} /\ owed' = owed \ {"TXFRS"}
        /\ UNCHANGED <<radio, lowPower, WAIT4RESP, RXFCG, rx_buffer, ICRBP, HSRBP, unreset,
                       lostAck, config, wait4resp, unreported, frames>>
    BY <1>7 DEF ClearTx
  <2>2. Waiting' = Waiting /\ Oldest' = Oldest
    BY <1>1, <2>1 DEF Waiting, Oldest
  <2>3. radio # "ghost"
    BY <1>3, <1>7 DEF IInv, Radio, Ghostly, ByAcknowledgement
  <2>4. radio # "ack"
    BY <1>3 DEF IInv, TypeOK, Configurations, Radio
  <2>5. Waiting <= 1
    BY <1>3 DEF AtMostOne
  <2>6. status' \cap RxEvents = status \cap RxEvents
    BY <2>1 DEF RxEvents, RxTo, RxErr
  <2>7. TypeOK'
    <3>1. cbData' \in [status : SUBSET seen', datalength : Frame \cup {NoFrame},
                        fctrl : Frame \cup {NoFrame}]
      BY <1>1 DEF IInv, TypeOK
    <3>2. /\ status' \subseteq {"TXFRS", "AAT"} \cup RxEvents
          /\ owed' \subseteq {"TXFRS"} \cup RxEvents
      BY <2>1 DEF IInv, TypeOK
    <3> QED
      BY <1>1, <2>1, <3>1, <3>2 DEF IInv, TypeOK, Callbacks
  <2>8. EventsAreOwed'
    BY <1>4, <1>5, <2>1 DEF IInv, EventsAreOwed, RxEvents, RxTo, RxErr
  <2>9. Pointers' /\ Buffers'
    BY <1>1, <2>1, <2>2 DEF IInv, Pointers, Buffers, Taken
  <2>10. FrameInService' /\ Acknowledged'
    BY <1>1, <2>1 DEF IInv, FrameInService, Acknowledged, Serving
  <2>11. Radio'
    <3>1. OneFailure(status') /\ OneFailure(seen')
      BY <1>1, <2>1 DEF IInv, Radio, OneFailure
    <3>2. Waiting' # 2
      BY <2>2, <2>5, WaitingType DEF IInv
    <3> QED
      BY <2>1, <2>2, <2>3, <2>4, <2>5, <2>6, <3>1, <3>2 DEF IInv, Radio, Ghostly
  <2>12. SinceRead'
    <3>1. seen \cap RxEvents # {} => Failed'
      BY <1>1, <1>3, <2>1, <2>2, <2>5, <2>6 DEF IInv, Radio, Failed
    <3> QED
      BY <1>1, <1>4, <3>1 DEF SinceRead, BeforeTx, Serving
  <2>13. LowPower'
    BY <1>1, <1>2, <2>1 DEF IInv, LowPower
  <2> QED
    BY <2>7, <2>8, <2>9, <2>10, <2>11, <2>12, <2>13 DEF IInv
<1> QED
  BY <1>6, <1>7

\* A timeout or an error: what the application has not heard of is of the kind
\* the service goes on with.
LEMMA RecoverKeeps == IInv /\ (ClearTimeout \/ ClearError) => IInv'
<1> SUFFICES ASSUME IInv, ClearTimeout \/ ClearError PROVE IInv'
  OBVIOUS
<1>1. PICK events \in {RxTo, RxErr} :
        /\ dwt_forcetrxoff(seen \ events) /\ dwt_rxreset /\ awaiting' = FALSE
        /\ \/ at = "timeouts" /\ at' = "cbRxTo" /\ events = RxTo
           \/ at = "errors" /\ at' = "cbRxErr" /\ events = RxErr
        /\ UNCHANGED <<seen, cbData, listener, starts>>
  BY DEF ClearTimeout, ClearError, Recover
<1>2. ~lowPower /\ ~listener
  BY <1>1 DEF IInv, LowPower, Serving
<1>3. /\ at \notin BeforeTx
      /\ at = "timeouts" => seen \cap RxTo # {} /\ Pending = seen \cap RxEvents
      /\ at = "errors" => seen \cap RxErr # {} /\ Pending = seen \cap RxErr
  BY <1>1 DEF IInv, SinceRead, Pending, BeforeTx, Serving
<1>4. Pending \cap RxEvents # {}
  BY <1>1, <1>3 DEF RxEvents
<1>5. Waiting <= 1 /\ ("TXFRS" \in seen => "TXFRS" \notin status)
  BY <1>3, <1>4 DEF IInv, SinceRead, Failed
<1>6. awaiting' \in BOOLEAN /\ starts' \in 0 .. MaxStarts
  BY <1>1 DEF IInv, TypeOK
<1>7. /\ TypeOK' /\ Pointers' /\ Buffers' /\ FrameInService' /\ Radio'
      /\ Acknowledged' /\ LowPower' /\ Waiting' = 0 /\ radio' = "idle" /\ status' = {}
  BY <1>1, <1>2, <1>5, <1>6, ForcedOff
<1>8. owed' = owed \cap (seen \ events)
  BY <1>1 DEF dwt_forcetrxoff
<1>9. /\ at' = "cbRxTo" => Pending' = seen \cap RxErr
      /\ at' = "cbRxErr" => Pending' = {}
  BY <1>1 DEF Pending, BeforeTx, Serving
<1>10. EventsAreOwed'
  <2>1. owed = (status \ {"AAT"}) \cup Pending /\ "RXFCG" \notin status
        /\ status \subseteq {"TXFRS", "AAT"} \cup RxEvents
    BY DEF IInv, EventsAreOwed, TypeOK, RxEvents, RxTo, RxErr
  <2>2. CASE at = "timeouts"
    <3>1. owed' = (seen \cap RxErr)
      BY <1>1, <1>3, <1>5, <1>8, <2>1, <2>2 DEF RxEvents, RxTo, RxErr
    <3> QED
      BY <1>1, <1>7, <1>9, <2>2, <3>1 DEF EventsAreOwed
  <2>3. CASE at = "errors"
    <3>1. seen \cap RxTo = {}
      BY <1>3, <2>3 DEF IInv, Radio, OneFailure
    <3>2. owed' = {}
      BY <1>1, <1>3, <1>5, <1>8, <2>1, <2>3, <3>1 DEF RxEvents, RxTo, RxErr
    <3> QED
      BY <1>1, <1>7, <1>9, <2>3, <3>2 DEF EventsAreOwed
  <2> QED
    BY <1>1, <2>2, <2>3
<1>11. SinceRead'
  <2>1. at' = "cbRxTo" => seen \cap RxTo # {} /\ seen \cap RxErr = {}
    BY <1>1, <1>3 DEF IInv, Radio, OneFailure
  <2>2. Pending' = {}
    BY <1>1, <1>9, <2>1
  <2> QED
    BY <1>1, <2>1, <2>2 DEF SinceRead, BeforeTx, Serving
<1> QED
  BY <1>7, <1>10, <1>11 DEF IInv

\* A callback returns: what is left to report is unchanged.
LEMMA ReturnKeeps == IInv /\ Return => IInv'
<1> SUFFICES ASSUME IInv, Return PROVE IInv'
  OBVIOUS
<1>1. /\ \/ at = "cbTxDone" /\ at' = Timeouts(seen)
         \/ at = "cbRxTo" /\ at' = Errors(seen)
         \/ at = "cbRxErr" /\ at' = "main"
      /\ UNCHANGED <<radio, lowPower, WAIT4RESP, status, RXFCG, rx_buffer, ICRBP, HSRBP, unreset,
                     lostAck, config, seen, cbData, listener, wait4resp, owed, unreported,
                     awaiting, starts, frames>>
  BY DEF Return, chip
<1>2. /\ at' \in {"timeouts", "errors", "main"} /\ at \notin BeforeTx
      /\ at' = "timeouts" => seen \cap RxTo # {}
      /\ at' = "errors" => seen \cap RxErr # {}
  BY <1>1 DEF Timeouts, Errors, BeforeTx, Serving
<1>3. Waiting' = Waiting /\ Oldest' = Oldest
  BY <1>1, <1>2 DEF Waiting, Oldest
<1>4. Pending' = Pending
  <2>1. CASE at = "cbTxDone"
    <3>1. Pending = seen \cap RxEvents
      BY <2>1 DEF Pending, BeforeTx, Serving
    <3>2. /\ at' = "timeouts" => Pending' = seen \cap RxEvents
          /\ at' = "errors" => Pending' = seen \cap RxErr
          /\ at' = "main" => Pending' = {}
      BY <1>1 DEF Pending, BeforeTx, Serving
    <3>3. /\ at' # "timeouts" => seen \cap RxTo = {}
          /\ at' = "main" => seen \cap RxErr = {}
      BY <1>1, <2>1 DEF Timeouts, Errors
    <3> QED
      BY <1>2, <3>1, <3>2, <3>3 DEF RxEvents
  <2>2. CASE at = "cbRxTo"
    BY <1>1, <2>2 DEF Pending, BeforeTx, Serving, Errors
  <2>3. CASE at = "cbRxErr"
    BY <1>1, <2>3 DEF Pending, BeforeTx, Serving
  <2> QED
    BY <1>1, <2>1, <2>2, <2>3
<1>5. TypeOK'
  <2>1. cbData' \in [status : SUBSET seen', datalength : Frame \cup {NoFrame},
                      fctrl : Frame \cup {NoFrame}]
    BY <1>1 DEF IInv, TypeOK
  <2> QED
    BY <1>1, <1>2, <2>1 DEF IInv, TypeOK
<1>6. EventsAreOwed'
  BY <1>1, <1>4 DEF IInv, EventsAreOwed
<1>7. Pointers' /\ Buffers'
  BY <1>1, <1>2, <1>3 DEF IInv, Pointers, Buffers, Taken
<1>8. FrameInService'
  BY <1>1, <1>2 DEF IInv, FrameInService, Serving
<1>9. Radio' /\ Acknowledged'
  BY <1>1, <1>3 DEF IInv, Radio, Ghostly, OneFailure, Acknowledged
<1>10. SinceRead'
  <2>1. at' \notin BeforeTx /\ at' \notin {"cbRxTo", "cbRxOk", "transmissions"}
    BY <1>2 DEF BeforeTx, Serving
  <2>2. Pending' \cap RxEvents # {} => Failed'
    BY <1>1, <1>2, <1>3, <1>4 DEF IInv, SinceRead, Failed
  <2> QED
    BY <1>2, <1>1, <2>1, <2>2 DEF SinceRead
<1>11. LowPower'
  BY <1>1, <1>2, <1>3 DEF IInv, LowPower, Serving
<1> QED
  BY <1>5, <1>6, <1>7, <1>8, <1>9, <1>10, <1>11 DEF IInv

---------------------------------------------------------------------------
(* The invariant *)

\* The invariant is about the variables.
LEMMA StutterKeeps == IInv /\ UNCHANGED vars => IInv'
<1> SUFFICES ASSUME IInv, UNCHANGED vars PROVE IInv'
  OBVIOUS
<1> USE DEF vars, chip, service
<1>1. TypeOK'
  BY DEF IInv, TypeOK
<1>2. EventsAreOwed' /\ Pointers' /\ Buffers'
  BY DEF IInv, EventsAreOwed, Pending, Pointers, Buffers, Oldest, Waiting
<1>3. FrameInService' /\ Acknowledged' /\ LowPower'
  BY DEF IInv, FrameInService, Acknowledged, LowPower, Waiting
<1>4. Radio'
  BY DEF IInv, Radio, Ghostly, OneFailure, Waiting
<1>5. SinceRead'
  <2>1. Waiting' = Waiting /\ Pending' = Pending
    BY DEF Waiting, Pending
  <2>2. (Failed' <=> Failed) /\ (AtMostOne' <=> AtMostOne)
    BY <2>1 DEF Failed, AtMostOne, Unconfirmed
  <2> QED
    BY <2>1, <2>2 DEF IInv, SinceRead
<1> QED
  BY <1>1, <1>2, <1>3, <1>4, <1>5 DEF IInv

\* Every step keeps the invariant.
LEMMA Inductive == IInv /\ [Next]_vars => IInv'
<1> SUFFICES ASSUME IInv, [Next]_vars PROVE IInv'
  OBVIOUS
<1>1. CASE Chip
  BY <1>1, DozeKeeps, TxEndKeeps, AckEndKeeps, RxGoodKeeps, RxEndKeeps DEF Chip
<1>2. CASE App
  BY <1>2, ListenKeeps, StartTxKeeps, StartRxKeeps, StopKeeps DEF App
<1>3. CASE Service
  BY <1>3, IsrKeeps, ListenIsrKeeps, DeactivateKeeps, ClearFrameKeeps, ReadKeeps,
     CallRxOkKeeps, ToggleKeeps, ListenerReturnsKeeps, ClearTxKeeps, RecoverKeeps, ReturnKeeps
  DEF Service
<1>4. CASE UNCHANGED vars
  BY <1>4, StutterKeeps
<1> QED
  BY <1>1, <1>2, <1>3, <1>4 DEF Next

\* What the service, the chip and the application know of each other.
THEOREM Invariant == Spec => []IInv
<1>1. Init => IInv
  BY Initially
<1>2. IInv /\ [Next]_vars => IInv'
  BY Inductive
<1> QED
  BY <1>1, <1>2, PTL DEF Spec

\* Every variable has its type; the events given to a callback are some of those
\* the service has read.
THEOREM TypeCorrect == Spec => []TypeOK
<1>1. IInv => TypeOK
  BY DEF IInv
<1> QED
  BY <1>1, Invariant, PTL

\* dwt_isr hands over the frame that waits longest, its length and its control
\* field read from that frame, whatever the chip receives and acknowledges
\* between the reads: the pointers tell the buffer being read from the one being
\* filled.
THEOREM FrameWhole == Spec => []FrameIsWhole
<1>1. IInv => FrameIsWhole
  <2> SUFFICES ASSUME IInv, at = "aat" PROVE FrameIsWhole
    BY DEF FrameIsWhole
  <2>1. /\ Waiting >= 1 /\ cbData.datalength = unreported[1] /\ cbData.fctrl = unreported[1]
    BY DEF IInv, FrameInService, Serving
  <2>2. unreported \in Seq(Frame) /\ unreported # <<>>
    BY <2>1, WaitingType DEF IInv, TypeOK
  <2>3. Head(unreported) = unreported[1]
    BY <2>2, HeadTailProperties
  <2> QED
    BY <2>1, <2>2, <2>3 DEF FrameIsWhole
<1> QED
  BY <1>1, Invariant, PTL

\* Every callback dwt_isr makes reports an event that was raised and not reported
\* before, and when the interrupt line is down no event and no frame is left
\* unreported, however the chip's events fall between the service's steps.
THEOREM ReportedExactlyOnce == Spec => []ReportedOnce
<1>1. IInv => NothingInvented
  <2> SUFFICES ASSUME IInv PROVE NothingInvented
    OBVIOUS
  <2>1. at = "transmissions" => "TXFRS" \in Pending
    BY DEF IInv, SinceRead, Pending, BeforeTx
  <2>2. at = "timeouts" => Pending = seen \cap RxEvents /\ seen \cap RxTo # {}
    BY DEF IInv, SinceRead, Pending, BeforeTx, Serving
  <2>3. at = "errors" => Pending = seen \cap RxErr /\ seen \cap RxErr # {}
    BY DEF IInv, SinceRead, Pending, BeforeTx, Serving
  <2>4. Pending \subseteq owed
    BY DEF IInv, EventsAreOwed
  <2> QED
    BY <2>1, <2>2, <2>3, <2>4 DEF NothingInvented, RxEvents
<1>2. IInv => NothingLost
  <2> SUFFICES ASSUME IInv, at = "main", ~dwt_checkirq PROVE owed = {} /\ unreported = <<>>
    BY DEF NothingLost
  <2>1. ~RXFCG[HSRBP] /\ status \ {"AAT"} = {}
    BY DEF dwt_checkirq, SYS_STATUS
  <2>2. Pending = {}
    BY DEF Pending, BeforeTx, Serving
  <2>3. ~(Waiting >= 1)
    BY <2>1 DEF IInv, Buffers, Oldest, Taken
  <2> QED
    BY <2>1, <2>2, <2>3, WaitingType DEF IInv, EventsAreOwed
<1> QED
  BY <1>1, <1>2, Invariant, PTL DEF ReportedOnce

\* The receiver is never on after an error or a timeout without dwt_rxreset in
\* between.
THEOREM ReceiverIsReset == Spec => []CleanReceiver
<1>1. IInv => CleanReceiver
  BY DEF IInv, Radio, CleanReceiver
<1> QED
  BY <1>1, Invariant, PTL

\* The receiver that the end of an acknowledgement turned on is off when the
\* service is done, and the service turns off nothing of the application's for it.
THEOREM GhostCaught == Spec => []GhostOnly
<1>1. IInv => GhostIsCaught
  <2> SUFFICES ASSUME IInv, ~dwt_checkirq, radio = "ghost" PROVE FALSE
    BY DEF GhostIsCaught
  <2>1. "TXFRS" \in status
    BY DEF IInv, Radio
  <2> QED
    BY <2>1 DEF dwt_checkirq, SYS_STATUS
<1>2. IInv => OnlyGhostIsCaught
  BY DEF IInv, SinceRead, OnlyGhostIsCaught, ByAcknowledgement
<1> QED
  BY <1>1, <1>2, Invariant, PTL DEF GhostOnly

\* From the time the chip has received a frame in low-power listening until the
\* application puts it to sleep again, neither dwt_lowpowerlistenisr nor its
\* callback finds it asleep.
THEOREM Awake == Spec => []AwakeInService
<1>1. IInv => AwakeInService
  <2> SUFFICES ASSUME IInv, radio = "sleep" PROVE at = "main" /\ unreported = <<>>
    BY DEF AwakeInService
  <2>1. Waiting = 0 /\ lowPower
    BY DEF IInv, Radio, LowPower
  <2>2. at = "main"
    BY <2>1 DEF IInv, LowPower, FrameInService, Serving
  <2> QED
    BY <2>1, <2>2, WaitingType DEF IInv
<1> QED
  BY <1>1, Invariant, PTL
=============================================================================
