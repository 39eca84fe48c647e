---------------------------- MODULE Transceiver ----------------------------
(***************************************************************************)
(* The driver's event service: dwt_isr and the calls that start and stop   *)
(* the transceiver, made by the application between two services and by    *)
(* its callbacks within one, next to a DW1000 that transmits, receives and *)
(* acknowledges by itself between any two accesses to it.  Only one        *)
(* context calls the driver (dwt_isr is polled with dwt_checkirq), so that *)
(* the interrupt mask dwt_forcetrxoff saves and restores is never seen.    *)
(*                                                                         *)
(* What the chip does is taken from what the driver's comments say of it:  *)
(* it keeps a set of events, toggles its own pointer to the two receive    *)
(* buffers, sends acknowledgements, may set AAT for a frame that asks for  *)
(* none after one that was lost, and wrongly applies WAIT4RESP once more   *)
(* when it has sent an acknowledgement.  In low-power listening it sleeps, *)
(* wakes up to listen and sleeps again by itself, and                      *)
(* dwt_lowpowerlistenisr takes the frame it has received.                  *)
(***************************************************************************)
EXTENDS Naturals, Sequences

CONSTANTS
  NoFrame,
  MaxStarts, MaxFrames  \* bounds of the model: calls that start, frames

ASSUME TransceiverAssumption ==
  /\ MaxStarts \in Nat /\ MaxFrames \in Nat
  /\ NoFrame \notin [id : Nat, ack : BOOLEAN]

VARIABLES
  \* the chip
  radio,       \* "idle", "tx", "rx", "ack", "ghost": on without being asked,
               \* "sleep", or "listen": awake to listen
  lowPower,    \* ARXSLP and SNOZE of PMSC_CTRL1
  WAIT4RESP,   \* of the last command written to SYS_CTRL
  status,      \* SYS_STATUS without RXFCG, which each buffer has of its own
  RXFCG, rx_buffer, ICRBP, HSRBP,
  unreset,     \* the receiver ended with an error or a timeout, no reset since
  lostAck,     \* a frame was lost: AAT may come with the next one
  config,      \* dwt_setdblrxbuffmode and dwt_enableautoack, called once; listens
  \* the driver
  at, seen,    \* where dwt_isr is, and its copy of the status
  cbData, wait4resp,
  listener,    \* dwt_lowpowerlistenisr is the service
  \* what the application may expect
  owed,        \* events raised and not reported
  unreported,  \* good frames received and not reported
  awaiting,    \* a response was asked for, and nothing was reported since
  starts, frames  \* counters of the bounds

chip ==
  <<radio, lowPower, WAIT4RESP, status, RXFCG, rx_buffer, ICRBP, HSRBP, unreset, lostAck, config>>
service == <<at, seen, cbData, listener>>
vars == <<chip, service, wait4resp, owed, unreported, awaiting, starts, frames>>

Frame == [id : 1 .. MaxFrames, ack : BOOLEAN]
RxTo == {"RXRFTO", "RXPTO"}
RxErr == {"RXERR"}  \* any of SYS_STATUS_ALL_RX_ERR
RxEvents == RxTo \cup RxErr

\* With one buffer the automatic acknowledgement is not considered: the receiver
\* it turns on may overwrite the frame the service is reading.  Low-power
\* listening "is designed for single buffering case only".
Configurations ==
  {c \in [dblbuffon : BOOLEAN, autoack : BOOLEAN, listens : BOOLEAN] :
     /\ c.autoack => c.dblbuffon
     /\ c.listens => ~c.dblbuffon}

Init ==
  /\ config \in Configurations
  /\ radio = "idle" /\ lowPower = FALSE /\ listener = FALSE /\ WAIT4RESP = FALSE /\ status = {}
  /\ RXFCG = [b \in 0 .. 1 |-> FALSE] /\ rx_buffer = [b \in 0 .. 1 |-> NoFrame]
  /\ ICRBP = 0 /\ HSRBP = 0 /\ unreset = FALSE /\ lostAck = FALSE
  /\ at = "main" /\ seen = {} /\ wait4resp = FALSE
  /\ cbData = [status |-> {}, datalength |-> NoFrame, fctrl |-> NoFrame]
  /\ owed = {} /\ unreported = <<>> /\ awaiting = FALSE
  /\ starts = 0 /\ frames = 0

---------------------------------------------------------------------------
(* The chip *)

Sent ==
  /\ status' = status \cup {"TXFRS"} /\ owed' = owed \cup {"TXFRS"}
  /\ UNCHANGED <<lowPower, WAIT4RESP, RXFCG, rx_buffer, ICRBP, HSRBP, unreset, lostAck, config, service,
                 wait4resp, unreported, awaiting, starts, frames>>

TxEnd == radio = "tx" /\ radio' = (IF WAIT4RESP THEN "rx" ELSE "idle") /\ Sent

AckEnd == radio = "ack" /\ radio' = (IF WAIT4RESP THEN "ghost" ELSE "idle") /\ Sent

\* A good frame fills the chip's buffer.  A frame that is
\* acknowledged comes when the transmission before it is confirmed ("assuming
\* that the IRQ processing of that TX has already been handled"), and the
\* receiver that is on by itself gets one frame before the service turns it off.
RxGood(f) ==
  /\ radio \in {"rx", "ghost", "listen"} /\ f.id = frames + 1
  /\ f.ack => config.autoack /\ radio = "rx" /\ "TXFRS" \notin status
  /\ frames' = frames + 1
  /\ radio' = IF f.ack THEN "ack" ELSE "idle"
  /\ rx_buffer' = [rx_buffer EXCEPT ![ICRBP] = f]
  /\ RXFCG' = [RXFCG EXCEPT ![ICRBP] = TRUE]
  /\ ICRBP' = IF config.dblbuffon THEN 1 - ICRBP ELSE ICRBP
  /\ status' = IF f.ack \/ lostAck THEN status \cup {"AAT"} ELSE status
  /\ lostAck' = FALSE
  /\ unreported' = Append(unreported, f)
  /\ UNCHANGED <<lowPower, WAIT4RESP, HSRBP, unreset, config, service, wait4resp, owed,
                 awaiting, starts>>

\* A timeout of either kind or an error ends the reception.
RxEnd(e) ==
  /\ radio \in {"rx", "ghost"}
  /\ radio' = "idle" /\ unreset' = TRUE
  /\ status' = status \cup {e} /\ owed' = owed \cup {e}
  /\ lostAck' \in {lostAck, (e \in RxErr /\ config.autoack)}
  /\ UNCHANGED <<lowPower, WAIT4RESP, RXFCG, rx_buffer, ICRBP, HSRBP, config, service,
                 wait4resp, unreported, awaiting, starts, frames>>

\* Listening, the chip sleeps until its counter wakes it up, and sleeps again when
\* there is nothing to receive: no other event is seen.
Doze ==
  /\ lowPower
  /\ \/ radio = "sleep" /\ radio' = "listen"
     \/ radio = "listen" /\ radio' = "sleep"
  /\ UNCHANGED <<lowPower, WAIT4RESP, status, RXFCG, rx_buffer, ICRBP, HSRBP, unreset, lostAck,
                 config, service, wait4resp, owed, unreported, awaiting, starts, frames>>

Chip ==
  Doze \/ TxEnd \/ AckEnd \/ (\E f \in Frame : RxGood(f)) \/ (\E e \in RxEvents : RxEnd(e))

---------------------------------------------------------------------------
(* The calls *)

\* The host's pointer is toggled when it differs from the chip's.
dwt_syncrxbufptrs == HSRBP' = ICRBP

\* Off, and nothing that happened before is seen any more, but for the events
\* the service has read already.
dwt_forcetrxoff(read) ==
  /\ radio' = "idle" /\ WAIT4RESP' = FALSE /\ dwt_syncrxbufptrs
  /\ status' = {} /\ RXFCG' = [RXFCG EXCEPT ![HSRBP] = FALSE]
  /\ owed' = owed \cap read /\ unreported' = <<>> /\ wait4resp' = FALSE
  /\ UNCHANGED <<lowPower, rx_buffer, ICRBP, lostAck, config, frames>>

dwt_rxreset == unreset' = FALSE

\* A delayed transmission may be late: it is cancelled.
dwt_starttx(expected, late) ==
  /\ radio' = IF late THEN "idle" ELSE "tx"
  /\ WAIT4RESP' = (expected /\ ~late)
  /\ wait4resp' = (~late /\ (expected \/ wait4resp))
  /\ awaiting' = (expected /\ ~late)
  /\ UNCHANGED <<lowPower, status, RXFCG, rx_buffer, ICRBP, HSRBP, unreset, lostAck, config,
                 owed, unreported, frames>>

dwt_rxenable(sync) ==
  /\ radio' = "rx" /\ WAIT4RESP' = FALSE
  /\ IF sync THEN dwt_syncrxbufptrs ELSE HSRBP' = HSRBP
  /\ UNCHANGED <<lowPower, status, RXFCG, rx_buffer, ICRBP, unreset, lostAck, config,
                 wait4resp, owed, unreported, awaiting, frames>>

\* A delayed start that is late is forced off, and turned on at once unless
\* DWT_IDLE_ON_DLY_ERR is asked for.
dwt_rxenableLate(idle) ==
  /\ radio' = IF idle THEN "idle" ELSE "rx"
  /\ WAIT4RESP' = FALSE /\ dwt_syncrxbufptrs
  /\ status' = {} /\ RXFCG' = [RXFCG EXCEPT ![HSRBP] = FALSE]
  /\ owed' = owed \cap seen /\ unreported' = <<>> /\ wait4resp' = FALSE
  /\ UNCHANGED <<lowPower, rx_buffer, ICRBP, unreset, lostAck, config, awaiting, frames>>

dwt_setlowpowerlistening(enable) == lowPower' = enable

---------------------------------------------------------------------------
(* The application *)

Callbacks == {"cbTxDone", "cbRxOk", "cbRxTo", "cbRxErr"}

\* It starts something when nothing it started is going on or unreported; not
\* while the chip acknowledges a frame.
MayStart ==
  /\ starts < MaxStarts /\ radio = "idle" /\ unreported = <<>>
  /\ \/ at = "main" /\ owed = {}
     \/ /\ at \in Callbacks /\ "AAT" \notin cbData.status
        /\ status \cap RxEvents = {}
        /\ "TXFRS" \in owed => at = "cbRxOk" /\ "TXFRS" \in seen

\* The callback for a frame starts no transmission while the one before it is
\* not confirmed.
StartTx(expected, late) ==
  /\ MayStart /\ ~(at = "cbRxOk" /\ "TXFRS" \in cbData.status)
  /\ dwt_starttx(expected, late)
  /\ starts' = starts + 1 /\ UNCHANGED service

\* In the callback for a frame the pointers of two buffers are not aligned:
\* DWT_NO_SYNC_PTRS.
ByHand == config.dblbuffon /\ at = "cbRxOk"

StartRx ==
  /\ MayStart
  /\ \/ dwt_rxenable(~ByHand)
     \/ \E idle \in BOOLEAN : ~ByHand /\ dwt_rxenableLate(idle)
  /\ starts' = starts + 1 /\ UNCHANGED service

Stop ==
  /\ at = "main" /\ ~lowPower /\ starts < MaxStarts /\ Len(unreported) <= 1
  /\ dwt_forcetrxoff({}) /\ dwt_rxreset
  /\ awaiting' = FALSE
  /\ starts' = starts + 1 /\ UNCHANGED service

\* Low-power listening is turned on and the chip put to sleep.
Listen ==
  /\ MayStart /\ at = "main" /\ config.listens
  /\ dwt_setlowpowerlistening(TRUE) /\ radio' = "sleep" /\ listener' = TRUE
  /\ starts' = starts + 1
  /\ UNCHANGED <<WAIT4RESP, status, RXFCG, rx_buffer, ICRBP, HSRBP, unreset, lostAck, config,
                 at, seen, cbData, wait4resp, owed, unreported, awaiting, frames>>

App == Listen \/ (\E expected, late \in BOOLEAN : StartTx(expected, late)) \/ StartRx \/ Stop

---------------------------------------------------------------------------
(* dwt_isr *)

SYS_STATUS == status \cup (IF RXFCG[HSRBP] THEN {"RXFCG"} ELSE {})

\* AAT raises no interrupt.
dwt_checkirq == SYS_STATUS \ {"AAT"} # {}

\* Where the service goes with the events it has read: good frames first, then
\* transmissions, timeouts and errors.  (Mutant: the preamble's timeout is
\* forgotten.)
Errors(s) == IF s \cap RxErr # {} THEN "errors" ELSE "main"
FrameTimeouts(s) == IF "RXRFTO" \in s THEN "timeouts" ELSE Errors(s)
Timeouts(s) == IF s \cap RxTo # {} THEN "timeouts" ELSE Errors(s)
Transmissions(s) == IF "TXFRS" \in s THEN "transmissions" ELSE Timeouts(s)
Frames(s) == IF "RXFCG" \in s THEN "frame" ELSE Transmissions(s)

ReadStatus ==
  /\ at = "main" /\ dwt_checkirq
  /\ seen' = SYS_STATUS /\ cbData' = [cbData EXCEPT !.status = SYS_STATUS]
  /\ UNCHANGED <<chip, listener, wait4resp, owed, unreported, awaiting, starts, frames>>

dwt_isr == ReadStatus /\ ~listener /\ at' = Frames(SYS_STATUS)

dwt_lowpowerlistenisr == ReadStatus /\ listener /\ at' = "deactivate"

\* Mutant: low-power listening stays on until the frame is read.
StayListening ==
  /\ at = "deactivate" /\ at' = "frame"
  /\ UNCHANGED <<chip, seen, cbData, listener, wait4resp, owed, unreported, awaiting, starts,
                 frames>>

Deactivate ==
  /\ at = "deactivate" /\ at' = "frame"
  /\ dwt_setlowpowerlistening(FALSE)
  /\ UNCHANGED <<radio, WAIT4RESP, status, RXFCG, rx_buffer, ICRBP, HSRBP, unreset, lostAck,
                 config, seen, cbData, listener, wait4resp, owed, unreported, awaiting, starts,
                 frames>>

\* SYS_STATUS_ALL_RX_GOOD: AAT is not part of it.  Listening, the chip goes "back
\* to sleep as soon as the interrupt is cleared".
ClearFrame ==
  /\ at = "frame" /\ at' = "length"
  /\ RXFCG' = [RXFCG EXCEPT ![HSRBP] = FALSE]
  /\ radio' = IF lowPower THEN "sleep" ELSE radio
  /\ UNCHANGED <<lowPower, WAIT4RESP, status, rx_buffer, ICRBP, HSRBP, unreset, lostAck,
                 config, seen, cbData, listener, wait4resp, owed, unreported, awaiting, starts,
                 frames>>

ReadLength ==
  /\ at = "length" /\ at' = "fctrl"
  /\ cbData' = [cbData EXCEPT !.datalength = rx_buffer[HSRBP]]
  /\ UNCHANGED <<chip, seen, listener, wait4resp, owed, unreported, awaiting, starts, frames>>

ReadFrameControl ==
  /\ at = "fctrl" /\ at' = "aat"
  /\ cbData' = [cbData EXCEPT !.fctrl = rx_buffer[HSRBP]]
  /\ UNCHANGED <<chip, seen, listener, wait4resp, owed, unreported, awaiting, starts, frames>>

\* AAT was set for a frame that asks for no acknowledgement.
WrongAAT == "AAT" \in seen /\ ~cbData.fctrl.ack

\* The frame is handed over.
CallRxOk ==
  /\ at = "aat" /\ at' = "cbRxOk"
  /\ IF WrongAAT
     THEN /\ status' = status \ {"AAT"} /\ wait4resp' = FALSE
          /\ cbData' = [cbData EXCEPT !.status = @ \ {"AAT"}]
     ELSE UNCHANGED <<status, wait4resp, cbData>>
  /\ unreported' = (IF unreported = <<>> THEN <<>> ELSE Tail(unreported))
  /\ awaiting' = FALSE
  /\ UNCHANGED <<radio, lowPower, WAIT4RESP, RXFCG, rx_buffer, ICRBP, HSRBP, unreset, lostAck,
                 config, seen, listener, owed, starts, frames>>

\* Mutants: the pointer stays; is counted; is toggled with one buffer, too.
ToggleNot == HSRBP
ToggleCounts == IF config.dblbuffon THEN HSRBP + 1 ELSE HSRBP
ToggleAlways == 1 - HSRBP

HRBT == IF config.dblbuffon THEN 1 - HSRBP ELSE HSRBP

\* cbRxOk has returned; of two buffers the other one is next.
Toggle ==
  /\ at = "cbRxOk" /\ ~listener /\ at' = Transmissions(seen)
  /\ HSRBP' = HRBT
  /\ UNCHANGED <<radio, lowPower, WAIT4RESP, status, RXFCG, rx_buffer, ICRBP, unreset, lostAck,
                 config, seen, cbData, listener, wait4resp, owed, unreported, awaiting, starts,
                 frames>>

\* dwt_lowpowerlistenisr is done after the callback.  The application, which
\* goes on with the one who called it, takes dwt_isr for its service again.
ListenerReturns ==
  /\ at = "cbRxOk" /\ listener /\ at' = "main"
  /\ listener' = FALSE
  /\ UNCHANGED <<chip, seen, cbData, wait4resp, owed, unreported, awaiting, starts, frames>>

\* Mutant: the ghost is left on.
NeverByAcknowledgement == FALSE

\* The end of an acknowledgement the chip sent to a response has turned the
\* receiver on again.
ByAcknowledgement == "AAT" \in seen /\ wait4resp

ClearTx ==
  /\ at = "transmissions" /\ at' = "cbTxDone"
  /\ IF ByAcknowledgement
     THEN dwt_forcetrxoff(seen \ {"TXFRS"}) /\ dwt_rxreset
     ELSE /\ status' = status \ {"TXFRS", "AAT"} /\ owed' = owed \ {"TXFRS"}
          /\ UNCHANGED <<radio, lowPower, WAIT4RESP, RXFCG, rx_buffer, ICRBP, HSRBP, unreset,
                         lostAck, config, wait4resp, unreported, frames>>
  /\ UNCHANGED <<seen, cbData, listener, awaiting, starts>>

\* Mutant: the receiver is not reset.
OffWithoutReset(events) ==
  /\ dwt_forcetrxoff(seen \ events) /\ UNCHANGED unreset
  /\ awaiting' = FALSE
  /\ UNCHANGED <<seen, cbData, listener, starts>>

\* A timeout or an error: only RXRFTO is cleared by name, dwt_forcetrxoff
\* clears the rest, and the receiver is reset before the callback.
Recover(events) ==
  /\ dwt_forcetrxoff(seen \ events) /\ dwt_rxreset
  /\ awaiting' = FALSE
  /\ UNCHANGED <<seen, cbData, listener, starts>>

ClearTimeout == at = "timeouts" /\ at' = "cbRxTo" /\ Recover(RxTo)

ClearError == at = "errors" /\ at' = "cbRxErr" /\ Recover(RxErr)

\* A callback returns.
Return ==
  /\ \/ at = "cbTxDone" /\ at' = Timeouts(seen)
     \/ at = "cbRxTo" /\ at' = Errors(seen)
     \/ at = "cbRxErr" /\ at' = "main"
  /\ UNCHANGED <<chip, seen, cbData, listener, wait4resp, owed, unreported, awaiting, starts,
                 frames>>

Service ==
  \/ dwt_isr \/ ClearFrame \/ ReadLength \/ ReadFrameControl \/ CallRxOk \/ Toggle
  \/ dwt_lowpowerlistenisr \/ Deactivate \/ ListenerReturns
  \/ ClearTx \/ ClearTimeout \/ ClearError \/ Return

Next == Chip \/ App \/ Service

Spec == Init /\ [][Next]_vars

\* The chip ends what it does, the frame wait timeout being set, and the
\* service is run while its interrupt line is up.
FairSpec ==
  /\ Spec /\ WF_vars(Service)
  /\ WF_vars(TxEnd) /\ WF_vars(AckEnd) /\ WF_vars(\E e \in RxEvents : RxEnd(e))

---------------------------------------------------------------------------
(* Properties *)

\* Every variable has its type, and what the service hands over is of what it
\* has read.
TypeOK ==
  /\ config \in Configurations
  /\ radio \in {"idle", "tx", "rx", "ack", "ghost", "sleep", "listen"}
  /\ lowPower \in BOOLEAN /\ listener \in BOOLEAN /\ WAIT4RESP \in BOOLEAN
  /\ status \subseteq {"TXFRS", "AAT"} \cup RxEvents
  /\ RXFCG \in [0 .. 1 -> BOOLEAN] /\ rx_buffer \in [0 .. 1 -> Frame \cup {NoFrame}]
  /\ ICRBP \in 0 .. 1 /\ HSRBP \in 0 .. 1
  /\ unreset \in BOOLEAN /\ lostAck \in BOOLEAN
  /\ at \in Callbacks \cup {"main", "deactivate", "frame", "length", "fctrl", "aat",
                            "transmissions", "timeouts", "errors"}
  /\ seen \subseteq {"RXFCG", "TXFRS", "AAT"} \cup RxEvents
  /\ cbData \in [status : SUBSET seen, datalength : Frame \cup {NoFrame},
                  fctrl : Frame \cup {NoFrame}]
  /\ wait4resp \in BOOLEAN /\ awaiting \in BOOLEAN
  /\ owed \subseteq {"TXFRS"} \cup RxEvents
  /\ unreported \in Seq(Frame)
  /\ starts \in 0 .. MaxStarts /\ frames \in 0 .. MaxFrames

\* cbRxOk is given the oldest frame that was not reported, its length and its
\* control field read from the same frame, although the chip goes on receiving.
FrameIsWhole ==
  at = "aat" =>
    /\ unreported # <<>>
    /\ cbData.datalength = Head(unreported) /\ cbData.fctrl = Head(unreported)

NothingInvented ==
  /\ at = "transmissions" => "TXFRS" \in owed
  /\ at = "timeouts" => owed \cap RxTo # {}
  /\ at = "errors" => owed \cap RxErr # {}

NothingLost ==
  at = "main" /\ ~dwt_checkirq => owed = {} /\ unreported = <<>>

\* Every callback reports an event that was raised and not reported before, and
\* every event and every frame is reported: when the interrupt line is down
\* there are none left.
ReportedOnce == NothingInvented /\ NothingLost

\* The receiver is never turned on after an error or a timeout without a reset
\* in between ("Because of an issue with receiver restart").
CleanReceiver == radio \in {"rx", "ghost", "listen"} => ~unreset

GhostIsCaught == at = "main" /\ ~dwt_checkirq => radio # "ghost"

OnlyGhostIsCaught ==
  at = "transmissions" /\ ByAcknowledgement => radio \notin {"tx", "rx"}

\* The receiver the chip turned on by itself is off when the service is done,
\* and nothing else is turned off for an acknowledgement: neither a transmission
\* nor a reception of the application's.
GhostOnly == GhostIsCaught /\ OnlyGhostIsCaught

\* From the time it has received a frame until the application puts it to sleep
\* again, the chip is awake: neither the service nor the callback finds it asleep
\* ("If not, the DW1000 will go back to sleep").
AwakeInService == at # "main" \/ unreported # <<>> => radio # "sleep"

\* Whoever asked for a response hears of it, of a timeout or of an error.
EveryoneIsAnswered == awaiting ~> ~awaiting
=============================================================================
