---------------------------- MODULE SpiTransfer ----------------------------
(***************************************************************************)
(* One SPI transfer of port_platform.c over the byte-wise, interrupt       *)
(* driven part of nrf_drv_spi.c (SPI1_USE_EASY_DMA is 0), next to the SPI  *)
(* peripheral.  main is the caller, which waits for the handler to set     *)
(* spi_xfer_done; it makes no step while the interrupt handler runs.  The  *)
(* peripheral shifts bytes at any moment: it takes up to two bytes ahead   *)
(* in TXD and keeps up to two in RXD, and raises READY when a byte reaches *)
(* an empty RXD or follows one that is read.                               *)
(***************************************************************************)
EXTENDS Naturals, Sequences

CONSTANTS
  Requests,   \* the calls: pairs of a transmit and a receive length
  MaxLength,  \* no length is larger
  Width,      \* lengths are counted modulo Width (uint8_t: 256)
  Orc,        \* over-run character
  NoCall,
  MayAbort    \* whether somebody calls nrf_drv_spi_abort

ASSUME LengthAssumption ==
  /\ MaxLength \in Nat /\ Width \in Nat \ {0, 1}
  /\ Requests \subseteq (0 .. MaxLength) \X (0 .. MaxLength)
  /\ NoCall \notin Requests /\ Orc \notin Nat
  /\ MayAbort \in BOOLEAN

VARIABLES
  main,       \* where readfromspi, writetospi and nrf_drv_spi_xfer are
  irq,        \* TRUE: the handler has cleared READY, transfer_byte is next
  call,       \* the lengths asked for, NoCall before the first call
  rate,       \* "none", "off": the instance is not initialised; "2M", "8M"
  spi_xfer_done, transfer_in_progress,
  tx_length, rx_length, bytes_transferred, abort,
  rx_buffer,  \* which byte of the device is at each place, 0 if none
  READY, int_enabled,  \* event and interrupt enable of the peripheral
  wire,       \* the bytes written to TXD since slave select went low
  sent, read  \* how many were shifted, and read from RXD

driver == <<rate, spi_xfer_done, transfer_in_progress, tx_length, rx_length,
            bytes_transferred, abort, rx_buffer>>
spi == <<READY, int_enabled, wire, sent, read>>
vars == <<main, irq, call, driver, spi>>

uint8_t(n) == n % Width
Cleared == [i \in 1 .. MaxLength |-> 0]

Init ==
  /\ main = "idle" /\ irq = FALSE /\ call = NoCall /\ rate = "none"
  /\ spi_xfer_done = FALSE /\ transfer_in_progress = FALSE
  /\ tx_length = 0 /\ rx_length = 0 /\ bytes_transferred = 0 /\ abort = FALSE
  /\ rx_buffer = Cleared
  /\ READY = FALSE /\ int_enabled = FALSE
  /\ wire = <<>> /\ sent = 0 /\ read = 0

---------------------------------------------------------------------------
(* The caller *)

Initialised == rate \in {"2M", "8M"}

\* The instance gets its rate and its interrupt; no transfer is in progress.
nrf_drv_spi_init ==
  /\ main = "idle" /\ ~irq /\ transfer_in_progress' = FALSE /\ int_enabled' = TRUE
  /\ UNCHANGED <<main, irq, call, spi_xfer_done, tx_length, rx_length, bytes_transferred, abort,
                 rx_buffer, READY, wire, sent, read>>

\* The interrupt is disabled first.  A transfer in progress would not be ended.
nrf_drv_spi_uninit ==
  /\ main = "idle" /\ ~irq /\ int_enabled' = FALSE
  /\ UNCHANGED <<main, irq, call, spi_xfer_done, transfer_in_progress, tx_length, rx_length,
                 bytes_transferred, abort, rx_buffer, READY, wire, sent, read>>

\* breadcrumb_dwm_init: slow for dwt_initialise, fast from then on.
port_set_dw1000_slowrate == rate = "none" /\ rate' = "2M" /\ nrf_drv_spi_init

port_set_dw1000_fastrate ==
  \/ rate = "2M" /\ rate' = "off" /\ nrf_drv_spi_uninit
  \/ rate = "off" /\ rate' = "8M" /\ nrf_drv_spi_init

\* readfromspi, writetospi: fresh buffers, and the flag cleared before the
\* transfer is started.
Transfer ==
  /\ main = "idle" /\ ~irq /\ Initialised
  /\ main' = "xfer"
  /\ call' \in Requests
  /\ spi_xfer_done' = FALSE /\ rx_buffer' = Cleared
  /\ UNCHANGED <<irq, rate, transfer_in_progress, tx_length, rx_length,
                 bytes_transferred, abort, spi>>

\* The lengths narrow to uint8_t.  Slave select goes low: a new transaction
\* of the device.  (NRF_ERROR_BUSY cannot happen: NeverBusy.)
nrf_drv_spi_xfer ==
  /\ main = "xfer" /\ ~irq /\ ~transfer_in_progress
  /\ main' = "first"
  /\ transfer_in_progress' = TRUE /\ abort' = FALSE
  /\ tx_length' = uint8_t(call[1]) /\ rx_length' = uint8_t(call[2])
  /\ bytes_transferred' = 0
  /\ int_enabled' = FALSE /\ READY' = FALSE
  /\ wire' = <<>> /\ sent' = 0 /\ read' = 0
  /\ UNCHANGED <<irq, call, rate, spi_xfer_done, rx_buffer>>

FirstByte ==
  /\ main = "first" /\ ~irq
  /\ main' = "second"
  /\ wire' = Append(wire, IF tx_length > 0 THEN 1 ELSE Orc)
  /\ UNCHANGED <<irq, call, driver, READY, int_enabled, sent, read>>

SecondByte ==
  /\ main = "second" /\ ~irq
  /\ main' = "enable"
  /\ wire' = IF tx_length > 1 THEN Append(wire, 2)
             ELSE IF rx_length > 1 THEN Append(wire, Orc)
             ELSE wire
  /\ UNCHANGED <<irq, call, driver, READY, int_enabled, sent, read>>

EnableInterrupt ==
  /\ main = "enable" /\ ~irq
  /\ main' = "spin" /\ int_enabled' = TRUE
  /\ UNCHANGED <<irq, call, driver, READY, wire, sent, read>>

\* while(!spi_xfer_done);
Return ==
  /\ main = "spin" /\ ~irq /\ spi_xfer_done
  /\ main' = "idle"
  /\ UNCHANGED <<irq, call, driver, spi>>

caller ==
  \/ port_set_dw1000_slowrate \/ port_set_dw1000_fastrate
  \/ Transfer \/ nrf_drv_spi_xfer \/ FirstByte \/ SecondByte
  \/ EnableInterrupt \/ Return

---------------------------------------------------------------------------
(* The interrupt handler and the peripheral *)

Shift ==
  /\ sent < Len(wire)
  /\ sent' = sent + 1
  /\ READY' = (READY \/ sent = read)
  /\ UNCHANGED <<main, irq, call, driver, int_enabled, wire, read>>

\* Mutant: READY is not cleared.
EnterHandlerUncleared ==
  /\ ~irq /\ int_enabled /\ READY
  /\ irq' = TRUE
  /\ UNCHANGED <<main, call, driver, spi>>

\* READY is cleared before RXD is read: reading may raise it again.
EnterHandler ==
  /\ ~irq /\ int_enabled /\ READY
  /\ irq' = TRUE /\ READY' = FALSE
  /\ UNCHANGED <<main, call, driver, int_enabled, wire, sent, read>>

\* What goes to TXD when used bytes have been put there before.
Refill(used, tx, rx) ==
  IF used < tx THEN Append(wire, used + 1)
  ELSE IF used < rx THEN Append(wire, Orc)
  ELSE wire

\* Whether transfer_byte asks to be called again.
More(transferred, used, tx, rx) ==
  used < tx \/ used < rx \/ transferred < tx \/ transferred < rx

\* Mutant: a receive buffer index one too high.
StoredOneTooHigh == [rx_buffer EXCEPT ![bytes_transferred + 2] = read + 1]

Stored ==
  IF bytes_transferred < rx_length
  THEN [rx_buffer EXCEPT ![bytes_transferred + 1] = read + 1]
  ELSE rx_buffer

\* Mutant: READY is cleared after RXD has been read.
RaisedThenCleared == FALSE

\* Reading RXD raises READY again when a second byte waits behind the first.
RaisedByRead == READY \/ read + 1 < sent

\* An abort ends the transfer with the bytes already put in TXD.
transfer_byte ==
  LET transferred == uint8_t(bytes_transferred + 1)
      used == transferred + 1
      Cut(length) == IF abort /\ used < length THEN used ELSE length
      more == More(transferred, used, Cut(tx_length), Cut(rx_length))
  IN
  /\ irq
  /\ irq' = FALSE
  /\ rx_buffer' = Stored
  /\ read' = read + 1 /\ READY' = RaisedByRead
  /\ bytes_transferred' = transferred
  /\ tx_length' = Cut(tx_length) /\ rx_length' = Cut(rx_length)
  /\ wire' = Refill(used, Cut(tx_length), Cut(rx_length))
  \* finish_transfer, spi_event_handler
  /\ transfer_in_progress' = (transfer_in_progress /\ more)
  /\ spi_xfer_done' = (spi_xfer_done \/ ~more)
  /\ UNCHANGED <<main, call, rate, abort, int_enabled, sent>>

nrf_drv_spi_abort ==
  /\ MayAbort /\ transfer_in_progress /\ ~abort
  /\ abort' = TRUE
  /\ UNCHANGED <<main, irq, call, rate, spi_xfer_done, transfer_in_progress, tx_length,
                 rx_length, bytes_transferred, rx_buffer, spi>>

irq_handler_spi == EnterHandler \/ transfer_byte

Next == caller \/ irq_handler_spi \/ Shift \/ nrf_drv_spi_abort

\* The peripheral shifts what it is given, the interrupt is taken, and the
\* caller goes on once it is not preempted; nobody is obliged to call.
Fairness ==
  /\ WF_vars(Shift) /\ WF_vars(irq_handler_spi)
  /\ WF_vars(caller /\ main # "idle")

Spec == Init /\ [][Next]_vars
FairSpec == Spec /\ Fairness

---------------------------------------------------------------------------
(* Properties *)

\* The types; no byte is sent from beyond the transmit buffer.
TypeOK ==
  /\ main \in {"idle", "xfer", "first", "second", "enable", "spin"}
  /\ call \in Requests \cup {NoCall} /\ rate \in {"none", "2M", "off", "8M"}
  /\ irq \in BOOLEAN /\ spi_xfer_done \in BOOLEAN
  /\ transfer_in_progress \in BOOLEAN /\ abort \in BOOLEAN
  /\ READY \in BOOLEAN /\ int_enabled \in BOOLEAN
  /\ tx_length \in 0 .. Width - 1 /\ rx_length \in 0 .. Width - 1
  /\ bytes_transferred \in 0 .. Width - 1
  /\ rx_buffer \in [1 .. MaxLength -> Nat]
  /\ wire \in Seq((1 .. MaxLength) \cup {Orc})
  /\ sent \in Nat /\ read \in Nat

\* The driver never finds a transfer in progress when it is asked for one, and
\* its instance is initialised all through a transfer: neither the answer
\* NRF_ERROR_BUSY, which nobody looks at, nor a new rate comes in between.
NeverBusy ==
  /\ main = "xfer" => ~transfer_in_progress
  /\ main # "idle" \/ transfer_in_progress => Initialised

\* TXD and RXD are two bytes deep: neither is written when full, and RXD is
\* not read when empty, wherever the bytes fall among the driver's steps.
NoOverrun ==
  /\ Len(wire) - sent <= 2 /\ sent - read <= 2
  /\ irq => read < sent

\* When the driver calls a transfer done every byte it wrote has been shifted
\* and read: nothing is left in the peripheral to spoil the next transfer.
NoByteLeftBehind ==
  ~transfer_in_progress => sent = Len(wire) /\ read = sent /\ ~READY /\ ~irq

\* The caller, the driver and the peripheral stay in step: a call never finds a
\* transfer in progress, the peripheral's two bytes are neither overrun nor read
\* when empty, and a transfer that is done, or aborted, leaves nothing behind.
InStep == NeverBusy /\ NoOverrun /\ NoByteLeftBehind

\* Every call returns: neither READY nor spi_xfer_done is lost between the
\* caller, the handler and the peripheral.
TransferEnds == main = "xfer" ~> main = "idle"
=============================================================================
