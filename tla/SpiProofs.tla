----------------------------- MODULE SpiProofs -----------------------------
(***************************************************************************)
(* A transfer moves the bytes it was asked for, for all lengths and every  *)
(* width of the length counters, wherever the peripheral's bytes fall      *)
(* among the steps of the caller and of the interrupt handler.             *)
(*                                                                         *)
(* The argument is a count: while a transfer is in progress Total, the     *)
(* larger of its lengths, exceeds the bytes read, and the bytes put in TXD *)
(* are two ahead of those, or all of them (InProgress).  READY is raised   *)
(* exactly when a byte waits and the handler does not run (Signalled).     *)
(***************************************************************************)
EXTENDS SpiRefines, TLAPS

Total == Transaction!Larger(1, Transaction!Larger(tx_length, rx_length))
Asked == <<uint8_t(call[1]), uint8_t(call[2])>>

Starting == main \in {"first", "second", "enable"}

\* Bytes put in TXD.
InTxd ==
  CASE main = "first"  -> 0
    [] main = "second" -> 1
    [] OTHER -> IF bytes_transferred + 2 <= Total THEN bytes_transferred + 2 ELSE Total

Signalled ==
  /\ irq => ~READY /\ read < sent /\ main = "spin"
  /\ ~irq => (READY <=> read < sent)

InProgress ==
  transfer_in_progress =>
    /\ main \in {"first", "second", "enable", "spin"}
    /\ call \in Requests
    /\ bytes_transferred = read /\ read < Total
    /\ read <= sent /\ sent <= Len(wire)
    /\ Len(wire) = InTxd
    /\ ~spi_xfer_done
    /\ Starting => read = 0 /\ ~int_enabled
    /\ main = "spin" => int_enabled

Finished ==
  ~transfer_in_progress =>
    /\ main \in {"idle", "xfer", "spin"} /\ ~irq
    /\ sent = Len(wire) /\ read = Len(wire)
    /\ main = "spin" => Len(wire) = Total /\ spi_xfer_done

\* The lengths are those asked for until an abort has cut them.
Lengths ==
  main \notin {"idle", "xfer"} =>
    /\ call \in Requests
    /\ tx_length <= Asked[1] /\ rx_length <= Asked[2]
    /\ Starting \/ ~abort => tx_length = Asked[1] /\ rx_length = Asked[2]
    /\ tx_length < Asked[1] => tx_length = Total
    /\ rx_length < Asked[2] => rx_length = Total

Contents ==
  main \notin {"idle", "xfer"} =>
    /\ \A i \in 1 .. Len(wire) : wire[i] = IF i <= Asked[1] THEN i ELSE Orc
    /\ \A i \in 1 .. MaxLength :
         rx_buffer[i] = IF i <= read /\ i <= Asked[2] THEN i ELSE 0

Fresh == main = "xfer" => call \in Requests /\ ~spi_xfer_done /\ rx_buffer = Cleared

IInv == TypeOK /\ Signalled /\ InProgress /\ Finished /\ Lengths /\ Contents /\ Fresh

---------------------------------------------------------------------------

\* Narrowing a length to the counters' width does not make it larger, and
\* leaves one that fits alone.
LEMMA Narrowed ==
  ASSUME NEW n \in Nat
  PROVE  /\ uint8_t(n) \in 0 .. Width - 1 /\ uint8_t(n) <= n
         /\ n < Width => uint8_t(n) = n
<1>1. Width \in Nat /\ Width > 0
  BY LengthAssumption
<1>2. n = Width * (n \div Width) + uint8_t(n) /\ uint8_t(n) \in 0 .. Width - 1
  BY <1>1 DEF uint8_t
<1> QED
  BY <1>1, <1>2 DEF uint8_t

\* The lengths of a call, narrowed, fit the counters and the buffers.
LEMMA AskedFits ==
  ASSUME call \in Requests
  PROVE  /\ Asked[1] \in 0 .. MaxLength /\ Asked[1] \in 0 .. Width - 1
         /\ Asked[2] \in 0 .. MaxLength /\ Asked[2] \in 0 .. Width - 1
<1>1. call[1] \in 0 .. MaxLength /\ call[2] \in 0 .. MaxLength
  BY LengthAssumption
<1>2. MaxLength \in Nat /\ Width \in Nat
  BY LengthAssumption
<1> QED
  BY <1>1, <1>2, Narrowed DEF Asked

\* What Append does to a sequence.
LEMMA Appended ==
  ASSUME NEW S, NEW s \in Seq(S), NEW e \in S
  PROVE  /\ Append(s, e) \in Seq(S) /\ Len(Append(s, e)) = Len(s) + 1
         /\ \A i \in 1 .. Len(s) : Append(s, e)[i] = s[i]
         /\ Append(s, e)[Len(s) + 1] = e
  OBVIOUS

\* At first nothing is in the peripheral and nothing has been asked for.
LEMMA InitIInv == Init => IInv
<1> SUFFICES ASSUME Init PROVE IInv
  OBVIOUS
<1> USE LengthAssumption DEF Init
<1>1. TypeOK
  <2>1. wire \in Seq((1 .. MaxLength) \cup {Orc})
    OBVIOUS
  <2>2. rx_buffer \in [1 .. MaxLength -> Nat]
    BY DEF Cleared
  <2>3. 0 \in 0 .. Width - 1
    OBVIOUS
  <2> QED
    BY <2>1, <2>2, <2>3 DEF TypeOK
<1>2. Signalled /\ InProgress /\ Finished /\ Lengths /\ Contents /\ Fresh
  BY DEF Signalled, InProgress, Finished, Lengths, Contents, Fresh
<1> QED
  BY <1>1, <1>2 DEF IInv

\* A new rate comes between transfers and leaves the peripheral as it is.
LEMMA RateIInv ==
  ASSUME IInv, port_set_dw1000_slowrate \/ port_set_dw1000_fastrate PROVE IInv'
<1> USE LengthAssumption DEF IInv
<1>0. nrf_drv_spi_init \/ nrf_drv_spi_uninit
  BY DEF port_set_dw1000_slowrate, port_set_dw1000_fastrate
<1>1. main = "idle" /\ main' = "idle" /\ ~irq /\ irq' = irq
      /\ rate' \in {"none", "2M", "off", "8M"} /\ (int_enabled' = TRUE \/ int_enabled' = FALSE)
      /\ UNCHANGED <<call, spi_xfer_done, tx_length, rx_length, bytes_transferred, abort,
                     rx_buffer, READY, wire, sent, read>>
  <2>1. rate' \in {"none", "2M", "off", "8M"}
    BY DEF port_set_dw1000_slowrate, port_set_dw1000_fastrate
  <2>2. int_enabled' = TRUE \/ int_enabled' = FALSE
    BY <1>0, Zenon DEF nrf_drv_spi_init, nrf_drv_spi_uninit
  <2>3. main = "idle" /\ main' = "idle" /\ ~irq /\ irq' = irq
        /\ UNCHANGED <<call, spi_xfer_done, tx_length, rx_length, bytes_transferred, abort,
                       rx_buffer, READY, wire, sent, read>>
    BY <1>0, Zenon DEF nrf_drv_spi_init, nrf_drv_spi_uninit
  <2> QED
    BY <2>1, <2>2, <2>3, Zenon
<1>2. ~transfer_in_progress
  BY <1>1 DEF InProgress
<1>3. transfer_in_progress' = FALSE \/ transfer_in_progress' = transfer_in_progress
  BY <1>0, Zenon DEF nrf_drv_spi_init, nrf_drv_spi_uninit
<1>4. TypeOK'
  BY <1>1, <1>3 DEF TypeOK
<1>5. Signalled' /\ InProgress' /\ Finished' /\ Lengths' /\ Contents' /\ Fresh'
  BY <1>1, <1>2, <1>3 DEF Signalled, InProgress, Finished, Lengths, Contents, Fresh
<1> QED
  BY <1>4, <1>5

\* Starting a call changes nothing the peripheral sees.
LEMMA TransferIInv == ASSUME IInv, Transfer PROVE IInv'
<1> USE LengthAssumption DEF IInv, Transfer, spi
<1>1. TypeOK'
  BY DEF TypeOK, Cleared
<1>2. ~transfer_in_progress
  BY DEF InProgress
<1>3. Signalled' /\ InProgress' /\ Finished' /\ Lengths' /\ Contents' /\ Fresh'
  BY <1>2 DEF Signalled, InProgress, Finished, Lengths, Contents, Fresh
<1> QED
  BY <1>1, <1>3

\* The control block and the peripheral are set up for the new lengths.
LEMMA XferIInv == ASSUME IInv, nrf_drv_spi_xfer PROVE IInv'
<1> USE LengthAssumption DEF IInv, nrf_drv_spi_xfer
<1>1. call \in Requests
  BY DEF Fresh
<1>2. tx_length' = Asked[1] /\ rx_length' = Asked[2] /\ Asked' = Asked
  BY DEF Asked
<1>3. tx_length' \in 0 .. Width - 1 /\ rx_length' \in 0 .. Width - 1
  BY <1>1, <1>2, AskedFits
<1>4. TypeOK'
  <2>1. wire' \in Seq((1 .. MaxLength) \cup {Orc})
    OBVIOUS
  <2>2. bytes_transferred' \in 0 .. Width - 1
    OBVIOUS
  <2> QED
    BY <1>1, <1>3, <2>1, <2>2 DEF TypeOK
<1>5. Total' \in Nat /\ Total' >= 1
  BY <1>3 DEF Total, Transaction!Larger
<1>6. Signalled' /\ InProgress' /\ Finished' /\ Fresh'
  BY <1>1, <1>5 DEF Signalled, InProgress, Finished, Fresh, Starting, InTxd
<1>7. Lengths' /\ Contents'
  BY <1>1, <1>2, <1>3, AskedFits DEF Lengths, Contents, Fresh, Cleared
<1> QED
  BY <1>4, <1>6, <1>7

\* The first byte goes to TXD, an over-run character if there is none.
LEMMA FirstByteIInv == ASSUME IInv, FirstByte PROVE IInv'
<1> USE LengthAssumption DEF IInv, FirstByte, driver
<1> DEFINE b == IF tx_length > 0 THEN 1 ELSE Orc
<1>1. call \in Requests /\ tx_length = Asked[1] /\ rx_length = Asked[2]
  BY DEF Lengths, Starting
<1>2. Asked' = Asked /\ Total' = Total
  BY DEF Asked, Total
<1>3. transfer_in_progress /\ Len(wire) = 0 /\ read = 0 /\ sent = 0
      /\ bytes_transferred = 0
  BY DEF Finished, InProgress, InTxd, Starting, TypeOK
<1>4. b \in (1 .. MaxLength) \cup {Orc}
  BY <1>1, AskedFits
<1>5. wire' = Append(wire, b) /\ wire' \in Seq((1 .. MaxLength) \cup {Orc})
      /\ Len(wire') = 1 /\ wire'[1] = b
  BY <1>3, <1>4 DEF TypeOK
<1> HIDE DEF b
<1>6. TypeOK'
  BY <1>5 DEF TypeOK
<1>7. Signalled' /\ InProgress' /\ Finished' /\ Fresh'
  BY <1>2, <1>3, <1>5
  DEF Signalled, InProgress, Finished, Fresh, Starting, InTxd, TypeOK
<1>8. Lengths'
  BY <1>2 DEF Lengths, Starting
<1>9. Contents'
  <2>1. b = IF 1 <= Asked[1] THEN 1 ELSE Orc
    BY <1>1, AskedFits DEF b
  <2> QED
    BY <1>2, <1>5, <2>1 DEF Contents
<1> QED
  BY <1>6, <1>7, <1>8, <1>9

\* The second byte goes to TXD if either length is more than one.
LEMMA SecondByteIInv == ASSUME IInv, SecondByte PROVE IInv'
<1> USE LengthAssumption DEF IInv, SecondByte, driver
<1>1. call \in Requests /\ tx_length = Asked[1] /\ rx_length = Asked[2]
  BY DEF Lengths, Starting
<1>2. Asked' = Asked /\ Total' = Total
  BY DEF Asked, Total
<1>3. transfer_in_progress /\ Len(wire) = 1 /\ read = 0 /\ sent \in 0 .. 1
      /\ bytes_transferred = 0
  <2>1. transfer_in_progress
    BY DEF Finished
  <2>2. read = 0 /\ bytes_transferred = 0
    BY <2>1 DEF InProgress, Starting
  <2>3. Len(wire) = 1 /\ sent <= 1
    BY <2>1 DEF InProgress, InTxd
  <2> QED
    BY <2>1, <2>2, <2>3 DEF TypeOK
<1>4. tx_length \in 0 .. MaxLength /\ rx_length \in 0 .. MaxLength
  BY <1>1, AskedFits
<1>5. CASE tx_length > 1 \/ rx_length > 1
  <2> DEFINE b == IF tx_length > 1 THEN 2 ELSE Orc
  <2>1. b \in (1 .. MaxLength) \cup {Orc}
    BY <1>4
  <2>2. wire' = Append(wire, b)
    BY <1>5, <1>4
  <2> DEFINE S == (1 .. MaxLength) \cup {Orc}
  <2>3a. wire \in Seq(S) /\ b \in S
    BY <2>1 DEF TypeOK
  <2> HIDE DEF S, b
  <2>3. wire' \in Seq(S) /\ Len(wire') = 2 /\ wire'[1] = wire[1] /\ wire'[2] = b
    <3>1. /\ Append(wire, b) \in Seq(S) /\ Len(Append(wire, b)) = Len(wire) + 1
          /\ \A i \in 1 .. Len(wire) : Append(wire, b)[i] = wire[i]
          /\ Append(wire, b)[Len(wire) + 1] = b
      BY <2>3a, Appended
    <3>2. 1 \in 1 .. Len(wire) /\ Len(wire) + 1 = 2
      BY <1>3
    <3>3. Append(wire, b)[1] = wire[1] /\ Append(wire, b)[2] = b
          /\ Len(Append(wire, b)) = 2
      BY <3>1, <3>2
    <3> QED
      BY <2>2, <3>1, <3>3
  <2>4. Total >= 2 /\ Total \in Nat
    BY <1>4, <1>5 DEF Total, Transaction!Larger
  <2>5. TypeOK'
    BY <2>3 DEF TypeOK, S
  <2>6. InTxd' = 2
    BY <1>2, <1>3, <2>4 DEF InTxd
  <2>7. Signalled' /\ InProgress' /\ Finished' /\ Fresh'
    BY SMTT(30), <1>2, <1>3, <2>3, <2>6
    DEF Signalled, InProgress, Finished, Fresh, Starting, TypeOK
  <2>8. Lengths'
    BY <1>2 DEF Lengths, Starting
  <2>9. b = IF 2 <= Asked[1] THEN 2 ELSE Orc
    BY <1>1, AskedFits DEF b
  <2>10. Contents'
    <3>1. \A i \in 1 .. 2 : i = 1 \/ i = 2
      OBVIOUS
    <3>2. wire[1] = IF 1 <= Asked[1] THEN 1 ELSE Orc
      BY <1>3 DEF Contents
    <3>3. \A i \in 1 .. Len(wire') : wire'[i] = IF i <= Asked[1] THEN i ELSE Orc
      BY <2>3, <2>9, <3>1, <3>2
    <3> QED
      BY <1>2, <3>3 DEF Contents
  <2> QED
    BY <2>5, <2>7, <2>8, <2>10
<1>6. CASE ~(tx_length > 1 \/ rx_length > 1)
  <2>1. wire' = wire
    BY <1>6
  <2>2. Total = 1
    BY <1>4, <1>6 DEF Total, Transaction!Larger
  <2>3. InTxd' = 1
    BY <1>2, <1>3, <2>2 DEF InTxd
  <2>4. TypeOK'
    BY <2>1 DEF TypeOK
  <2>5. Signalled' /\ InProgress' /\ Finished' /\ Fresh'
    BY <1>2, <1>3, <2>1, <2>3
    DEF Signalled, InProgress, Finished, Fresh, Starting, TypeOK
  <2>6. Lengths' /\ Contents'
    BY <1>2, <2>1 DEF Lengths, Contents, Starting
  <2> QED
    BY <2>4, <2>5, <2>6
<1> QED
  BY <1>5, <1>6

\* From here on the interrupt may be taken.
LEMMA EnableIInv == ASSUME IInv, EnableInterrupt PROVE IInv'
<1> USE LengthAssumption DEF IInv, EnableInterrupt, driver
<1>1. Asked' = Asked /\ Total' = Total /\ InTxd' = InTxd
  BY DEF Asked, Total, InTxd
<1>2. TypeOK'
  BY DEF TypeOK
<1>3. Signalled' /\ InProgress' /\ Finished' /\ Fresh'
  BY <1>1 DEF Signalled, InProgress, Finished, Fresh, Starting
<1>4. Lengths' /\ Contents'
  BY <1>1 DEF Lengths, Contents, Starting
<1> QED
  BY <1>2, <1>3, <1>4

\* The caller goes on, the transfer being finished.
LEMMA ReturnIInv == ASSUME IInv, Return PROVE IInv'
<1> USE LengthAssumption DEF IInv, Return, driver, spi
<1>1. ~transfer_in_progress
  BY DEF InProgress
<1>2. TypeOK'
  BY DEF TypeOK
<1>3. Signalled' /\ InProgress' /\ Finished' /\ Fresh' /\ Lengths' /\ Contents'
  BY <1>1 DEF Signalled, InProgress, Finished, Fresh, Lengths, Contents
<1> QED
  BY <1>2, <1>3

\* The peripheral can shift only while a transfer is in progress.
LEMMA ShiftIInv == ASSUME IInv, Shift PROVE IInv'
<1> USE LengthAssumption DEF IInv, Shift, driver
<1>1. transfer_in_progress
  BY DEF Finished, TypeOK
<1>2. Asked' = Asked /\ Total' = Total /\ InTxd' = InTxd
  BY DEF Asked, Total, InTxd
<1>3. TypeOK'
  BY DEF TypeOK
<1>4. Signalled'
  <2>1. read <= sent /\ READY \in BOOLEAN /\ read \in Nat /\ sent \in Nat
    BY <1>1 DEF InProgress, TypeOK
  <2>2. read < sent'
    BY <2>1
  <2>3. CASE irq
    BY <2>1, <2>2, <2>3 DEF Signalled
  <2>4. CASE ~irq
    <3>1. READY <=> read < sent
      BY <2>4 DEF Signalled
    <3>2. read < sent \/ sent = read
      BY <2>1
    <3>3. READY \/ sent = read
      BY <3>1, <3>2, Zenon
    <3>4. READY' = TRUE
      BY <3>3, Zenon
    <3> QED
      BY <2>2, <2>4, <3>4 DEF Signalled
  <2> QED
    BY <2>3, <2>4
<1>5. InProgress' /\ Finished' /\ Fresh'
  BY <1>1, <1>2 DEF InProgress, Finished, Fresh, Starting, TypeOK
<1>6. Lengths' /\ Contents'
  BY <1>2 DEF Lengths, Contents, Starting
<1> QED
  BY <1>3, <1>4, <1>5, <1>6

\* READY is traded for the running handler.
LEMMA EnterIInv == ASSUME IInv, EnterHandler PROVE IInv'
<1> USE LengthAssumption DEF IInv, EnterHandler, driver
<1>1. read < sent
  BY DEF Signalled
<1>2. transfer_in_progress
  BY <1>1 DEF Finished, TypeOK
<1>3. main = "spin"
  BY <1>2 DEF InProgress, Starting
<1>4. Asked' = Asked /\ Total' = Total /\ InTxd' = InTxd
  BY DEF Asked, Total, InTxd
<1>5. TypeOK'
  BY DEF TypeOK
<1>6. Signalled' /\ InProgress' /\ Finished' /\ Fresh'
  BY <1>1, <1>2, <1>3, <1>4 DEF Signalled, InProgress, Finished, Fresh, Starting
<1>7. Lengths' /\ Contents'
  BY <1>4 DEF Lengths, Contents, Starting
<1> QED
  BY <1>5, <1>6, <1>7

\* An abort only sets its flag.
LEMMA AbortIInv == ASSUME IInv, nrf_drv_spi_abort PROVE IInv'
<1> USE LengthAssumption DEF IInv, nrf_drv_spi_abort, spi
<1>1. Asked' = Asked /\ Total' = Total /\ InTxd' = InTxd
  BY DEF Asked, Total, InTxd
<1>2. TypeOK'
  BY DEF TypeOK
<1>3. Signalled' /\ InProgress' /\ Finished' /\ Fresh' /\ Lengths' /\ Contents'
  BY <1>1 DEF Signalled, InProgress, Finished, Fresh, Starting, Lengths, Contents
<1> QED
  BY <1>2, <1>3

\* The abort flag cuts a length to the bytes already used.
Cut(length) == IF abort /\ bytes_transferred + 2 < length
               THEN bytes_transferred + 2 ELSE length

\* What one call of transfer_byte does, without the wrap of its counter.
LEMMA ByteStep ==
  ASSUME IInv, transfer_byte
  PROVE  /\ main = "spin" /\ transfer_in_progress /\ call \in Requests
         /\ Total \in Nat /\ Total' \in Nat /\ Total' <= Total
         /\ tx_length' = Cut(tx_length) /\ rx_length' = Cut(rx_length)
         /\ bytes_transferred' = bytes_transferred + 1
         /\ bytes_transferred' <= Total'
         /\ Total' = IF abort /\ bytes_transferred + 2 < Total
                     THEN bytes_transferred + 2 ELSE Total
         /\ wire' = Refill(bytes_transferred + 2, tx_length', rx_length')
         /\ transfer_in_progress' \in BOOLEAN /\ spi_xfer_done' \in BOOLEAN
         /\ transfer_in_progress' <=> bytes_transferred' < Total'
         /\ spi_xfer_done' <=> ~(bytes_transferred' < Total')
<1> USE LengthAssumption DEF IInv
<1>1. main = "spin" /\ read < sent /\ irq
  BY DEF Signalled, transfer_byte
<1>2. transfer_in_progress
  BY <1>1 DEF Finished
<1>3. call \in Requests /\ bytes_transferred = read /\ read < Total /\ ~spi_xfer_done
  BY <1>2 DEF InProgress
<1>4. /\ tx_length \in Nat /\ tx_length <= Width - 1
      /\ rx_length \in Nat /\ rx_length <= Width - 1
      /\ bytes_transferred \in Nat /\ Width \in Nat /\ Width >= 2
  BY DEF TypeOK
<1>5. Total \in Nat /\ Total <= Width - 1
  BY <1>4 DEF Total, Transaction!Larger
<1>6. bytes_transferred + 1 < Width
  BY <1>3, <1>4, <1>5
<1>7. uint8_t(bytes_transferred + 1) = bytes_transferred + 1
  BY <1>4, <1>6, Narrowed
<1> DEFINE b == bytes_transferred + 1
           used == bytes_transferred + 2
<1>8. b + 1 = used
  BY <1>4
<1>9. /\ tx_length' = Cut(tx_length) /\ rx_length' = Cut(rx_length)
      /\ bytes_transferred' = b
      /\ wire' = Refill(used, Cut(tx_length), Cut(rx_length))
      /\ transfer_in_progress' =
           (transfer_in_progress /\ More(b, used, Cut(tx_length), Cut(rx_length)))
      /\ spi_xfer_done' =
           (spi_xfer_done \/ ~More(b, used, Cut(tx_length), Cut(rx_length)))
  BY <1>7, <1>8 DEF transfer_byte, Cut
<1>10. Cut(tx_length) \in Nat /\ Cut(rx_length) \in Nat
  BY <1>4 DEF Cut
<1>11. /\ Total' \in Nat /\ Total' <= Total
       /\ Total' = IF abort /\ used < Total THEN used ELSE Total
  BY <1>3, <1>4, <1>9 DEF Total, Transaction!Larger, Cut
<1>12. b <= Total'
  BY <1>3, <1>4, <1>5, <1>11
<1>13. More(b, used, Cut(tx_length), Cut(rx_length)) <=> b < Total'
  BY <1>4, <1>9, <1>10 DEF More, Total, Transaction!Larger
<1>14. /\ transfer_in_progress' \in BOOLEAN /\ spi_xfer_done' \in BOOLEAN
       /\ transfer_in_progress' <=> b < Total'
       /\ spi_xfer_done' <=> ~(b < Total')
  <2> DEFINE more == More(b, used, Cut(tx_length), Cut(rx_length))
             left == b < Total'
  <2>1. /\ transfer_in_progress' = (transfer_in_progress /\ more)
        /\ spi_xfer_done' = (spi_xfer_done \/ ~more)
    BY <1>9
  <2>2. (more <=> left) /\ transfer_in_progress /\ ~spi_xfer_done
    BY <1>2, <1>3, <1>13
  <2> HIDE DEF more, left
  <2>3. CASE left
    <3>1. transfer_in_progress' = TRUE /\ spi_xfer_done' = FALSE
      BY <2>1, <2>2, <2>3, Zenon
    <3> QED
      BY <2>3, <3>1 DEF left
  <2>4. CASE ~left
    <3>1. transfer_in_progress' = FALSE /\ spi_xfer_done' = TRUE
      BY <2>1, <2>2, <2>4, Zenon
    <3> QED
      BY <2>4, <3>1 DEF left
  <2> QED
    BY <2>3, <2>4
<1> QED
  BY <1>1, <1>2, <1>3, <1>5, <1>9, <1>11, <1>12, <1>14

\* What Refill has put in TXD is the next byte, if there is one.
LEMMA Refilled ==
  ASSUME IInv, transfer_byte
  PROVE  /\ wire' \in Seq((1 .. MaxLength) \cup {Orc})
         /\ Len(wire') = IF bytes_transferred + 3 <= Total'
                         THEN bytes_transferred + 3 ELSE Total'
         /\ \A i \in 1 .. Len(wire') : wire'[i] = IF i <= Asked[1] THEN i ELSE Orc
<1> USE LengthAssumption
<1> DEFINE S == (1 .. MaxLength) \cup {Orc}
           used == bytes_transferred + 2
<1>1. /\ main = "spin" /\ transfer_in_progress /\ call \in Requests
      /\ Total \in Nat /\ Total' \in Nat
      /\ tx_length' = Cut(tx_length) /\ rx_length' = Cut(rx_length)
      /\ Total' = IF abort /\ used < Total THEN used ELSE Total
      /\ wire' = Refill(used, tx_length', rx_length')
  BY ByteStep
<1>2. /\ wire \in Seq(S) /\ bytes_transferred \in Nat
      /\ tx_length \in Nat /\ rx_length \in Nat
  BY DEF IInv, TypeOK
<1>3. Len(wire) = IF used <= Total THEN used ELSE Total
  BY <1>1 DEF IInv, InProgress, InTxd
<1>4. \A i \in 1 .. Len(wire) : wire[i] = IF i <= Asked[1] THEN i ELSE Orc
  BY <1>1 DEF IInv, Contents
<1>5. Asked[1] \in 0 .. MaxLength /\ Asked[2] \in 0 .. MaxLength
  BY <1>1, AskedFits
<1>6. ~abort => tx_length = Asked[1] /\ rx_length = Asked[2]
  BY <1>1 DEF IInv, Lengths
<1>7. bytes_transferred < Total
  BY <1>1 DEF IInv, InProgress
<1>8. CASE used < tx_length' \/ used < rx_length'
  <2> DEFINE e == IF used < tx_length' THEN used + 1 ELSE Orc
  <2>1. wire' = Append(wire, e)
    BY <1>1, <1>8 DEF Refill
  <2>2. ~abort
    BY <1>1, <1>2, <1>8 DEF Cut
  <2>3. tx_length' = Asked[1] /\ rx_length' = Asked[2]
    BY <1>1, <1>6, <2>2 DEF Cut
  <2>4. used < Total /\ Total' = Total
    BY <1>1, <1>2, <1>6, <1>8, <2>2, <2>3 DEF Total, Transaction!Larger
  <2>5. e \in S /\ e = IF used + 1 <= Asked[1] THEN used + 1 ELSE Orc
    BY <1>2, <1>5, <2>3
  <2>6. Len(wire) = used
    <3>1. used <= Total
      BY <1>1, <1>2, <2>4
    <3> QED
      BY <1>3, <3>1
  <2> HIDE DEF e, S
  <2>7. /\ Append(wire, e) \in Seq(S) /\ Len(Append(wire, e)) = Len(wire) + 1
        /\ \A i \in 1 .. Len(wire) : Append(wire, e)[i] = wire[i]
        /\ Append(wire, e)[Len(wire) + 1] = e
    BY <1>2, <2>5, Appended
  <2>8. \A i \in 1 .. used + 1 : i \in 1 .. used \/ i = used + 1
    BY <1>2
  <2>9. \A i \in 1 .. used + 1 :
          Append(wire, e)[i] = IF i <= Asked[1] THEN i ELSE Orc
    BY <1>4, <2>5, <2>6, <2>7, <2>8
  <2>10. Len(wire') = used + 1 /\ wire' \in Seq(S)
    BY <2>1, <2>6, <2>7
  <2>11. used + 1 = bytes_transferred + 3 /\ used + 1 <= Total'
    BY <1>1, <1>2, <2>4
  <2> QED
    BY <2>1, <2>9, <2>10, <2>11 DEF S
<1>9. CASE ~(used < tx_length' \/ used < rx_length')
  <2>1. wire' = wire
    BY <1>1, <1>9 DEF Refill
  <2>2. Total' <= used
    BY <1>1, <1>2, <1>9 DEF Total, Transaction!Larger, Cut
  <2>3. Len(wire) = Total'
    BY <1>1, <1>2, <1>3, <2>2
  <2>4. ~(bytes_transferred + 3 <= Total')
    BY <1>1, <1>2, <2>2
  <2> QED
    BY <1>2, <1>4, <2>1, <2>3, <2>4
<1> QED
  BY <1>8, <1>9

\* The handler takes one byte out and puts the next one in.
LEMMA ByteIInv == ASSUME IInv, transfer_byte PROVE IInv'
<1> USE LengthAssumption
<1>1. /\ main = "spin" /\ transfer_in_progress /\ call \in Requests
      /\ Total \in Nat /\ Total' \in Nat /\ Total' <= Total
      /\ tx_length' = Cut(tx_length) /\ rx_length' = Cut(rx_length)
      /\ bytes_transferred' = bytes_transferred + 1
      /\ bytes_transferred' <= Total'
      /\ Total' = IF abort /\ bytes_transferred + 2 < Total
                  THEN bytes_transferred + 2 ELSE Total
      /\ transfer_in_progress' \in BOOLEAN /\ spi_xfer_done' \in BOOLEAN
      /\ transfer_in_progress' <=> bytes_transferred' < Total'
      /\ spi_xfer_done' <=> ~(bytes_transferred' < Total')
  BY ByteStep
<1>2. /\ wire' \in Seq((1 .. MaxLength) \cup {Orc})
      /\ Len(wire') = IF bytes_transferred + 3 <= Total'
                      THEN bytes_transferred + 3 ELSE Total'
      /\ \A i \in 1 .. Len(wire') : wire'[i] = IF i <= Asked[1] THEN i ELSE Orc
  BY Refilled
<1>3. /\ irq /\ irq' = FALSE /\ rx_buffer' = Stored /\ read' = read + 1
      /\ READY' = (READY \/ read + 1 < sent)
      /\ UNCHANGED <<main, call, rate, abort, int_enabled, sent>>
  BY DEF transfer_byte, RaisedByRead
<1>4. ~READY /\ read < sent
  BY <1>3 DEF IInv, Signalled
<1>5. /\ bytes_transferred = read /\ read < Total /\ sent <= Len(wire)
      /\ Len(wire) = InTxd /\ ~spi_xfer_done /\ int_enabled
  BY <1>1 DEF IInv, InProgress
<1>6. /\ bytes_transferred \in Nat /\ read \in Nat /\ sent \in Nat
      /\ tx_length \in 0 .. Width - 1 /\ rx_length \in 0 .. Width - 1
      /\ Width \in Nat /\ Width >= 2 /\ rx_buffer \in [1 .. MaxLength -> Nat]
  BY DEF IInv, TypeOK
<1>7. Len(wire) = IF bytes_transferred + 2 <= Total
                  THEN bytes_transferred + 2 ELSE Total
  BY <1>1, <1>5 DEF InTxd
<1>8. sent <= Len(wire')
  BY <1>1, <1>2, <1>5, <1>6, <1>7
<1>9. Asked' = Asked
  BY <1>3 DEF Asked
<1>10. TypeOK'
  <2>1. tx_length' \in 0 .. Width - 1 /\ rx_length' \in 0 .. Width - 1
    BY <1>1, <1>6 DEF Cut
  <2>2. Total <= Width - 1
    BY <1>6 DEF Total, Transaction!Larger
  <2>3. bytes_transferred' \in 0 .. Width - 1
    BY <1>1, <1>6, <2>2
  <2>4. rx_buffer' \in [1 .. MaxLength -> Nat]
    <3>1. read + 1 \in Nat
      BY <1>6
    <3>2. Stored \in [1 .. MaxLength -> Nat]
      BY <1>6, <3>1, Zenon DEF Stored
    <3> QED
      BY <1>3, <3>2
  <2>5. /\ transfer_in_progress' \in BOOLEAN /\ spi_xfer_done' \in BOOLEAN
        /\ READY' \in BOOLEAN
    BY <1>1, <1>3
  <2>6. read' \in Nat /\ sent' \in Nat
    BY <1>3, <1>6
  <2> QED
    BY <1>2, <1>3, <2>1, <2>3, <2>4, <2>5, <2>6 DEF IInv, TypeOK
<1>11. Signalled'
  <2>1. READY' <=> read' < sent'
    BY <1>3, <1>4
  <2> QED
    BY <1>3, <2>1 DEF Signalled
<1>12. InProgress'
  <2>1. InTxd' = IF bytes_transferred' + 2 <= Total'
                 THEN bytes_transferred' + 2 ELSE Total'
    BY <1>1, <1>3 DEF InTxd
  <2>2. Len(wire') = InTxd'
    BY <1>1, <1>2, <1>6, <2>1
  <2>3. transfer_in_progress' => bytes_transferred' < Total' /\ ~spi_xfer_done'
    BY <1>1
  <2>4. read' <= sent' /\ bytes_transferred' = read' /\ sent' <= Len(wire')
    BY <1>1, <1>3, <1>4, <1>5, <1>6, <1>8
  <2> QED
    BY <1>1, <1>3, <1>5, <2>2, <2>3, <2>4 DEF InProgress, Starting
<1>13. Finished'
  <2> SUFFICES ASSUME ~transfer_in_progress'
               PROVE  /\ sent' = Len(wire') /\ read' = Len(wire')
                      /\ Len(wire') = Total' /\ spi_xfer_done'
    BY <1>1, <1>3 DEF Finished
  <2>1. ~(bytes_transferred' < Total')
    BY <1>1
  <2>2. bytes_transferred + 1 = Total'
    BY <1>1, <1>6, <2>1
  <2>3. Len(wire') = Total'
    BY <1>2, <1>6, <2>2
  <2>4. read' = Total' /\ sent' = Total'
    BY <1>3, <1>4, <1>5, <1>6, <1>8, <2>2, <2>3
  <2> QED
    BY <1>1, <2>1, <2>3, <2>4
<1>14. Lengths'
  <2>1. /\ tx_length <= Asked[1] /\ rx_length <= Asked[2]
        /\ ~abort => tx_length = Asked[1] /\ rx_length = Asked[2]
        /\ tx_length < Asked[1] => tx_length = Total
        /\ rx_length < Asked[2] => rx_length = Total
    BY <1>1 DEF IInv, Lengths
  <2>2. Asked[1] \in Nat /\ Asked[2] \in Nat
    BY <1>1, AskedFits
  <2>3. tx_length' <= Asked[1] /\ rx_length' <= Asked[2]
    BY <1>1, <1>6, <2>1, <2>2 DEF Cut
  <2>4. ~abort => tx_length' = Asked[1] /\ rx_length' = Asked[2]
    BY <1>1, <2>1 DEF Cut
  <2>5. tx_length <= Total /\ rx_length <= Total
    BY <1>6 DEF Total, Transaction!Larger
  <2>6. tx_length' < Asked[1] => tx_length' = Total'
    BY <1>1, <1>6, <2>1, <2>2, <2>5 DEF Cut
  <2>7. rx_length' < Asked[2] => rx_length' = Total'
    BY <1>1, <1>6, <2>1, <2>2, <2>5 DEF Cut
  <2> QED
    BY <1>1, <1>3, <1>9, <2>3, <2>4, <2>6, <2>7 DEF Lengths, Starting
<1>15. Contents'
  <2>1. \A i \in 1 .. MaxLength :
          rx_buffer[i] = IF i <= read /\ i <= Asked[2] THEN i ELSE 0
    BY <1>1 DEF IInv, Contents
  <2>2. Asked[2] \in 0 .. MaxLength
    BY <1>1, AskedFits
  <2>3. bytes_transferred < rx_length <=> bytes_transferred < Asked[2]
    BY SMTT(30), <1>1, <1>5, <1>6, <2>2 DEF IInv, Lengths
  <2>4. \A i \in 1 .. MaxLength :
          rx_buffer'[i] = IF i <= read + 1 /\ i <= Asked[2] THEN i ELSE 0
    <3> SUFFICES ASSUME NEW i \in 1 .. MaxLength
                 PROVE rx_buffer'[i] = IF i <= read + 1 /\ i <= Asked[2] THEN i ELSE 0
      OBVIOUS
    <3>1. CASE bytes_transferred < rx_length
      <4>1. rx_buffer' = [rx_buffer EXCEPT ![read + 1] = read + 1]
        BY <1>3, <1>5, <3>1 DEF Stored
      <4>2. read < Asked[2]
        BY <1>5, <2>3, <3>1
      <4> QED
        BY <1>6, <2>1, <2>2, <4>1, <4>2
    <3>2. CASE ~(bytes_transferred < rx_length)
      <4>1. rx_buffer' = rx_buffer
        BY <1>3, <3>2 DEF Stored
      <4>2. Asked[2] <= read
        BY <1>5, <1>6, <2>2, <2>3, <3>2
      <4> QED
        BY <1>6, <2>1, <2>2, <4>1, <4>2
    <3> QED
      BY <3>1, <3>2
  <2> QED
    BY <1>2, <1>3, <1>9, <2>4 DEF Contents
<1>16. Fresh'
  BY <1>1, <1>3 DEF Fresh
<1> QED
  BY <1>10, <1>11, <1>12, <1>13, <1>14, <1>15, <1>16 DEF IInv

\* Every step preserves the inductive invariant.
LEMMA NextIInv == ASSUME IInv, [Next]_vars PROVE IInv'
<1>1. CASE UNCHANGED vars
  BY <1>1
  DEF vars, driver, spi, IInv, TypeOK, Signalled, InProgress, Finished, Lengths,
      Contents, Fresh, Asked, Total, Starting, InTxd
<1>2. CASE Next
  BY <1>2, RateIInv, TransferIInv, XferIInv, FirstByteIInv, SecondByteIInv, EnableIInv,
     ReturnIInv, ShiftIInv, EnterIInv, ByteIInv, AbortIInv
  DEF Next, caller, irq_handler_spi
<1> QED
  BY <1>1, <1>2

---------------------------------------------------------------------------

\* The inductive invariant holds throughout.
THEOREM Invariant == Spec => []IInv
  BY InitIInv, NextIInv, PTL DEF Spec

\* The state keeps its types: no byte is taken from beyond the transmit buffer
\* and none stored beyond the receive buffer.
THEOREM TypeCorrect == Spec => []TypeOK
<1>1. IInv => TypeOK
  BY DEF IInv
<1> QED
  BY <1>1, Invariant, PTL

\* A call never finds the driver busy, and its instance keeps its rate to the end.
THEOREM DriverIsFree == Spec => []NeverBusy
<1> DEFINE Rates == main # "idle" => Initialised
<1>1. Init => Rates
  BY DEF Init
<1>2. Rates /\ [Next]_vars => Rates'
  <2> SUFFICES ASSUME Rates, [Next]_vars PROVE Rates'
    OBVIOUS
  <2>1. CASE UNCHANGED vars
    BY <2>1 DEF vars, driver, Initialised
  <2>2. CASE port_set_dw1000_slowrate \/ port_set_dw1000_fastrate
    BY <2>2 DEF port_set_dw1000_slowrate, port_set_dw1000_fastrate, nrf_drv_spi_init,
                nrf_drv_spi_uninit
  <2>3. CASE Transfer \/ nrf_drv_spi_xfer \/ FirstByte \/ SecondByte \/ EnableInterrupt \/ Return
    BY <2>3 DEF Transfer, nrf_drv_spi_xfer, FirstByte, SecondByte, EnableInterrupt, Return,
                driver, Initialised
  <2>4. CASE Shift \/ EnterHandler \/ transfer_byte \/ nrf_drv_spi_abort
    BY <2>4 DEF Shift, EnterHandler, transfer_byte, nrf_drv_spi_abort, driver, Initialised
  <2> QED
    BY <2>1, <2>2, <2>3, <2>4 DEF Next, caller, irq_handler_spi
<1>3. IInv /\ Rates => NeverBusy
  BY DEF IInv, InProgress, NeverBusy
<1> QED
  BY <1>1, <1>2, <1>3, Invariant, PTL DEF Spec

\* TXD and RXD never hold more than two bytes, and RXD is not read when empty.
THEOREM NothingOverrun == Spec => []NoOverrun
<1>1. IInv => NoOverrun
  <2> SUFFICES ASSUME IInv PROVE NoOverrun
    OBVIOUS
  <2>1. sent \in Nat /\ read \in Nat /\ Len(wire) \in Nat /\ bytes_transferred \in Nat
    BY DEF IInv, TypeOK
  <2>2. irq => read < sent
    BY DEF IInv, Signalled
  <2>3. CASE transfer_in_progress
    <3>1. /\ read <= sent /\ sent <= Len(wire) /\ bytes_transferred = read
          /\ read < Total /\ Len(wire) = InTxd /\ (Starting => read = 0)
      BY <2>3 DEF IInv, InProgress
    <3>2. Total \in Nat
      BY DEF IInv, TypeOK, Total, Transaction!Larger
    <3>3. InTxd <= read + 2
      BY <2>1, <3>1, <3>2 DEF InTxd, Starting
    <3> QED
      BY <2>1, <2>2, <3>1, <3>3 DEF NoOverrun
  <2>4. CASE ~transfer_in_progress
    BY <2>1, <2>2, <2>4 DEF IInv, Finished, NoOverrun
  <2> QED
    BY <2>3, <2>4
<1> QED
  BY <1>1, Invariant, PTL

\* A finished transfer leaves the peripheral empty.
THEOREM PeripheralIsEmpty == Spec => []NoByteLeftBehind
<1>1. IInv => NoByteLeftBehind
  <2> SUFFICES ASSUME IInv, ~transfer_in_progress PROVE NoByteLeftBehind
    BY DEF NoByteLeftBehind
  <2>1. sent = Len(wire) /\ read = sent /\ ~irq /\ read \in Nat
    BY DEF IInv, Finished, TypeOK
  <2>2. READY <=> read < sent
    BY <2>1 DEF IInv, Signalled
  <2> QED
    BY <2>1, <2>2 DEF NoByteLeftBehind
<1> QED
  BY <1>1, Invariant, PTL

\* The caller, the driver and the peripheral stay in step.
THEOREM StaysInStep == Spec => []InStep
BY DriverIsFree, NothingOverrun, PeripheralIsEmpty, PTL DEF InStep

---------------------------------------------------------------------------
(* Refinement, for calls whose lengths fit the counters. *)

Fits == Requests \subseteq (0 .. Width - 1) \X (0 .. Width - 1)

\* A step inside a call is not seen from outside.
Hidden == ~Returned /\ ~Returned' /\ UNCHANGED call
          /\ (main' \notin {"idle", "xfer"} /\ abort')
                = (main \notin {"idle", "xfer"} /\ abort)

\* Seen from outside nothing happens.
LEMMA HiddenIsStutter ==
  ASSUME Hidden PROVE UNCHANGED Transaction!vars
  BY DEF Hidden, Transaction!vars

\* When a call returns its bytes are on the wire and the answers in place.
LEMMA ReturnCompletes ==
  ASSUME Fits, IInv, Return PROVE Transaction!Complete
<1> USE LengthAssumption
<1>1. main = "spin" /\ main' = "idle" /\ spi_xfer_done
      /\ UNCHANGED <<call, wire, rx_buffer>>
  BY DEF Return, driver, spi
<1>2. ~transfer_in_progress
  BY <1>1 DEF IInv, InProgress
<1>3. Len(wire) = Total /\ read = Len(wire)
  BY <1>1, <1>2 DEF IInv, Finished
<1>4. call \in Requests
  BY <1>1 DEF IInv, Lengths
<1>5. call[1] \in 0 .. Width - 1 /\ call[2] \in 0 .. Width - 1
  BY <1>4 DEF Fits
<1>6. Asked[1] = call[1] /\ Asked[2] = call[2]
  BY <1>5, Narrowed DEF Asked
<1>7. /\ tx_length \in Nat /\ rx_length \in Nat
      /\ tx_length <= call[1] /\ rx_length <= call[2]
      /\ ~abort => tx_length = call[1] /\ rx_length = call[2]
  BY <1>1, <1>6 DEF IInv, TypeOK, Lengths
<1>8. /\ Total \in 1 .. Transaction!Bytes(call)
      /\ ~abort => Total = Transaction!Bytes(call)
  BY <1>5, <1>7 DEF Total, Transaction!Bytes, Transaction!Larger
<1>9. wire = Transaction!Wire(call, Total)
  <2>1. wire \in Seq((1 .. MaxLength) \cup {Orc})
    BY DEF IInv, TypeOK
  <2>2. \A i \in 1 .. Total : wire[i] = IF i <= call[1] THEN i ELSE Orc
    BY <1>1, <1>3, <1>6 DEF IInv, Contents
  <2>3. wire = [i \in 1 .. Len(wire) |-> wire[i]]
    BY <2>1
  <2> QED
    BY <1>3, <2>2, <2>3 DEF Transaction!Wire
<1>10. rx_buffer = Transaction!Answer(call, Total)
  <2>1. rx_buffer \in [1 .. MaxLength -> Nat]
    BY DEF IInv, TypeOK
  <2>2. \A i \in 1 .. MaxLength :
          rx_buffer[i] = IF i <= Total /\ i <= call[2] THEN i ELSE 0
    BY <1>1, <1>3, <1>6 DEF IInv, Contents
  <2> QED
    BY <2>1, <2>2 DEF Transaction!Answer
<1>11. call # NoCall
  BY <1>4
<1> QED
  BY <1>1, <1>8, <1>9, <1>10, <1>11 DEF Transaction!Complete, Returned

\* Every step is one of the transaction's or hidden.
LEMMA StepRefines ==
  ASSUME Fits, IInv, IInv', [Next]_vars
  PROVE  [Transaction!Next]_(Transaction!vars)
<1> USE LengthAssumption
<1>1. CASE UNCHANGED vars
  BY <1>1 DEF vars, driver, spi, Transaction!vars, Returned
<1>2. CASE Transfer
  <2>1. /\ main = "idle" /\ main' = "xfer" /\ call' \in Requests
        /\ rx_buffer' = Cleared
    BY <1>2 DEF Transfer
  <2> QED
    BY <2>1 DEF Transaction!Next, Transaction!Begin, Transaction!NoAnswer,
                Returned, Cleared
<1>3. CASE Return
  BY <1>3, ReturnCompletes DEF Transaction!Next
<1>4. CASE nrf_drv_spi_xfer
  <2>1. Hidden
    BY <1>4 DEF nrf_drv_spi_xfer, Hidden, Returned
  <2> QED
    BY <2>1, HiddenIsStutter
<1>5. CASE FirstByte \/ SecondByte \/ EnableInterrupt
  <2>1. Hidden
    BY <1>5 DEF FirstByte, SecondByte, EnableInterrupt, driver, Hidden, Returned
  <2> QED
    BY <2>1, HiddenIsStutter
<1>6. CASE Shift \/ EnterHandler \/ transfer_byte
  <2>1. UNCHANGED <<main, call, abort>>
    BY <1>6 DEF Shift, EnterHandler, transfer_byte, driver
  <2>2. main # "idle"
    <3>1. transfer_in_progress
      BY <1>6 DEF IInv, TypeOK, Finished, Signalled, Shift, EnterHandler, transfer_byte
    <3> QED
      BY <3>1 DEF IInv, InProgress
  <2>3. Hidden
    BY <2>1, <2>2 DEF Hidden, Returned
  <2> QED
    BY <2>3, HiddenIsStutter
<1>7. CASE nrf_drv_spi_abort
  <2>1. /\ main \in {"first", "second", "enable", "spin"} /\ call \in Requests
        /\ abort' = TRUE /\ UNCHANGED <<main, call>>
    BY <1>7 DEF nrf_drv_spi_abort, IInv, InProgress
  <2>2. call # NoCall
    BY <2>1
  <2> QED
    BY <2>1, <2>2 DEF Transaction!Next, Transaction!Abort, Returned
<1>8. CASE port_set_dw1000_slowrate \/ port_set_dw1000_fastrate
  BY <1>8 DEF port_set_dw1000_slowrate, port_set_dw1000_fastrate, nrf_drv_spi_init,
              nrf_drv_spi_uninit, Transaction!vars, Returned
<1> QED
  BY <1>1, <1>2, <1>3, <1>4, <1>5, <1>6, <1>7, <1>8 DEF Next, caller, irq_handler_spi

\* Every call whose lengths fit the counters moves the bytes it was asked for,
\* each in its place (readfromspi, writetospi over nrf_drv_spi.c).
THEOREM Refinement == ASSUME Fits PROVE Spec => ImplementsTransaction
<1>1. Init => Transaction!Init
  BY DEF Init, Transaction!Init, Transaction!NoAnswer, Returned, Cleared
<1>2. IInv /\ IInv' /\ [Next]_vars => [Transaction!Next]_(Transaction!vars)
  BY StepRefines, Fits
<1> QED
  BY <1>1, <1>2, Invariant, PTL DEF Spec, ImplementsTransaction, Transaction!Spec
=============================================================================
