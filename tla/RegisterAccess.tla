--------------------------- MODULE RegisterAccess ---------------------------
(***************************************************************************)
(* How the driver reaches a register of the DW1000: the header it puts in  *)
(* front of the data, the one transfer in both directions the port makes   *)
(* of them, and what numbers and timestamps go through on the way.  The    *)
(* chip's side is external.                                                *)
(***************************************************************************)
EXTENDS Integers, Sequences

Byte == 0 .. 255
Word16 == 0 .. 256 * 256 - 1
Records == 0 .. 63     \* "Record number is limited to 6-bits"
Indices == 0 .. 128 * 256 - 1  \* "Index and sub-addressable area are limited to 15-bits"

---------------------------------------------------------------------------
(* The driver *)

\* Bit 7 of the first byte is the operation, bit 6 the presence of an index.
Read == 0
Write == 128

\* 0x80 | (uint8)index and (uint8)(index >> 7) from 128 on.
Header(operation, recordNumber, index) ==
  IF index = 0
  THEN <<operation + recordNumber>>
  ELSE IF index <= 127
  THEN <<operation + 64 + recordNumber, index>>
  ELSE <<operation + 64 + recordNumber, 128 + (index % 128), (index \div 128) % 256>>

\* nrf_drv_spi_transfer takes the length, a uint32, in a uint8_t.
OnTheWire(length) == length % 256

\* Two copies into one buffer, and so many bytes of it are sent.
Transmitted(header, body) ==
  [k \in 1 .. OnTheWire(Len(header) + Len(body)) |->
     IF k <= Len(header) THEN header[k] ELSE body[k - Len(header)]]

\* As many are received, in a buffer of zeros; what was received for the header
\* is skipped.
Skipped(header, length, received) ==
  [k \in 1 .. length |->
     IF Len(header) + k <= OnTheWire(Len(header) + length) THEN received[Len(header) + k] ELSE 0]

Zeros(length) == [k \in 1 .. length |-> 0]

\* The number of bytes of one access on the wire.
WireLength(index, length) == OnTheWire(Len(Header(Read, 0, index)) + length)

\* A number of two or of four bytes in a buffer, and back.
Buffer16(regval) == <<regval % 256, regval \div 256>>
Regval16(buffer) == 256 * buffer[2] + buffer[1]

Buffer32(regval) ==
  LET high == (regval \div 256) \div 256
  IN  <<regval % 256, (regval \div 256) % 256, high % 256, high \div 256>>
Regval32(buffer) ==
  256 * (256 * (256 * buffer[4] + buffer[3]) + buffer[2]) + buffer[1]

\* Bit 20 of the carrier integrator, its sign, is bit 4 of the third byte; what
\* is above it is not part of the number.
CarrierIntegrator(buffer) ==
  LET top == IF (buffer[3] \div 16) % 2 = 1 THEN (buffer[3] % 16) - 16
                                            ELSE buffer[3] % 32
  IN  256 * 256 * top + Regval16(buffer)

\* What dwt_writetxdata hands on, if it does: the two bytes of the CRC are the
\* chip's.
TX_BUFFER_LEN == 1024
dwt_writetxdata(txFrameLength, txBufferOffset) ==
  IF txBufferOffset + txFrameLength <= TX_BUFFER_LEN
  THEN [result |-> "DWT_SUCCESS", index |-> txBufferOffset, length |-> txFrameLength - 2]
  ELSE [result |-> "DWT_ERROR", index |-> 0, length |-> 0]

\* The frame control a transmission is started with: its fields, each in bits of
\* its own while the frame and its offset are below 1024.
dwt_writetxfctrl(txFCTRL, txFrameLength, txBufferOffset, ranging) ==
  txFCTRL + txFrameLength + 128 * 256 * ranging + 64 * 256 * 256 * txBufferOffset

\* What dwt_configure keeps for it: bit rate (0 to 2), PRF (1 or 2) and the code
\* of the preamble's length, here without its two zero bits.
TxFctrl(dataRate, prf, preamble) == 32 * 256 * dataRate + 256 * 256 * (prf + 4 * preamble)

---------------------------------------------------------------------------
(* Timestamps.  Times are counted without end, clock is the number of values
   of the chip's clock (2^40), word that of a uint32. *)

\* dwt_readtxtimestamplo32, dwt_readrxtimestamplo32: four of the five bytes.
Lo32(time, clock, word) == (time % clock) % word

\* A timestamp in a response, least significant byte first.
resp_msg_get_ts(ts_field) ==
  ts_field[1] + 256 * ts_field[2] + 256 * 256 * ts_field[3] + 256 * 256 * 256 * ts_field[4]

\* rtd_init and rtd_resp: a difference of uint32, taken as an int32.
int32(v, word) == IF 2 * v < word THEN v ELSE v - word
RoundTrip(end, start, word) == int32((end - start) % word, word)

---------------------------------------------------------------------------
(* The chip *)

\* The fields it finds in its frame control.
FrameLength(reg32) == reg32 % 1024
DataRate(reg32) == (reg32 \div (32 * 256)) % 4
Ranging(reg32) == (reg32 \div (128 * 256)) % 2
Prf(reg32) == (reg32 \div (256 * 256)) % 4
Preamble(reg32) == (reg32 \div (256 * 1024)) % 16
BufferOffset(reg32) == reg32 \div (64 * 256 * 256)

\* The chip takes its header from the first bytes sent.
IsWrite(sent) == sent[1] >= Write
HasIndex(sent) == (sent[1] \div 64) % 2 = 1
IsExtended(sent) == HasIndex(sent) /\ sent[2] >= 128

HeaderLength(sent) == IF ~HasIndex(sent) THEN 1 ELSE IF IsExtended(sent) THEN 3 ELSE 2

Record(sent) == sent[1] % 64

Index(sent) ==
  IF ~HasIndex(sent) THEN 0
  ELSE IF IsExtended(sent) THEN (sent[2] % 128) + 128 * sent[3] ELSE sent[2]

\* The register file after a transfer: a write puts the bytes behind the header
\* from the index on, a read changes nothing.
FileAfter(file, sent, total) ==
  [r \in Records |-> [i \in Indices |->
     IF /\ IsWrite(sent) /\ r = Record(sent)
        /\ i - Index(sent) \in 0 .. total - HeaderLength(sent) - 1
     THEN sent[HeaderLength(sent) + 1 + i - Index(sent)] ELSE file[r][i]]]

\* What the chip answers to a read; anything while it takes the header.
IsAnswer(file, sent, received) ==
  \A k \in DOMAIN received :
    k > HeaderLength(sent) /\ ~IsWrite(sent)
      => received[k] = file[Record(sent)][Index(sent) + k - HeaderLength(sent) - 1]
=============================================================================
