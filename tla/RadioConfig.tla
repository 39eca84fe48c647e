---------------------------- MODULE RadioConfig ----------------------------
(***************************************************************************)
(* What dwt_configure makes of a configuration: every register of the chip *)
(* that depends on channel, pulse rate, bit rate, preamble and start of    *)
(* frame, from the tables of deca_params_init.c.                           *)
(***************************************************************************)
EXTENDS Integers, Sequences

Channels == {1, 2, 3, 4, 5, 7}
PreambleLengths == {4, 20, 36, 52, 8, 24, 40, 12}  \* DWT_PLEN_64 .. DWT_PLEN_4096
PLEN_64 == 4
BR_110K == 0
PRF_16M == 1
SFDTOC_DEF == 4161

\* The codes of a pulse rate.
Codes(prf) == IF prf = PRF_16M THEN 1 .. 8 ELSE 9 .. 24

\* What the assertions allow.
Configurations ==
  {c \in [chan : Channels, prf : 1 .. 2, txPreambLength : PreambleLengths, rxPAC : 0 .. 3,
          txCode : 1 .. 24, rxCode : 1 .. 24, nsSFD : 0 .. 1, dataRate : 0 .. 2,
          sfdTO : Nat] :
     c.txCode \in Codes(c.prf) /\ c.rxCode \in Codes(c.prf)}

---------------------------------------------------------------------------
(* The tables, their rows counted from 1; FS_PLLCFG, RF_TXCTRL and the like
   are named by the channel they are for. *)

chan_idx == <<0, 0, 1, 2, 3, 4, 0, 5>>  \* of channels 0 .. 7

tx_config == <<23616, 285856, 552128, 285824, 1982432, 1998304>>
fs_pll_cfg == <<"CH1", "CH2", "CH3", "CH2", "CH5", "CH5">>
fs_pll_tune == <<30, 38, 86, 38, 190, 190>>
rx_config == <<216, 188>>
agc_target == <<34928, 34971>>
dwnsSFDlen == <<64, 16, 8>>
sftsh == << <<10, 22>>, <<1, 6>>, <<1, 2>> >>
dtune1 == <<135, 141>>
digital_bb_config ==
  << <<"PRF16_PAC8", "PRF16_PAC16", "PRF16_PAC32", "PRF16_PAC64">>,
     <<"PRF64_PAC8", "PRF64_PAC16", "PRF64_PAC32", "PRF64_PAC64">> >>
lde_replicaCoeff ==
  <<22936, 22936, 20970, 17038, 17694, 11796, 32768, 20970, 10484, 13106, 15072, 15728, 15072,
    13762, 11140, 13762, 13106, 13762, 13762, 18350, 15072, 14416, 12450, 14416>>
LDE_PARAM3 == <<5639, 1543>>

---------------------------------------------------------------------------
(* dwt_configure *)

ChanRow(c) == chan_idx[c.chan + 1] + 1

\* Of 110 kbps, an eighth.
ReplicaCoefficient(c) ==
  LET reg16 == lde_replicaCoeff[c.rxCode] IN IF c.dataRate = BR_110K THEN reg16 \div 8 ELSE reg16

TUNE1b(c) == IF c.dataRate = BR_110K THEN 100 ELSE IF c.txPreambLength = PLEN_64 THEN 16 ELSE 32

\* At 110 kbps the register is not written.
TUNE4H(chip, c) ==
  IF c.dataRate = BR_110K THEN chip.DRX_TUNE4H
  ELSE IF c.txPreambLength = PLEN_64 THEN 16 ELSE 40

UserSfd(chip, c) == IF c.nsSFD = 1 THEN dwnsSFDlen[c.dataRate + 1] ELSE chip.USR_SFD

\* Two halves of 16 bits: the channels from bits 0 and 4; DWSFD, the pulse rate,
\* TNSSFD and RNSSFD and the codes from bits 17, 18, 20, 22 and 27.
CHAN_CTRL(c) ==
  [low |-> c.chan + 16 * c.chan,
   high |-> 2 * c.nsSFD + 4 * c.prf + 16 * (3 * c.nsSFD) + 64 * c.txCode + 2048 * c.rxCode]

\* The pulse rate and the length share the upper half, the bit rate is from bit 13.
TX_FCTRL(c) == [low |-> 8192 * c.dataRate, high |-> c.txPreambLength + c.prf]

dwt_configure(chip, c) ==
  [LDE_REPC |-> ReplicaCoefficient(c),
   LDE_CFG2 |-> LDE_PARAM3[c.prf],
   FS_PLLCFG |-> fs_pll_cfg[ChanRow(c)],
   FS_PLLTUNE |-> fs_pll_tune[ChanRow(c)],
   RF_RXCTRLH |-> rx_config[IF c.chan \in {4, 7} THEN 2 ELSE 1],
   RF_TXCTRL |-> tx_config[ChanRow(c)],
   DRX_TUNE0b |-> sftsh[c.dataRate + 1][c.nsSFD + 1],
   DRX_TUNE1a |-> dtune1[c.prf],
   DRX_TUNE1b |-> TUNE1b(c),
   DRX_TUNE4H |-> TUNE4H(chip, c),
   DRX_TUNE2 |-> digital_bb_config[c.prf][c.rxPAC + 1],
   DRX_SFDTOC |-> IF c.sfdTO = 0 THEN SFDTOC_DEF ELSE c.sfdTO,
   AGC_TUNE1 |-> agc_target[c.prf],
   USR_SFD |-> UserSfd(chip, c),
   CHAN_CTRL |-> CHAN_CTRL(c),
   TX_FCTRL |-> TX_FCTRL(c)]

---------------------------------------------------------------------------
(* The chip *)

\* What it finds in CHAN_CTRL.
TxChan(reg) == reg.low % 16
RxChan(reg) == reg.low \div 16
DwSfd(reg) == (reg.high \div 2) % 2
RxPrf(reg) == (reg.high \div 4) % 4
NsSfd(reg) == (reg.high \div 16) % 4
TxCode(reg) == (reg.high \div 64) % 32
RxCode(reg) == reg.high \div 2048

\* And in TX_FCTRL.
TxBitRate(reg) == (reg.low \div 8192) % 4
TxPrf(reg) == reg.high % 4
TxPreamble(reg) == 4 * (reg.high \div 4)

\* What a configuration leaves as an earlier one had it: the length of a start of
\* frame that is not in use, and at 110 kbps a tuning of the receiver.
Left(c) ==
  (IF c.nsSFD = 0 THEN {"USR_SFD"} ELSE {})
    \cup (IF c.dataRate = BR_110K THEN {"DRX_TUNE4H"} ELSE {})
=============================================================================
