---------------------------- MODULE ChipOptions ----------------------------
(***************************************************************************)
(* The options the driver keeps no copy of: they live in the registers     *)
(* PMSC_CTRL0, PMSC_CTRL1, RF_CONF and GPIO_MODE of the DW1000, which      *)
(* several calls share, each reading the register, changing its own bits   *)
(* and writing it back, or writing a part of it whole.  A register is the  *)
(* set of its bits and fields that are on.                                 *)
(***************************************************************************)
EXTENDS Naturals

CONSTANT MaxOptions  \* bound of the model: calls that change an option

ASSUME OptionsAssumption == MaxOptions \in Nat

VARIABLES
  PMSC_CTRL0, PMSC_CTRL1, RF_CONF, GPIO_MODE,
  fineSeq,     \* PMSC_TXFINESEQ is enabled
  awake,       \* dwt_initialise has been called since the processor started
  asked,       \* history: the options the application may count on
  options      \* counter of the bound

registers == <<PMSC_CTRL0, PMSC_CTRL1, RF_CONF, GPIO_MODE, fineSeq>>
optionVars == <<registers, awake, asked, options>>

SysClocks == {"SYSCLKS_19M", "SYSCLKS_125M"}
Byte0 == SysClocks \cup {"TXCLKS_125M"}
Byte1 == {"CWCLKS"}                \* 0x07, of dwt_configcwmode
Byte2 == {"GPDCE", "KHZCLEN"}
Byte3 == {"PLL2_SEQ_EN"}
Ctrl0 == Byte0 \cup Byte1 \cup Byte2 \cup Byte3

LowHalf == {"PKTSEQ", "ATXSLP", "ARXSLP", "SNOZE"}
Ctrl1 == LowHalf \cup {"LDERUNE"}

TXPLLPOWEN == {"PLLEN", "TXPOW"}
TXALLEN == TXPLLPOWEN \cup {"TXEN", "TXBLOCKSEN"}
RfConf == TXALLEN \cup {"PGMIXBIASEN"}

LedPins == {"RXLED", "TXLED"}
Pins == LedPins \cup {"EXTRXE", "EXTTXE", "EXTPA"}

\* "LEDCLOCKS" outlives "LEDS": nothing turns them off.
TestModes == {"CW", "FRAMES"}
Asked == {"LEDS", "LEDCLOCKS", "LNA", "PA", "SNIFF", "ATXSLP", "LPL", "LDE", "FINESEQ"}
           \cup TestModes

\* A part of a register is written whole.
WritePart(register, part, value) == (register \ part) \cup value

Put(set, element, on) == IF on THEN set \cup {element} ELSE set \ {element}

OptionsInit ==
  /\ PMSC_CTRL0 = {} /\ PMSC_CTRL1 = {"PKTSEQ", "LDERUNE"} /\ RF_CONF = {}
  /\ GPIO_MODE = {} /\ fineSeq = TRUE
  /\ awake = FALSE /\ asked = {} /\ options = 0

---------------------------------------------------------------------------
MayOption == awake /\ options < MaxOptions /\ options' = options + 1 /\ UNCHANGED awake

dwt_setleds(enable) ==
  /\ MayOption
  /\ GPIO_MODE' = WritePart(GPIO_MODE, LedPins, IF enable THEN LedPins ELSE {})
  /\ PMSC_CTRL0' = IF enable THEN PMSC_CTRL0 \cup Byte2 ELSE PMSC_CTRL0
  /\ asked' = IF enable THEN asked \cup {"LEDS", "LEDCLOCKS"} ELSE asked \ {"LEDS"}
  /\ UNCHANGED <<PMSC_CTRL1, RF_CONF, fineSeq>>

dwt_setlnapamode(lna, pa) ==
  /\ MayOption
  /\ GPIO_MODE' = WritePart(GPIO_MODE, Pins \ LedPins,
                            (IF lna THEN {"EXTRXE"} ELSE {})
                              \cup (IF pa THEN {"EXTTXE", "EXTPA"} ELSE {}))
  /\ asked' = Put(Put(asked, "LNA", lna), "PA", pa)
  /\ UNCHANGED <<PMSC_CTRL0, PMSC_CTRL1, RF_CONF, fineSeq>>

dwt_setsniffmode(enable) ==
  /\ MayOption
  /\ PMSC_CTRL0' = Put(PMSC_CTRL0, "PLL2_SEQ_EN", enable)
  /\ asked' = Put(asked, "SNIFF", enable)
  /\ UNCHANGED <<PMSC_CTRL1, RF_CONF, GPIO_MODE, fineSeq>>

dwt_entersleepaftertx(enable) ==
  /\ MayOption
  /\ PMSC_CTRL1' = Put(PMSC_CTRL1, "ATXSLP", enable)
  /\ asked' = Put(asked, "ATXSLP", enable)
  /\ UNCHANGED <<PMSC_CTRL0, RF_CONF, GPIO_MODE, fineSeq>>

dwt_setlowpowerlistening(enable) ==
  /\ MayOption
  /\ PMSC_CTRL1' = WritePart(PMSC_CTRL1, {"ARXSLP", "SNOZE"},
                             IF enable THEN {"ARXSLP", "SNOZE"} ELSE {})
  /\ asked' = Put(asked, "LPL", enable)
  /\ UNCHANGED <<PMSC_CTRL0, RF_CONF, GPIO_MODE, fineSeq>>

dwt_setfinegraintxseq(enable) ==
  /\ MayOption
  /\ fineSeq' = enable /\ asked' = Put(asked, "FINESEQ", enable)
  /\ UNCHANGED <<PMSC_CTRL0, PMSC_CTRL1, RF_CONF, GPIO_MODE>>

\* _dwt_disablesequencing writes the lower half of PMSC_CTRL1 whole: with the
\* sequencing go the sleep after a transmission and low-power listening.
_dwt_disablesequencing == PMSC_CTRL1' = PMSC_CTRL1 \ LowHalf

Unsequenced == asked \ {"ATXSLP", "LPL"}

dwt_configcwmode ==
  /\ MayOption /\ _dwt_disablesequencing
  /\ RF_CONF' = TXALLEN
  /\ PMSC_CTRL0' = WritePart(PMSC_CTRL0, Byte0 \cup Byte1,
                             {"SYSCLKS_125M", "TXCLKS_125M", "CWCLKS"})
  /\ fineSeq' = FALSE
  /\ asked' = (Unsequenced \ {"FINESEQ"}) \cup {"CW"}
  /\ UNCHANGED GPIO_MODE

dwt_configcontinuousframemode ==
  /\ MayOption /\ _dwt_disablesequencing
  /\ RF_CONF' = TXALLEN
  /\ PMSC_CTRL0' = WritePart(PMSC_CTRL0, Byte0, {"SYSCLKS_125M", "TXCLKS_125M"})
  /\ asked' = Unsequenced \cup {"FRAMES"}
  /\ UNCHANGED <<GPIO_MODE, fineSeq>>

\* The reset bits of the receiver are written with the upper byte of PMSC_CTRL0,
\* which takes sniff mode's sequencing of the PLL with it.
dwt_rxreset ==
  /\ MayOption
  /\ PMSC_CTRL0' = PMSC_CTRL0 \ Byte3
  /\ asked' = asked \ {"SNIFF"}
  /\ UNCHANGED <<PMSC_CTRL1, RF_CONF, GPIO_MODE, fineSeq>>

Option ==
  \/ \E on \in BOOLEAN : \/ dwt_setleds(on) \/ dwt_setsniffmode(on)
                         \/ dwt_entersleepaftertx(on) \/ dwt_setlowpowerlistening(on)
                         \/ dwt_setfinegraintxseq(on)
  \/ \E lna, pa \in BOOLEAN : dwt_setlnapamode(lna, pa)
  \/ dwt_configcwmode \/ dwt_configcontinuousframemode \/ dwt_rxreset

\* dwt_initialise resets HIF, TX, RX and PMSC, not the pins; without the microcode
\* the leading edge detector is turned off.
dwt_initialise(loaducode) ==
  /\ PMSC_CTRL0' = {} /\ RF_CONF' = {} /\ fineSeq' = TRUE
  /\ PMSC_CTRL1' = {"PKTSEQ"} \cup (IF loaducode THEN {"LDERUNE"} ELSE {})
  /\ awake' = TRUE
  /\ asked' = (asked \cap {"LEDS", "LNA", "PA"}) \cup {"FINESEQ"}
                \cup (IF loaducode THEN {"LDE"} ELSE {})
  /\ UNCHANGED <<GPIO_MODE, options>>

---------------------------------------------------------------------------
InTest == asked \cap TestModes # {}

\* What the registers hold when no call is under way.
ForcedAsAsked ==
  /\ PMSC_CTRL0 \cap Byte0 = IF InTest THEN {"SYSCLKS_125M", "TXCLKS_125M"} ELSE {}
  /\ "CWCLKS" \in PMSC_CTRL0 <=> "CW" \in asked
  /\ RF_CONF = IF InTest THEN TXALLEN ELSE {}
  /\ "PKTSEQ" \in PMSC_CTRL1 <=> ~InTest
  /\ fineSeq <=> "FINESEQ" \in asked

SetAsAsked ==
  /\ PMSC_CTRL0 \cap Byte2 = IF "LEDCLOCKS" \in asked THEN Byte2 ELSE {}
  /\ "PLL2_SEQ_EN" \in PMSC_CTRL0 <=> "SNIFF" \in asked
  /\ "ATXSLP" \in PMSC_CTRL1 <=> "ATXSLP" \in asked
  /\ PMSC_CTRL1 \cap {"ARXSLP", "SNOZE"} = IF "LPL" \in asked THEN {"ARXSLP", "SNOZE"} ELSE {}
  /\ "LDERUNE" \in PMSC_CTRL1 <=> "LDE" \in asked

PinsAsAsked ==
  /\ GPIO_MODE \cap LedPins = IF "LEDS" \in asked THEN LedPins ELSE {}
  /\ "EXTRXE" \in GPIO_MODE <=> "LNA" \in asked
  /\ GPIO_MODE \cap {"EXTTXE", "EXTPA"} = IF "PA" \in asked THEN {"EXTTXE", "EXTPA"} ELSE {}
=============================================================================
