---------------------------- MODULE DeviceConfig ----------------------------
(***************************************************************************)
(* What the driver believes of the DW1000 and what the chip really holds:  *)
(* the copy of SYS_CFG, the clocks forced for an access, the LDE microcode *)
(* and the sleep settings, through initialisation, configuration, sleep,   *)
(* wake-up and a reset of the processor between any two accesses to the    *)
(* chip, which keeps its state.                                            *)
(*                                                                         *)
(* A call that forces clocks or touches the always-on (AON) part of the    *)
(* chip is a sequence of accesses, todo; the others are one step.          *)
(*                                                                         *)
(* This application resets the chip at boot; the driver does not ask for   *)
(* it, and here the chip is as the last life of the processor left it.     *)
(* dwt_otpwriteandverify, which is in Otp, leaves the clock forced to the  *)
(* crystal: it is not one of the calls here.                               *)
(***************************************************************************)
EXTENDS Naturals, Sequences

CONSTANTS
  MaxCalls, MaxResets   \* bounds of the model: calls, processor resets

ASSUME DeviceAssumption ==
  /\ MaxCalls \in Nat /\ MaxResets \in Nat

VARIABLES
  \* the chip
  asleep, SYS_CFG,
  forced,     \* what the chip does not sequence (PMSC_CTRL0, PMSC_CTRL1)
  LDERUN, microcode, ATXSLP,
  AON_WCFG, SLEEP_EN,  \* of AON_WCFG and AON_CFG0
  saved,      \* SYS_CFG in the AON array
  \* the driver
  sysCFGreg, dblbuffon, longFrames, sleep_mode,
  doing, todo,  \* the call under way and the accesses it has left
  ready,        \* "no"; "initialised" by dwt_initialise; "configured" by dwt_configure
  calls, resets, \* counters of the bounds
  asked         \* history: the options the application has asked for

chip == <<asleep, SYS_CFG, forced, LDERUN, microcode, ATXSLP, AON_WCFG, SLEEP_EN, saved>>
local == <<sysCFGreg, dblbuffon, longFrames, sleep_mode>>
call == <<doing, todo, ready, calls, resets>>
vars == <<chip, local, call, asked>>

Options == {"RXM110K", "PHR_MODE", "FFE", "DIS_STXP", "AUTOACK", "DIS_DRXB", "RXWTOE"}
AfterReset == {"DIS_DRXB"}
Clocks == {"XTI", "LDE", "FACE", "AMCE", "PKTSEQ"}
WakeUps == {"LDC", "PRES_SLEEP", "LLDE", "LLDO"}

Init ==
  /\ asleep = FALSE /\ SYS_CFG = AfterReset /\ forced = {}
  /\ LDERUN = TRUE /\ microcode = FALSE /\ ATXSLP = FALSE
  /\ AON_WCFG = {} /\ SLEEP_EN = FALSE /\ saved = AfterReset
  /\ sysCFGreg = {} /\ dblbuffon = FALSE /\ longFrames = FALSE /\ sleep_mode = {}
  /\ doing = "nothing" /\ todo = <<>> /\ ready = "no"
  /\ calls = 0 /\ resets = 0 /\ asked = {}

---------------------------------------------------------------------------
(* One access to the chip *)

\* The OTP clock (0x0200) is on after a reset and nothing turns it off.
_dwt_enableclocks(clocks) ==
  /\ forced' = CASE clocks = "ENABLE_ALL_SEQ" -> forced \cap {"AMCE", "PKTSEQ"}
                 [] clocks = "FORCE_SYS_XTI" -> forced \cup {"XTI"}
                 [] clocks = "READ_ACC_ON" -> forced \cup {"FACE", "AMCE"}
                 [] clocks = "READ_ACC_OFF" -> forced \ {"FACE", "AMCE"}
                 [] clocks = "FORCE_LDE" -> (forced \cap {"PKTSEQ"}) \cup {"XTI", "LDE"}
  /\ UNCHANGED <<asleep, SYS_CFG, LDERUN, microcode, ATXSLP, AON_WCFG, SLEEP_EN, saved,
                 local>>

\* "Set system clock to XTI", "Disable PMSC ctrl of RF and RX clk blocks".
_dwt_disablesequencing ==
  /\ forced' = forced \cup {"XTI", "PKTSEQ"}
  /\ UNCHANGED <<asleep, SYS_CFG, LDERUN, microcode, ATXSLP, AON_WCFG, SLEEP_EN, saved,
                 local>>

\* The AON registers named are cleared.
Clear(registers) ==
  /\ AON_WCFG' = IF "AON_WCFG" \in registers THEN {} ELSE AON_WCFG
  /\ SLEEP_EN' = IF "AON_CFG0" \in registers THEN FALSE ELSE SLEEP_EN
  /\ UNCHANGED <<asleep, SYS_CFG, forced, LDERUN, microcode, ATXSLP, saved, local>>

\* "The DW1000 will go to SLEEP straight after this if the DWT_SLP_EN has been
\* set."
_dwt_aonarrayupload ==
  /\ saved' = SYS_CFG /\ asleep' = SLEEP_EN
  /\ UNCHANGED <<SYS_CFG, forced, LDERUN, microcode, ATXSLP, AON_WCFG, SLEEP_EN, local>>

\* "Reset sleep configuration to make sure we don't accidentally go to sleep".
_dwt_aonconfigupload ==
  /\ asleep' = SLEEP_EN
  /\ UNCHANGED <<SYS_CFG, forced, LDERUN, microcode, ATXSLP, AON_WCFG, SLEEP_EN, saved,
                 local>>

\* At wake-up, and after a reset, the chip loads what AON_WCFG asks for.
Download ==
  /\ SYS_CFG' = IF "LDC" \in AON_WCFG THEN saved ELSE AfterReset
  /\ microcode' = ("LLDE" \in AON_WCFG)
  /\ LDERUN' = ("LDC" \in AON_WCFG => LDERUN)
  /\ ATXSLP' = (ATXSLP /\ {"LDC", "PRES_SLEEP"} \subseteq AON_WCFG)
  /\ forced' = {}

\* HIF, TX, RX and PMSC, not the AON block: "as reset will trigger AON download".
ResetAll == Download /\ UNCHANGED <<asleep, AON_WCFG, SLEEP_EN, saved, local>>

\* LDO tune may be programmed, or not.
LdoTune ==
  /\ sleep_mode' \in {sleep_mode, sleep_mode \cup {"LLDO"}}
  /\ UNCHANGED <<chip, sysCFGreg, dblbuffon, longFrames>>

\* The microcode is loaded with the clocks for it only.
LdeLoad ==
  /\ microcode' = ("LDE" \in forced)
  /\ UNCHANGED <<asleep, SYS_CFG, forced, LDERUN, ATXSLP, AON_WCFG, SLEEP_EN, saved, local>>

LoadAtWakeUp ==
  /\ sleep_mode' = sleep_mode \cup {"LLDE"}
  /\ UNCHANGED <<chip, sysCFGreg, dblbuffon, longFrames>>

ClearLDERUN ==
  /\ LDERUN' = FALSE
  /\ UNCHANGED <<asleep, SYS_CFG, forced, microcode, ATXSLP, AON_WCFG, SLEEP_EN, saved,
                 local>>

ReadSysCfg ==
  /\ sysCFGreg' = SYS_CFG
  /\ UNCHANGED <<chip, dblbuffon, longFrames, sleep_mode>>

\* An access that changes nothing modelled here.
Other == UNCHANGED <<chip, local>>

Access(a) ==
  CASE a \in {"ENABLE_ALL_SEQ", "FORCE_SYS_XTI", "READ_ACC_ON", "READ_ACC_OFF", "FORCE_LDE"}
         -> _dwt_enableclocks(a)
    [] a = "PKTSEQ" -> _dwt_disablesequencing
    [] a \in {"AON_WCFG", "AON_CFG0"} -> Clear({a})
    [] a = "SAVE" -> _dwt_aonarrayupload
    [] a = "UPL_CFG" -> _dwt_aonconfigupload
    [] a = "RESET_ALL" -> ResetAll
    [] a = "LDOTUNE" -> LdoTune
    [] a = "LDELOAD" -> LdeLoad
    [] a = "ONW_LLDE" -> LoadAtWakeUp
    [] a = "LDERUN" -> ClearLDERUN
    [] a = "SYS_CFG" -> ReadSysCfg
    [] a \in {"OTP", "OPS", "ACC", "SAR", "SAR_PLL", "CAL", "AON_CFG1", "SLEEP_TIM",
            "LPOSC_CAL"} -> Other

---------------------------------------------------------------------------
(* The calls that are several accesses *)

\* Mutants: the array is uploaded before its settings are cleared; what is to be
\* loaded at wake-up is not cleared; the clocks stay forced.
SoftResetDownloads == <<"PKTSEQ", "AON_CFG0", "SAVE", "RESET_ALL">>
SoftResetUploads == <<"PKTSEQ", "SAVE", "AON_WCFG", "AON_CFG0", "RESET_ALL">>
OtpReadForced == <<"FORCE_SYS_XTI", "OTP">>

dwt_softreset == <<"PKTSEQ", "AON_WCFG", "AON_CFG0", "SAVE", "RESET_ALL">>

\* Mutant: the microcode is not loaded again at wake-up.
LoadOnce == <<"FORCE_LDE", "LDELOAD", "ENABLE_ALL_SEQ">>
_dwt_loaducodefromrom ==
  <<"FORCE_LDE", "LDELOAD", "ENABLE_ALL_SEQ", "ONW_LLDE">>

Initialise(loaducode) ==
  dwt_softreset \o <<"FORCE_SYS_XTI", "OTP", "LDOTUNE", "OTP">>
  \o (IF loaducode THEN _dwt_loaducodefromrom ELSE <<"LDERUN">>)
  \o <<"ENABLE_ALL_SEQ", "AON_CFG1", "SYS_CFG">>

dwt_otpread == <<"FORCE_SYS_XTI", "OTP", "ENABLE_ALL_SEQ">>
dwt_loadopsettabfromotp == <<"FORCE_LDE", "OPS", "ENABLE_ALL_SEQ">>
dwt_readaccdata == <<"READ_ACC_ON", "ACC", "READ_ACC_OFF">>
\* On the PLL's clocks the inputs are read after a wait ("if receiver needs to be
\* on then the timer is used to make sure the value is stable").
dwt_readtempvbat(fastSPI) ==
  IF fastSPI THEN <<"SAR_PLL">> ELSE <<"FORCE_SYS_XTI", "SAR", "ENABLE_ALL_SEQ">>
dwt_configuresleepcnt ==
  <<"FORCE_SYS_XTI", "AON_CFG0", "AON_CFG1", "UPL_CFG", "SLEEP_TIM", "UPL_CFG",
    "AON_CFG1", "UPL_CFG", "ENABLE_ALL_SEQ">>
dwt_calibratesleepcnt ==
  <<"LPOSC_CAL", "UPL_CFG", "AON_CFG1", "UPL_CFG", "FORCE_SYS_XTI", "CAL", "ENABLE_ALL_SEQ">>
dwt_entersleep == <<"SAVE">>

Program(name) ==
  CASE name = "dwt_otpread" -> dwt_otpread
    [] name = "dwt_loadopsettabfromotp" -> dwt_loadopsettabfromotp
    [] name = "dwt_readaccdata" -> dwt_readaccdata
    [] name = "dwt_readtempvbat" -> dwt_readtempvbat(FALSE)
    [] name = "dwt_readtempvbat_fast" -> dwt_readtempvbat(TRUE)
    [] name = "dwt_configuresleepcnt" -> dwt_configuresleepcnt
    [] name = "dwt_calibratesleepcnt" -> dwt_calibratesleepcnt
    [] name = "dwt_entersleep" -> dwt_entersleep

\* Calls that force clocks, and those that do not.
Clocked == {"dwt_otpread", "dwt_loadopsettabfromotp", "dwt_readaccdata", "dwt_readtempvbat",
            "dwt_configuresleepcnt", "dwt_calibratesleepcnt"}
Unforced == {"dwt_readtempvbat_fast", "dwt_entersleep"}

\* "this function needs to be run before dwt_configuresleep".
Allowed(name) ==
  name \in {"dwt_configuresleepcnt", "dwt_calibratesleepcnt"} => ~SLEEP_EN

MayCall == doing = "nothing" /\ calls < MaxCalls /\ calls' = calls + 1

Call(name) ==
  /\ MayCall /\ ready # "no" /\ ~asleep /\ Allowed(name)
  /\ doing' = name /\ todo' = Program(name)
  /\ UNCHANGED <<chip, local, ready, resets, asked>>

\* Mutant: the call goes on with a chip that does not answer.
InitialiseBlind(loaducode) ==
  /\ MayCall
  /\ ready' = "no" /\ dblbuffon' = FALSE /\ sleep_mode' = {}
  /\ doing' = "dwt_initialise"
  /\ IF asleep THEN UNCHANGED todo ELSE todo' = Initialise(loaducode)
  /\ asked' = AfterReset
  /\ UNCHANGED <<chip, sysCFGreg, longFrames, resets>>

\* A chip that sleeps has no device identifier to read.
dwt_initialise(loaducode) ==
  /\ MayCall
  /\ ready' = "no" /\ dblbuffon' = FALSE /\ sleep_mode' = {}
  /\ IF asleep THEN UNCHANGED <<doing, todo>>
               ELSE doing' = "dwt_initialise" /\ todo' = Initialise(loaducode)
  /\ asked' = AfterReset
  /\ UNCHANGED <<chip, sysCFGreg, longFrames, resets>>

Step ==
  /\ todo # <<>>
  /\ Access(Head(todo))
  /\ todo' = Tail(todo)
  /\ IF Tail(todo) # <<>> THEN UNCHANGED <<doing, ready>>
     ELSE /\ doing' = "nothing"
          /\ ready' = IF doing = "dwt_initialise" THEN "initialised" ELSE ready
  /\ UNCHANGED <<calls, resets, asked>>

---------------------------------------------------------------------------
(* The calls that change the options, one step each *)

Put(config, option, on) == IF on THEN config \cup {option} ELSE config \ {option}

MaySet ==
  /\ MayCall /\ ready # "no" /\ ~asleep
  /\ UNCHANGED <<asleep, forced, LDERUN, microcode, AON_WCFG, SLEEP_EN, saved, sleep_mode,
                 doing, todo, resets>>

\* The register and its copy are written.
Write(config) == sysCFGreg' = config /\ SYS_CFG' = config

dwt_configure(br110k, long) ==
  /\ MaySet /\ ready' = "configured"
  /\ longFrames' = long
  /\ Write(Put(Put(sysCFGreg, "RXM110K", br110k), "PHR_MODE", long))
  /\ asked' = Put(Put(asked, "RXM110K", br110k), "PHR_MODE", long)
  /\ UNCHANGED <<ATXSLP, dblbuffon>>

dwt_enableframefilter(enable) ==
  /\ MaySet
  /\ Write(Put(SYS_CFG, "FFE", enable))
  /\ asked' = Put(asked, "FFE", enable)
  /\ UNCHANGED <<ATXSLP, dblbuffon, longFrames, ready>>

dwt_setsmarttxpower(enable) ==
  /\ MaySet
  /\ Write(Put(SYS_CFG, "DIS_STXP", ~enable))
  /\ asked' = Put(asked, "DIS_STXP", ~enable)
  /\ UNCHANGED <<ATXSLP, dblbuffon, longFrames, ready>>

dwt_enableautoack ==
  /\ MaySet
  /\ Write(sysCFGreg \cup {"AUTOACK"})
  /\ asked' = asked \cup {"AUTOACK"}
  /\ UNCHANGED <<ATXSLP, dblbuffon, longFrames, ready>>

dwt_setdblrxbuffmode(enable) ==
  /\ MaySet
  /\ Write(Put(sysCFGreg, "DIS_DRXB", ~enable))
  /\ dblbuffon' = enable
  /\ asked' = Put(asked, "DIS_DRXB", ~enable)
  /\ UNCHANGED <<ATXSLP, longFrames, ready>>

\* Mutant: the upper byte is written in the register only.
RxTimeoutInChip(on) ==
  /\ MaySet
  /\ SYS_CFG' = Put(SYS_CFG, "RXWTOE", on)
  /\ asked' = Put(asked, "RXWTOE", on)
  /\ UNCHANGED <<sysCFGreg, ATXSLP, dblbuffon, longFrames, ready>>

dwt_setrxtimeout(on) ==
  /\ MaySet
  /\ sysCFGreg' = Put(sysCFGreg, "RXWTOE", on)
  /\ SYS_CFG' = Put(SYS_CFG, "RXWTOE", on)
  /\ asked' = Put(asked, "RXWTOE", on)
  /\ UNCHANGED <<ATXSLP, dblbuffon, longFrames, ready>>

dwt_entersleepaftertx(enable) ==
  /\ MaySet
  /\ ATXSLP' = enable
  /\ UNCHANGED <<SYS_CFG, sysCFGreg, dblbuffon, longFrames, ready, asked>>

\* The application asks for its configuration back at wake-up (DWT_CONFIG).
dwt_configuresleep(mode, slp_en) ==
  /\ MayCall /\ ready # "no" /\ ~asleep
  /\ AON_WCFG' = mode \cup sleep_mode
  /\ SLEEP_EN' = slp_en
  /\ UNCHANGED <<asleep, SYS_CFG, forced, LDERUN, microcode, ATXSLP, saved, local,
                 doing, todo, ready, resets, asked>>

---------------------------------------------------------------------------
(* The chip, and the processor *)

\* A transmission ends, between two calls.
SleepAfterTx ==
  /\ ~asleep /\ doing = "nothing" /\ ATXSLP /\ SLEEP_EN
  /\ asleep' = TRUE /\ saved' = SYS_CFG
  /\ UNCHANGED <<SYS_CFG, forced, LDERUN, microcode, ATXSLP, AON_WCFG, SLEEP_EN, local,
                 call, asked>>

\* By dwt_spicswakeup, or by the chip's counter or pin.
WakeUp ==
  /\ asleep /\ doing = "nothing"
  /\ Download /\ asleep' = FALSE
  /\ UNCHANGED <<AON_WCFG, SLEEP_EN, saved, local, call, asked>>

\* The driver's data are static, and zero when the processor starts.
ProcessorReset ==
  /\ resets < MaxResets /\ resets' = resets + 1
  /\ sysCFGreg' = {} /\ dblbuffon' = FALSE /\ longFrames' = FALSE /\ sleep_mode' = {}
  /\ doing' = "nothing" /\ todo' = <<>> /\ ready' = "no" /\ asked' = {}
  /\ UNCHANGED <<chip, calls>>

\* dwt_softreset is called by dwt_initialise only: the driver's copies do not
\* follow it.
Programs == Clocked \cup Unforced

Next ==
  \/ \E name \in Programs : Call(name)
  \/ \E loaducode \in BOOLEAN : dwt_initialise(loaducode)
  \/ Step
  \/ \E br110k, long \in BOOLEAN : dwt_configure(br110k, long)
  \/ \E on \in BOOLEAN : \/ dwt_enableframefilter(on) \/ dwt_setsmarttxpower(on)
                         \/ dwt_setdblrxbuffmode(on) \/ dwt_setrxtimeout(on)
                         \/ dwt_entersleepaftertx(on)
  \/ dwt_enableautoack
  \/ \E mode \in {{"LDC"}, {"LDC", "PRES_SLEEP"}}, slp_en \in BOOLEAN :
        dwt_configuresleep(mode, slp_en)
  \/ SleepAfterTx \/ WakeUp \/ ProcessorReset

Spec == Init /\ [][Next]_vars

---------------------------------------------------------------------------
\* Every variable has its type, and a call is under way as long as it has
\* accesses left.
TypeOK ==
  /\ asleep \in BOOLEAN /\ LDERUN \in BOOLEAN /\ microcode \in BOOLEAN
  /\ ATXSLP \in BOOLEAN /\ SLEEP_EN \in BOOLEAN
  /\ SYS_CFG \subseteq Options /\ saved \subseteq Options /\ sysCFGreg \subseteq Options
  /\ asked \subseteq Options /\ forced \subseteq Clocks
  /\ AON_WCFG \subseteq WakeUps /\ sleep_mode \subseteq WakeUps
  /\ dblbuffon \in BOOLEAN /\ longFrames \in BOOLEAN
  /\ ready \in {"no", "initialised", "configured"}
  /\ doing \in Programs \cup {"nothing", "dwt_initialise"}
  /\ (doing = "nothing") <=> (todo = <<>>)
  /\ calls \in 0..MaxCalls /\ resets \in 0..MaxResets

AtRest == ready # "no" /\ ~asleep /\ doing = "nothing"

\* An option the application asked for is set, and no other, until it asks for
\* something else: a call that writes the whole register from its copy, or a
\* sleep, undoes none of the earlier calls.  Half of the
\* calls write the register from the driver's copy, which agrees with it.
SettingsLast == AtRest => SYS_CFG = asked /\ sysCFGreg = SYS_CFG

\* The interrupt service decides with dblbuffon whether to toggle the buffers,
\* and with longFrames how many bits a length has: as the chip does.
IsrAgrees ==
  AtRest /\ ready = "configured" => /\ dblbuffon <=> "DIS_DRXB" \notin SYS_CFG
                                   /\ longFrames <=> "PHR_MODE" \in SYS_CFG

\* "this is necessary to make sure the values read ... are reliable".
ReadsAreReliable ==
  todo # <<>> => /\ Head(todo) \in {"OTP", "SAR"} => "XTI" \in forced
                 /\ Head(todo) = "SAR_PLL" => forced = {}

ClocksAreSequenced == AtRest => forced = {}

\* An OTP word, and the analogue inputs at a slow SPI rate, are read with the
\* system clock forced to the crystal; at a fast rate, after a wait instead, with
\* no clock forced, so that the receiver may be on.  A call leaves no clock
\* forced: the radio's sequencer has them all back.
ClocksAreRight == ReadsAreReliable /\ ClocksAreSequenced

\* The receiver never runs the leading edge detector without its microcode,
\* which is lost by a reset and by sleep.
LdeHasMicrocode == AtRest /\ LDERUN => microcode

\* The chip sleeps because the application asked for it, never by an upload of
\* settings that another life of the processor left in the chip; so no access
\* of a call finds it asleep.
SleepsWhenAsked ==
  [][~asleep /\ asleep' => doing = "dwt_entersleep" \/ (doing = "nothing" /\ ATXSLP)]_vars
=============================================================================
