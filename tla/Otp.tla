-------------------------------- MODULE Otp --------------------------------
(***************************************************************************)
(* dwt_otpwriteandverify: a word of the DW1000's one-time programmable     *)
(* memory is programmed, at most five times, and read back under stress.   *)
(*                                                                         *)
(* A bit, once set, stays set.  A pulse may leave a bit of the word blank, *)
(* weak or solid; the read margin chosen by the mode registers decides     *)
(* what a weak bit reads as.  The supply may fall at any time, and the     *)
(* processor may be reset between any two steps.                           *)
(***************************************************************************)
EXTENDS Naturals

CONSTANTS Words,  \* words of the memory: the chip takes an address modulo this
          Bits    \* the bits of a word

ASSUME OtpAssumption == Words \in Nat \ {0}

VARIABLES
  \* the chip
  memory,       \* for a word and a bit: 0 blank, 1 weak, 2 solid
  regs,         \* MRA, MRB and MR
  OTP_WDAT, OTP_ADDR, OTPPRGD,
  pulse,        \* a word is being programmed
  supply,       \* the supply is at 3.7 V
  \* dwt_otpwriteandverify
  pc, value, address, retry, prog_ok

memoryChip == <<memory, regs, OTP_WDAT, OTP_ADDR, OTPPRGD, pulse, supply>>
host == <<pc, value, address, retry, prog_ok>>
otpVars == <<memoryChip, host>>

Addresses == 0..(2 * Words - 1)
MaxRetry == 5

\* Mutant: the mode that reads under stress has the margin of mode 0.
RelaxedRegisters(mode) ==
  CASE mode \in {0, 4} -> [mra |-> 0, mrb |-> 0, mr |-> 0]
    [] mode = 1 -> [mra |-> 37408, mrb |-> 14, mr |-> 4132]

Registers(mode) ==
  CASE mode = 0 -> [mra |-> 0, mrb |-> 0, mr |-> 0]
    [] mode = 1 -> [mra |-> 37408, mrb |-> 14, mr |-> 4132]  \* 0x9220, 0x0E, 0x1024
    [] mode = 2 -> [mra |-> 37408, mrb |-> 3, mr |-> 6180]   \* 0x1824
    [] mode = 3 -> [mra |-> 37408, mrb |-> 78, mr |-> 6180]  \* 0x4E
    [] mode = 4 -> [mra |-> 0, mrb |-> 3, mr |-> 0]
    [] mode = 5 -> [mra |-> 0, mrb |-> 3, mr |-> 36]         \* 0x24

OtpInit ==
  /\ memory \in [0..(Words - 1) -> [Bits -> {0, 2}]]
  /\ regs = Registers(0) /\ OTP_WDAT = {} /\ OTP_ADDR = 0 /\ OTPPRGD = FALSE
  /\ pulse = FALSE /\ supply = TRUE
  /\ pc = "idle" /\ value = {} /\ address = 0 /\ retry = 0 /\ prog_ok = "none"

---------------------------------------------------------------------------
(* The chip *)

Solid(a) == {b \in Bits : memory[a % Words][b] = 2}
Weak(a) == {b \in Bits : memory[a % Words][b] = 1}

\* What a read may return: with the charge pump on any of the weak bits; at a
\* low read margin (MRB=0x0003) none of them, in normal operation all of them.
Readings(a) ==
  CASE regs.mra # 0 -> {Solid(a) \cup s : s \in SUBSET Weak(a)}
    [] regs.mra = 0 /\ regs.mrb = 3 -> {Solid(a)}
    [] regs.mra = 0 /\ regs.mrb # 3 -> {Solid(a) \cup Weak(a)}

OTPVPOK == supply /\ regs.mra # 0

\* The word is programmed, as far as the supply allows, and the pulse ends.
Pulse ==
  /\ pulse /\ pulse' = FALSE /\ OTPPRGD' = TRUE
  /\ \E word \in [Bits -> 0..2] :
       /\ \A b \in Bits : word[b] >= memory[OTP_ADDR % Words][b]
       /\ \A b \in Bits : b \notin OTP_WDAT \/ ~OTPVPOK
                            => word[b] = memory[OTP_ADDR % Words][b]
       /\ memory' = [memory EXCEPT ![OTP_ADDR % Words] = word]
  /\ UNCHANGED <<regs, OTP_WDAT, OTP_ADDR, supply, host>>

Supply ==
  /\ supply' = ~supply
  /\ UNCHANGED <<memory, regs, OTP_WDAT, OTP_ADDR, OTPPRGD, pulse, host>>

---------------------------------------------------------------------------
(* dwt_otpwriteandverify *)

WriteAndVerify(v, a) ==
  /\ pc = "idle"
  /\ value' = v /\ address' = a /\ retry' = 0 /\ prog_ok' = "none"
  /\ regs' = Registers(1)
  /\ pc' = "program"
  /\ UNCHANGED <<memory, OTP_WDAT, OTP_ADDR, OTPPRGD, pulse, supply>>

\* Mutant: the address is the one of the last read.
ProgramAnywhere ==
  /\ pc = "program"
  /\ IF ~OTPVPOK THEN pc' = "check" /\ UNCHANGED memoryChip
     ELSE /\ pc' = "wait"
          /\ OTP_WDAT' = value /\ OTPPRGD' = FALSE /\ pulse' = TRUE
          /\ UNCHANGED <<memory, regs, supply, OTP_ADDR>>
  /\ UNCHANGED <<value, address, retry, prog_ok>>

\* Without the programming voltage it returns an error, which is ignored.
_dwt_otpprogword32 ==
  /\ pc = "program"
  /\ IF ~OTPVPOK THEN pc' = "check" /\ UNCHANGED memoryChip
     ELSE /\ pc' = "wait"
          /\ OTP_WDAT' = value /\ OTP_ADDR' = address
          /\ OTPPRGD' = FALSE /\ pulse' = TRUE
          /\ UNCHANGED <<memory, regs, supply>>
  /\ UNCHANGED <<value, address, retry, prog_ok>>

\* "WAIT for status to flag PRGM OK", without a limit.
Wait ==
  /\ pc = "wait" /\ OTPPRGD /\ pc' = "check"
  /\ UNCHANGED <<memoryChip, value, address, retry, prog_ok>>

\* Mutant: an attempt that failed is not counted.
CheckForever ==
  /\ pc = "check"
  /\ OTP_ADDR' = address
  /\ \E reading \in Readings(address) :
       /\ retry' = retry
       /\ IF reading = value
          THEN pc' = "verify" /\ regs' = Registers(4)
          ELSE pc' = "program" /\ UNCHANGED regs
  /\ UNCHANGED <<memory, OTP_WDAT, OTPPRGD, pulse, supply, value, address, prog_ok>>

Check ==
  /\ pc = "check"
  /\ OTP_ADDR' = address
  /\ \E reading \in Readings(address) :
       /\ retry' = IF reading = value THEN retry ELSE retry + 1
       /\ IF reading = value \/ retry' = MaxRetry
          THEN pc' = "verify" /\ regs' = Registers(4)
          ELSE pc' = "program" /\ UNCHANGED regs
  /\ UNCHANGED <<memory, OTP_WDAT, OTPPRGD, pulse, supply, value, address, prog_ok>>

\* Mutant: the chip stays in the mode for reading under stress.
VerifyAndLeave ==
  /\ pc = "verify"
  /\ OTP_ADDR' = address
  /\ \E reading \in Readings(address) :
       prog_ok' = IF reading = value THEN "DWT_SUCCESS" ELSE "DWT_ERROR"
  /\ pc' = "idle"
  /\ UNCHANGED <<memory, regs, OTP_WDAT, OTPPRGD, pulse, supply, value, address, retry>>

Verify ==
  /\ pc = "verify"
  /\ OTP_ADDR' = address
  /\ \E reading \in Readings(address) :
       prog_ok' = IF reading = value THEN "DWT_SUCCESS" ELSE "DWT_ERROR"
  /\ regs' = Registers(0)
  /\ pc' = "idle"
  /\ UNCHANGED <<memory, OTP_WDAT, OTPPRGD, pulse, supply, value, address, retry>>

\* The processor is reset, and the chip with it, but only because
\* breadcrumb_dwm_init begins with reset_DW1000 ("resetting the device would be
\* alternative").  A pulse is cut off, the memory stays.
Reset ==
  /\ pc # "idle"
  /\ regs' = Registers(0) /\ OTPPRGD' = FALSE /\ pulse' = FALSE
  /\ pc' = "idle" /\ prog_ok' = "none"
  /\ UNCHANGED <<memory, OTP_WDAT, OTP_ADDR, supply, value, address, retry>>

dwt_otpwriteandverify == _dwt_otpprogword32 \/ Wait \/ Check \/ Verify

OtpNext ==
  \/ \E v \in SUBSET Bits, a \in Addresses : WriteAndVerify(v, a)
  \/ dwt_otpwriteandverify
  \/ Pulse \/ Supply \/ Reset

OtpSpec == OtpInit /\ [][OtpNext]_otpVars

\* The processor runs, and a pulse ends.
OtpFairSpec == OtpSpec /\ WF_otpVars(dwt_otpwriteandverify) /\ WF_otpVars(Pulse)

---------------------------------------------------------------------------
\* Every variable has its type.
OtpTypeOK ==
  /\ memory \in [0..(Words - 1) -> [Bits -> 0..2]]
  /\ regs \in {Registers(0), Registers(1), Registers(4)}
  /\ OTP_WDAT \subseteq Bits /\ OTP_ADDR \in Addresses
  /\ OTPPRGD \in BOOLEAN /\ pulse \in BOOLEAN /\ supply \in BOOLEAN
  /\ pc \in {"idle", "program", "wait", "check", "verify"}
  /\ value \subseteq Bits /\ address \in Addresses /\ retry \in 0..MaxRetry
  /\ prog_ok \in {"none", "DWT_SUCCESS", "DWT_ERROR"}

\* The answer of dwt_otpwriteandverify is true of the memory: success means
\* that every bit of the value, and no other, is set beyond doubt, an error
\* that it is not so.
AnswerIsTrue ==
  /\ prog_ok = "DWT_SUCCESS" => Solid(address) = value
  /\ prog_ok = "DWT_ERROR" => Solid(address) # value

ReadsAreNormal == pc = "idle" => regs = Registers(0)

NoReadDuringPulse == pc \in {"check", "verify"} => ~pulse

\* When no call is under way the chip reads with the normal margin, so that later
\* calls do not program, or read under stress, by accident; and the memory is
\* not read while a word is being programmed.
ReadsAreRight == ReadsAreNormal /\ NoReadDuringPulse

\* What cannot be undone is done to the bits of the value at the address of the
\* call, and to no other, whatever the registers held before.
OnlyTheWordAskedFor ==
  [][\A a \in 0..(Words - 1), b \in Bits :
       memory'[a][b] # memory[a][b] => a = address % Words /\ b \in value]_memory

\* A call returns, whatever the memory does, as long as every pulse ends.
Returns == pc # "idle" ~> pc = "idle"
=============================================================================
