---------------------------- MODULE DeviceProofs ----------------------------
(***************************************************************************)
(* The parts of the driver that keep state over many accesses to the chip. *)
(*                                                                         *)
(* Of DeviceConfig: what the driver remembers is what the chip holds and   *)
(* what the application asked for, at any point of any sequence of calls,  *)
(* sleeps and resets of the processor, for any number of them.  The proof  *)
(* follows the programs of the calls access by access.                     *)
(*                                                                         *)
(* Of Otp: what dwt_otpwriteandverify answers, and what it does to the     *)
(* memory, for every number of words and every set of bits.                *)
(***************************************************************************)
EXTENDS DeviceConfig, Otp, SequenceTheorems, TLAPS

---------------------------------------------------------------------------
(* DeviceConfig *)

Accesses ==
  {"ENABLE_ALL_SEQ", "FORCE_SYS_XTI", "READ_ACC_ON", "READ_ACC_OFF", "FORCE_LDE", "PKTSEQ",
   "AON_WCFG", "AON_CFG0", "SAVE", "UPL_CFG", "RESET_ALL", "LDOTUNE", "LDELOAD", "ONW_LLDE",
   "LDERUN", "SYS_CFG", "OTP", "OPS", "ACC", "SAR", "SAR_PLL", "CAL", "AON_CFG1",
   "SLEEP_TIM", "LPOSC_CAL"}

\* How many accesses of a program have been made, when todo is the rest of it.
Done(program) == Len(program) - Len(todo)

IsRestOf(program) ==
  /\ todo \in Seq(Accesses) /\ Len(todo) <= Len(program)
  /\ \A k \in 1 .. Len(todo) : todo[k] = program[Done(program) + k]

\* Once the device is initialised the register, its copy and the two flags agree
\* with what was asked for, whatever call is under way.
Agreed ==
  ready # "no" =>
    /\ SYS_CFG = asked /\ sysCFGreg = asked
    /\ dblbuffon <=> "DIS_DRXB" \notin asked
    /\ ready = "configured" => (longFrames <=> "PHR_MODE" \in asked)

\* The chip can sleep only if it will wake up with its configuration and with
\* the microcode it runs.
SleepIsSafe ==
  ready # "no" =>
    /\ LDERUN => microcode /\ "LLDE" \in sleep_mode
    /\ SLEEP_EN => "LDC" \in AON_WCFG /\ sleep_mode \subseteq AON_WCFG
    /\ asleep => SLEEP_EN /\ saved = SYS_CFG

\* No call is under way with a chip that sleeps, and only dwt_initialise with one
\* that is not initialised.
CallsAreOrdered ==
  /\ doing # "nothing" => ~asleep
  /\ doing = "dwt_initialise" => ready = "no"
  /\ doing \in Programs => ready # "no"
  /\ doing = "nothing" /\ ready # "no" => forced = {}

\* The first access that forces clocks, and the clocks that are forced between
\* it and the last access.
Forcing(name) ==
  IF name = "dwt_calibratesleepcnt" THEN 5 ELSE 1
Held(name) ==
  CASE name = "dwt_loadopsettabfromotp" -> {"XTI", "LDE"}
    [] name = "dwt_readaccdata" -> {"FACE", "AMCE"}
    [] OTHER -> {"XTI"}

InClocked ==
  doing \in Clocked =>
    /\ IsRestOf(Program(doing))
    /\ forced = IF Done(Program(doing)) < Forcing(doing) THEN {} ELSE Held(doing)
    /\ doing \in {"dwt_configuresleepcnt", "dwt_calibratesleepcnt"} => ~SLEEP_EN

InUnforced ==
  /\ doing = "dwt_entersleep" => IsRestOf(dwt_entersleep) /\ forced = {}
  /\ doing = "dwt_readtempvbat_fast" => IsRestOf(dwt_readtempvbat(TRUE)) /\ forced = {}

\* dwt_initialise, written out.
Loading ==
  <<"PKTSEQ", "AON_WCFG", "AON_CFG0", "SAVE", "RESET_ALL", "FORCE_SYS_XTI", "OTP", "LDOTUNE",
    "OTP", "FORCE_LDE", "LDELOAD", "ENABLE_ALL_SEQ", "ONW_LLDE", "ENABLE_ALL_SEQ", "AON_CFG1",
    "SYS_CFG">>
NotLoading ==
  <<"PKTSEQ", "AON_WCFG", "AON_CFG0", "SAVE", "RESET_ALL", "FORCE_SYS_XTI", "OTP", "LDOTUNE",
    "OTP", "LDERUN", "ENABLE_ALL_SEQ", "AON_CFG1", "SYS_CFG">>

\* What the accesses of dwt_initialise have achieved after the first ones.
Initialising(program) ==
  /\ IsRestOf(program)
  /\ Done(program) >= 2 => AON_WCFG = {}
  /\ Done(program) >= 3 => ~SLEEP_EN
  /\ Done(program) >= 5 => SYS_CFG = AfterReset
  /\ Done(program) = 5 => forced = {}
  /\ Done(program) \in 6 .. 9 => forced = {"XTI"}

WithMicrocode ==
  /\ Initialising(Loading)
  /\ Done(Loading) \in 10 .. 11 => forced = {"XTI", "LDE"}
  /\ Done(Loading) \in 11 .. 16 => microcode
  /\ Done(Loading) \in 12 .. 16 => forced = {}
  /\ Done(Loading) \in 13 .. 16 => "LLDE" \in sleep_mode

WithoutMicrocode ==
  /\ Initialising(NotLoading)
  /\ Done(NotLoading) = 10 => forced = {"XTI"}
  /\ Done(NotLoading) >= 10 => LDERUN = FALSE
  /\ Done(NotLoading) >= 11 => forced = {}

InInitialise ==
  doing = "dwt_initialise" =>
    /\ asked = AfterReset /\ ~dblbuffon
    /\ WithMicrocode \/ WithoutMicrocode

IInv ==
  /\ TypeOK /\ Agreed /\ SleepIsSafe /\ CallsAreOrdered
  /\ InClocked /\ InUnforced /\ InInitialise
---------------------------------------------------------------------------
(* Programs *)

\* Two sequences that together are a third.
LEMMA Joined ==
  ASSUME NEW S, NEW s \in Seq(S), NEW t \in Seq(S), NEW u \in Seq(S),
         Len(u) = Len(s) + Len(t),
         \A k \in 1 .. Len(s) : u[k] = s[k],
         \A k \in 1 .. Len(t) : u[Len(s) + k] = t[k]
  PROVE  s \o t = u
<1>1. /\ s \o t \in Seq(S) /\ Len(s \o t) = Len(u)
      /\ \A k \in 1 .. Len(s) + Len(t) :
           (s \o t)[k] = IF k <= Len(s) THEN s[k] ELSE t[k - Len(s)]
  BY ConcatProperties
<1>2. Len(s) \in Nat /\ Len(t) \in Nat
  BY LenProperties
<1>3. ASSUME NEW k \in 1 .. Len(s \o t) PROVE (s \o t)[k] = u[k]
  <2>1. CASE k <= Len(s)
    BY <1>1, <1>2, <2>1
  <2>2. CASE ~(k <= Len(s))
    <3>1. k - Len(s) \in 1 .. Len(t) /\ Len(s) + (k - Len(s)) = k
      BY <1>1, <1>2, <2>2
    <3> QED
      BY <1>1, <2>2, <3>1
  <2> QED
    BY <2>1, <2>2
<1> QED
  BY <1>1, <1>3, SeqEqual

\* The part of dwt_initialise before the microcode.
Before ==
  <<"PKTSEQ", "AON_WCFG", "AON_CFG0", "SAVE", "RESET_ALL", "FORCE_SYS_XTI", "OTP", "LDOTUNE",
    "OTP">>

\* dwt_initialise is what is written out above.
LEMMA InitialiseText == Initialise(TRUE) = Loading /\ Initialise(FALSE) = NotLoading
<1> DEFINE reset == <<"PKTSEQ", "AON_WCFG", "AON_CFG0", "SAVE", "RESET_ALL">>
           words == <<"FORCE_SYS_XTI", "OTP", "LDOTUNE", "OTP">>
           load == <<"FORCE_LDE", "LDELOAD", "ENABLE_ALL_SEQ", "ONW_LLDE">>
           loaded == <<"PKTSEQ", "AON_WCFG", "AON_CFG0", "SAVE", "RESET_ALL", "FORCE_SYS_XTI",
                       "OTP", "LDOTUNE", "OTP", "FORCE_LDE", "LDELOAD", "ENABLE_ALL_SEQ",
                       "ONW_LLDE">>
           cleared == <<"PKTSEQ", "AON_WCFG", "AON_CFG0", "SAVE", "RESET_ALL", "FORCE_SYS_XTI",
                        "OTP", "LDOTUNE", "OTP", "LDERUN">>
           end == <<"ENABLE_ALL_SEQ", "AON_CFG1", "SYS_CFG">>
<1>1. reset \in Seq(Accesses) /\ words \in Seq(Accesses) /\ load \in Seq(Accesses)
  BY DEF Accesses
<1>2. loaded \in Seq(Accesses) /\ cleared \in Seq(Accesses) /\ end \in Seq(Accesses)
  BY DEF Accesses
<1>3. Before \in Seq(Accesses) /\ Loading \in Seq(Accesses) /\ NotLoading \in Seq(Accesses)
  BY DEF Accesses, Before, Loading, NotLoading
<1>4. <<"LDERUN">> \in Seq(Accesses)
  BY DEF Accesses
<1>5. reset \o words = Before
  <2>1. /\ Len(Before) = Len(reset) + Len(words)
        /\ \A k \in 1 .. Len(reset) : Before[k] = reset[k]
        /\ \A k \in 1 .. Len(words) : Before[Len(reset) + k] = words[k]
    BY DEF Before
  <2> HIDE DEF reset, words
  <2> QED
    BY <1>1, <1>3, <2>1, Joined
<1>6. Before \o load = loaded
  <2>1. /\ Len(loaded) = Len(Before) + Len(load)
        /\ \A k \in 1 .. Len(Before) : loaded[k] = Before[k]
        /\ \A k \in 1 .. Len(load) : loaded[Len(Before) + k] = load[k]
    BY DEF Before
  <2> HIDE DEF load, loaded
  <2> QED
    BY <1>1, <1>2, <1>3, <2>1, Joined
<1>7. Before \o <<"LDERUN">> = cleared
  <2>1. /\ Len(cleared) = Len(Before) + Len(<<"LDERUN">>)
        /\ \A k \in 1 .. Len(Before) : cleared[k] = Before[k]
        /\ \A k \in 1 .. Len(<<"LDERUN">>) : cleared[Len(Before) + k] = <<"LDERUN">>[k]
    BY DEF Before
  <2> HIDE DEF cleared
  <2> QED
    BY <1>2, <1>3, <1>4, <2>1, Joined
<1>8. loaded \o end = Loading
  <2>1. /\ Len(Loading) = Len(loaded) + Len(end)
        /\ \A k \in 1 .. Len(loaded) : Loading[k] = loaded[k]
        /\ \A k \in 1 .. Len(end) : Loading[Len(loaded) + k] = end[k]
    BY DEF Loading
  <2> HIDE DEF loaded, end
  <2> QED
    BY <1>2, <1>3, <2>1, Joined
<1>9. cleared \o end = NotLoading
  <2>1. /\ Len(NotLoading) = Len(cleared) + Len(end)
        /\ \A k \in 1 .. Len(cleared) : NotLoading[k] = cleared[k]
        /\ \A k \in 1 .. Len(end) : NotLoading[Len(cleared) + k] = end[k]
    BY DEF NotLoading
  <2> HIDE DEF cleared, end
  <2> QED
    BY <1>2, <1>3, <2>1, Joined
<1>10. /\ Initialise(TRUE) = reset \o words \o load \o end
       /\ Initialise(FALSE) = reset \o words \o <<"LDERUN">> \o end
  BY Zenon DEF Initialise, dwt_softreset, _dwt_loaducodefromrom
<1> QED
  BY <1>5, <1>6, <1>7, <1>8, <1>9, <1>10, Zenon

\* The next access of a program, when there is one.
LEMMA NextAccess ==
  ASSUME NEW program, program \in Seq(Accesses), IsRestOf(program), todo # <<>>
  PROVE  /\ Done(program) \in Nat /\ Done(program) + 1 \in 1 .. Len(program)
         /\ Head(todo) = program[Done(program) + 1]
<1>1. Len(program) \in Nat /\ Len(todo) \in Nat \ {0} /\ todo \in Seq(Accesses)
  BY LenProperties, EmptySeq DEF IsRestOf
<1>2. Head(todo) = todo[1]
  BY <1>1
<1> QED
  BY <1>1, <1>2 DEF IsRestOf, Done

\* An access later the rest of a program is still its rest.
LEMMA Advance ==
  ASSUME NEW program, program \in Seq(Accesses), IsRestOf(program), todo # <<>>,
         todo' = Tail(todo)
  PROVE  /\ Done(program) \in Nat /\ Done(program) + 1 \in 1 .. Len(program)
         /\ Head(todo) = program[Done(program) + 1]
         /\ IsRestOf(program)' /\ Done(program)' = Done(program) + 1
         /\ Tail(todo) = <<>> <=> Done(program)' = Len(program)
<1>1. Len(program) \in Nat /\ Len(todo) \in Nat \ {0} /\ todo \in Seq(Accesses)
  BY LenProperties, EmptySeq DEF IsRestOf
<1>2. /\ Tail(todo) \in Seq(Accesses) /\ Len(Tail(todo)) = Len(todo) - 1
      /\ \A k \in 1 .. Len(Tail(todo)) : Tail(todo)[k] = todo[k + 1]
  BY <1>1, HeadTailProperties
<1>3. Head(todo) = todo[1]
  BY <1>1
<1>4. ASSUME NEW k \in 1 .. Len(Tail(todo))
      PROVE  Tail(todo)[k] = program[Len(program) - Len(Tail(todo)) + k]
  <2>1. k + 1 \in 1 .. Len(todo) /\ Done(program) + (k + 1) = Len(program) - Len(Tail(todo)) + k
    BY <1>1, <1>2 DEF Done
  <2> QED
    BY <1>2, <2>1 DEF IsRestOf
<1>5. Tail(todo) = <<>> <=> Len(Tail(todo)) = 0
  BY <1>2, EmptySeq
<1> QED
  BY <1>1, <1>2, <1>3, <1>4, <1>5 DEF IsRestOf, Done

\* A program is the rest of itself.
LEMMA Start ==
  ASSUME NEW program \in Seq(Accesses), todo' = program
  PROVE  IsRestOf(program)' /\ Done(program)' = 0
<1>1. Len(program) \in Nat
  BY LenProperties
<1> QED
  BY <1>1 DEF IsRestOf, Done

---------------------------------------------------------------------------
(* Calls that force clocks *)

\* Accesses that leave everything as it is, on a chip that is not to sleep.
Neutral ==
  {"OTP", "OPS", "ACC", "SAR", "CAL", "AON_CFG1", "SLEEP_TIM", "LPOSC_CAL", "AON_CFG0",
   "UPL_CFG"}
SleepCounterCalls == {"dwt_configuresleepcnt", "dwt_calibratesleepcnt"}

\* A call that forces clocks does so once, and gives them back at its end; what
\* it reads it reads in between.
LEMMA ClockedText ==
  ASSUME NEW name \in Clocked, NEW program, program = Program(name)
  PROVE  /\ program \in Seq(Accesses) /\ Forcing(name) \in 1 .. Len(program) - 1
         /\ program[Forcing(name)] = CASE name = "dwt_loadopsettabfromotp" -> "FORCE_LDE"
                                       [] name = "dwt_readaccdata" -> "READ_ACC_ON"
                                       [] OTHER -> "FORCE_SYS_XTI"
         /\ program[Len(program)] =
              IF name = "dwt_readaccdata" THEN "READ_ACC_OFF" ELSE "ENABLE_ALL_SEQ"
         /\ \A k \in 1 .. Len(program) :
              k # Forcing(name) /\ k # Len(program) =>
                /\ program[k] \in Neutral
                /\ program[k] \in {"AON_CFG0", "UPL_CFG"} => name \in SleepCounterCalls
                /\ program[k] \in {"OTP", "SAR"} =>
                     k > Forcing(name) /\ Held(name) = {"XTI"}
<1> USE DEF Accesses, Forcing, Neutral, SleepCounterCalls, Held
<1>1. CASE name = "dwt_otpread"
  BY <1>1 DEF Program, dwt_otpread
<1>2. CASE name = "dwt_loadopsettabfromotp"
  BY <1>2 DEF Program, dwt_loadopsettabfromotp
<1>3. CASE name = "dwt_readaccdata"
  BY <1>3 DEF Program, dwt_readaccdata
<1>4. CASE name = "dwt_readtempvbat"
  BY <1>4 DEF Program, dwt_readtempvbat
<1>5. CASE name = "dwt_configuresleepcnt"
  BY <1>5 DEF Program, dwt_configuresleepcnt
<1>6. CASE name = "dwt_calibratesleepcnt"
  BY <1>6 DEF Program, dwt_calibratesleepcnt
<1> QED
  BY <1>1, <1>2, <1>3, <1>4, <1>5, <1>6 DEF Clocked

\* What a step of a call that forces clocks changes: nothing but the clocks.
LEMMA ClockedStep ==
  ASSUME IInv, Step, doing \in Clocked
  PROVE  /\ UNCHANGED <<asleep, SYS_CFG, LDERUN, microcode, ATXSLP, AON_WCFG, SLEEP_EN, saved,
                        local, ready, calls, resets, asked>>
         /\ IF Tail(todo) = <<>> THEN doing' = "nothing" /\ todo' = <<>> /\ forced' = {}
            ELSE doing' = doing /\ todo' # <<>> /\ InClocked'
<1> PICK program : program = Program(doing)
  OBVIOUS
<1> DEFINE a == Head(todo)
           k == Done(program) + 1
<1>1. /\ IsRestOf(program) /\ todo # <<>> /\ todo' = Tail(todo)
      /\ Access(a) /\ UNCHANGED <<ready, calls, resets, asked>>
      /\ IF Tail(todo) # <<>> THEN doing' = doing ELSE doing' = "nothing"
      /\ forced = IF k <= Forcing(doing) THEN {} ELSE Held(doing)
      /\ doing \in SleepCounterCalls => ~SLEEP_EN
      /\ ~asleep
  <2>1. doing # "nothing" /\ doing # "dwt_initialise"
    BY DEF Clocked
  <2>2. program \in Seq(Accesses) /\ Forcing(doing) \in Nat
    BY ClockedText
  <2>3. IsRestOf(program) /\ todo # <<>> /\ todo' = Tail(todo)
    BY DEF IInv, InClocked, Step
  <2>4. Done(program) \in Nat
    BY <2>2, <2>3, Advance
  <2>5. Done(program) < Forcing(doing) <=> k <= Forcing(doing)
    BY <2>2, <2>4
  <2> QED
    BY <2>1, <2>3, <2>5 DEF IInv, InClocked, CallsAreOrdered, Step, SleepCounterCalls
<1>2. /\ k \in 1 .. Len(program) /\ a = program[k] /\ IsRestOf(program)'
      /\ Done(program)' = k /\ (Tail(todo) = <<>> <=> k = Len(program))
      /\ Len(program) \in Nat
  <2>1. program \in Seq(Accesses)
    BY ClockedText
  <2>2. Len(program) \in Nat
    BY <2>1, LenProperties
  <2> QED
    BY <1>1, <2>1, <2>2, Advance
<1>3. /\ Forcing(doing) \in 1 .. Len(program) - 1
      /\ program[Forcing(doing)] = CASE doing = "dwt_loadopsettabfromotp" -> "FORCE_LDE"
                                     [] doing = "dwt_readaccdata" -> "READ_ACC_ON"
                                     [] OTHER -> "FORCE_SYS_XTI"
      /\ program[Len(program)] =
           IF doing = "dwt_readaccdata" THEN "READ_ACC_OFF" ELSE "ENABLE_ALL_SEQ"
      /\ k # Forcing(doing) /\ k # Len(program) =>
           /\ program[k] \in Neutral
           /\ program[k] \in {"AON_CFG0", "UPL_CFG"} => doing \in SleepCounterCalls
  BY <1>2, ClockedText
<1> HIDE DEF a, k
<1>4. CASE k = Forcing(doing)
  <2>1. /\ UNCHANGED <<asleep, SYS_CFG, LDERUN, microcode, ATXSLP, AON_WCFG, SLEEP_EN, saved,
                       local>>
        /\ forced' = Held(doing)
    <3>1. forced = {}
      BY <1>1, <1>2, <1>3, <1>4
    <3>2. CASE doing = "dwt_loadopsettabfromotp"
      BY <1>1, <1>2, <1>3, <1>4, <3>1, <3>2 DEF Access, _dwt_enableclocks, Held
    <3>3. CASE doing = "dwt_readaccdata"
      BY <1>1, <1>2, <1>3, <1>4, <3>1, <3>3 DEF Access, _dwt_enableclocks, Held
    <3>4. CASE doing \notin {"dwt_loadopsettabfromotp", "dwt_readaccdata"}
      BY <1>1, <1>2, <1>3, <1>4, <3>1, <3>4 DEF Access, _dwt_enableclocks, Held
    <3> QED
      BY <3>2, <3>3, <3>4
  <2>2. Tail(todo) # <<>>
    BY <1>2, <1>3, <1>4
  <2> QED
    BY <1>1, <1>2, <1>3, <1>4, <2>1, <2>2 DEF InClocked, SleepCounterCalls
<1>5. CASE k = Len(program)
  <2>1. forced = Held(doing)
    BY <1>1, <1>2, <1>3, <1>5
  <2>2. /\ UNCHANGED <<asleep, SYS_CFG, LDERUN, microcode, ATXSLP, AON_WCFG, SLEEP_EN, saved,
                       local>>
        /\ forced' = {}
    <3>1. CASE doing = "dwt_readaccdata"
      BY <1>1, <1>2, <1>3, <1>5, <2>1, <3>1 DEF Access, _dwt_enableclocks, Held
    <3>2. CASE doing # "dwt_readaccdata"
      BY <1>1, <1>2, <1>3, <1>5, <2>1, <3>2 DEF Access, _dwt_enableclocks, Held
    <3> QED
      BY <3>1, <3>2
  <2> QED
    BY <1>1, <1>2, <1>5, <2>2
<1>6. CASE k # Forcing(doing) /\ k # Len(program)
  <2>1. a \in Neutral /\ (a \in {"AON_CFG0", "UPL_CFG"} => ~SLEEP_EN)
    BY <1>1, <1>2, <1>3, <1>6
  <2>2. SLEEP_EN \in BOOLEAN /\ asleep \in BOOLEAN
    BY DEF IInv, TypeOK
  <2>3. UNCHANGED <<chip, local>>
    <3>1. CASE a = "AON_CFG0"
      BY <1>1, <2>1, <2>2, <3>1 DEF Access, Clear, chip
    <3>2. CASE a = "UPL_CFG"
      BY <1>1, <2>1, <2>2, <3>2 DEF Access, _dwt_aonconfigupload, chip
    <3>3. CASE a \notin {"AON_CFG0", "UPL_CFG"}
      BY <1>1, <2>1, <3>3 DEF Access, Neutral, Other
    <3> QED
      BY <3>1, <3>2, <3>3
  <2>4. UNCHANGED <<asleep, SYS_CFG, forced, LDERUN, microcode, ATXSLP, AON_WCFG, SLEEP_EN,
                    saved, local>>
    BY <2>3 DEF chip
  <2>5. Tail(todo) # <<>>
    BY <1>2, <1>6
  <2>6. forced = IF k < Forcing(doing) THEN {} ELSE Held(doing)
    BY <1>1, <1>2, <1>3, <1>6
  <2> QED
    BY <1>1, <1>2, <1>3, <1>6, <2>4, <2>5, <2>6 DEF InClocked, SleepCounterCalls
<1> QED
  BY <1>4, <1>5, <1>6

---------------------------------------------------------------------------
(* dwt_initialise *)

\* What an access does not change.
LEMMA AccessKeeps ==
  ASSUME NEW a \in Accesses, Access(a)
  PROVE  /\ UNCHANGED <<dblbuffon, longFrames>>
         /\ a \notin {"SAVE", "UPL_CFG"} => asleep' = asleep
         /\ a \notin {"AON_WCFG"} => AON_WCFG' = AON_WCFG
         /\ a \notin {"AON_CFG0"} => SLEEP_EN' = SLEEP_EN
         /\ a \notin {"RESET_ALL"} => SYS_CFG' = SYS_CFG
         /\ a \notin {"RESET_ALL", "LDERUN"} => LDERUN' = LDERUN
         /\ a \notin {"RESET_ALL", "LDELOAD"} => microcode' = microcode
         /\ a \notin {"LDOTUNE", "ONW_LLDE"} => sleep_mode' = sleep_mode
         /\ a \notin {"ENABLE_ALL_SEQ", "FORCE_SYS_XTI", "READ_ACC_ON", "READ_ACC_OFF", "FORCE_LDE",
                      "PKTSEQ", "RESET_ALL"} => forced' = forced
<1> USE DEF local, chip
<1>1. CASE a \in {"ENABLE_ALL_SEQ", "FORCE_SYS_XTI", "READ_ACC_ON", "READ_ACC_OFF", "FORCE_LDE"}
  BY <1>1 DEF Access, _dwt_enableclocks
<1>2. CASE a = "PKTSEQ"
  BY <1>2 DEF Access, _dwt_disablesequencing
<1>3. CASE a \in {"AON_WCFG", "AON_CFG0"}
  BY <1>3 DEF Access, Clear
<1>4. CASE a = "SAVE"
  BY <1>4 DEF Access, _dwt_aonarrayupload
<1>5. CASE a = "UPL_CFG"
  BY <1>5 DEF Access, _dwt_aonconfigupload
<1>6. CASE a = "RESET_ALL"
  BY <1>6 DEF Access, ResetAll, Download
<1>7. CASE a = "LDOTUNE"
  BY <1>7 DEF Access, LdoTune
<1>8. CASE a = "LDELOAD"
  BY <1>8 DEF Access, LdeLoad
<1>9. CASE a = "ONW_LLDE"
  BY <1>9 DEF Access, LoadAtWakeUp
<1>10. CASE a = "LDERUN"
  BY <1>10 DEF Access, ClearLDERUN
<1>11. CASE a = "SYS_CFG"
  BY <1>11 DEF Access, ReadSysCfg
<1>12. CASE a \in {"OTP", "OPS", "ACC", "SAR", "SAR_PLL", "CAL", "AON_CFG1", "SLEEP_TIM",
                    "LPOSC_CAL"}
  BY <1>12 DEF Access, Other
<1> QED
  BY <1>1, <1>2, <1>3, <1>4, <1>5, <1>6, <1>7, <1>8, <1>9, <1>10, <1>11, <1>12 DEF Accesses

\* And what it does change.
LEMMA AccessDoes ==
  ASSUME NEW a \in Accesses, Access(a)
  PROVE  /\ a = "ENABLE_ALL_SEQ" => forced' = forced \cap {"AMCE", "PKTSEQ"}
         /\ a = "FORCE_SYS_XTI" => forced' = forced \cup {"XTI"}
         /\ a = "FORCE_LDE" => forced' = (forced \cap {"PKTSEQ"}) \cup {"XTI", "LDE"}
         /\ a = "AON_WCFG" => AON_WCFG' = {}
         /\ a = "AON_CFG0" => SLEEP_EN' = FALSE
         /\ a \in {"SAVE", "UPL_CFG"} => asleep' = SLEEP_EN
         /\ a = "SAVE" => saved' = SYS_CFG
         /\ a = "RESET_ALL" => Download
         /\ a = "LDELOAD" => microcode' = ("LDE" \in forced)
         /\ a = "LDOTUNE" => sleep_mode \subseteq sleep_mode'
         /\ a = "ONW_LLDE" => "LLDE" \in sleep_mode'
         /\ a = "LDERUN" => LDERUN' = FALSE
         /\ a = "SYS_CFG" => sysCFGreg' = SYS_CFG
<1>1. CASE a \in {"ENABLE_ALL_SEQ", "FORCE_SYS_XTI", "FORCE_LDE"}
  BY <1>1 DEF Access, _dwt_enableclocks
<1>2. CASE a \in {"AON_WCFG", "AON_CFG0"}
  BY <1>2 DEF Access, Clear
<1>3. CASE a \in {"SAVE", "UPL_CFG"}
  BY <1>3 DEF Access, _dwt_aonarrayupload, _dwt_aonconfigupload
<1>4. CASE a = "RESET_ALL"
  BY <1>4 DEF Access, ResetAll
<1>5. CASE a \in {"LDELOAD", "LDERUN", "SYS_CFG"}
  BY <1>5 DEF Access, LdeLoad, ClearLDERUN, ReadSysCfg
<1>6. CASE a \in {"LDOTUNE", "ONW_LLDE"}
  BY <1>6 DEF Access, LdoTune, LoadAtWakeUp
<1> QED
  BY <1>1, <1>2, <1>3, <1>4, <1>5, <1>6

\* No access leaves the types.
LEMMA AccessTypes ==
  ASSUME TypeOK, NEW a \in Accesses, Access(a)
  PROVE  /\ (asleep \in BOOLEAN /\ LDERUN \in BOOLEAN /\ microcode \in BOOLEAN)'
         /\ (ATXSLP \in BOOLEAN /\ SLEEP_EN \in BOOLEAN)'
         /\ (SYS_CFG \subseteq Options /\ saved \subseteq Options /\ sysCFGreg \subseteq Options)'
         /\ (forced \subseteq Clocks /\ AON_WCFG \subseteq WakeUps /\ sleep_mode \subseteq WakeUps)'
         /\ (dblbuffon \in BOOLEAN /\ longFrames \in BOOLEAN)'
<1> DEFINE Typed ==
      /\ asleep \in BOOLEAN /\ LDERUN \in BOOLEAN /\ microcode \in BOOLEAN
      /\ ATXSLP \in BOOLEAN /\ SLEEP_EN \in BOOLEAN
      /\ SYS_CFG \subseteq Options /\ saved \subseteq Options /\ sysCFGreg \subseteq Options
      /\ forced \subseteq Clocks /\ AON_WCFG \subseteq WakeUps /\ sleep_mode \subseteq WakeUps
      /\ dblbuffon \in BOOLEAN /\ longFrames \in BOOLEAN
<1> SUFFICES Typed'
  OBVIOUS
<1>0. Typed
  BY DEF TypeOK
<1> USE DEF local, chip
<1>1. CASE a \in {"ENABLE_ALL_SEQ", "FORCE_SYS_XTI", "READ_ACC_ON", "READ_ACC_OFF", "FORCE_LDE"}
  <2>1. _dwt_enableclocks(a)
    BY <1>1 DEF Access
  <2>2. forced' \in {forced \cap {"AMCE", "PKTSEQ"}, forced \cup {"XTI"},
                     forced \cup {"FACE", "AMCE"}, forced \ {"FACE", "AMCE"},
                     (forced \cap {"PKTSEQ"}) \cup {"XTI", "LDE"}}
    BY <1>1, <2>1 DEF _dwt_enableclocks
  <2>3. forced' \subseteq Clocks
    BY <1>0, <2>2 DEF Clocks
  <2> QED
    BY <1>0, <2>1, <2>3 DEF _dwt_enableclocks
<1>2. CASE a = "PKTSEQ"
  BY <1>0, <1>2 DEF Access, _dwt_disablesequencing, Clocks
<1>3. CASE a \in {"AON_WCFG", "AON_CFG0"}
  BY ZenonT(40), <1>0, <1>3 DEF Access, Clear
<1>4. CASE a = "SAVE"
  BY <1>0, <1>4 DEF Access, _dwt_aonarrayupload
<1>5. CASE a = "UPL_CFG"
  BY <1>0, <1>5 DEF Access, _dwt_aonconfigupload
<1>6. CASE a = "RESET_ALL"
  BY <1>0, <1>6 DEF Access, ResetAll, Download, AfterReset, Options
<1>7. CASE a = "LDOTUNE"
  BY <1>0, <1>7 DEF Access, LdoTune, WakeUps
<1>8. CASE a = "LDELOAD"
  BY <1>0, <1>8 DEF Access, LdeLoad
<1>9. CASE a = "ONW_LLDE"
  BY <1>0, <1>9 DEF Access, LoadAtWakeUp, WakeUps
<1>10. CASE a = "LDERUN"
  BY <1>0, <1>10 DEF Access, ClearLDERUN
<1>11. CASE a = "SYS_CFG"
  BY <1>0, <1>11 DEF Access, ReadSysCfg
<1>12. CASE a \in {"OTP", "OPS", "ACC", "SAR", "SAR_PLL", "CAL", "AON_CFG1", "SLEEP_TIM",
                    "LPOSC_CAL"}
  <2>1. Other
    BY <1>12 DEF Access
  <2>2. UNCHANGED <<asleep, SYS_CFG, forced, LDERUN, microcode, ATXSLP, AON_WCFG, SLEEP_EN, saved,
                    sysCFGreg, dblbuffon, longFrames, sleep_mode>>
    BY <2>1 DEF Other
  <2> QED
    BY <1>0, <2>2
<1>13. \/ a \in {"ENABLE_ALL_SEQ", "FORCE_SYS_XTI", "READ_ACC_ON", "READ_ACC_OFF", "FORCE_LDE"}
       \/ a = "PKTSEQ" \/ a \in {"AON_WCFG", "AON_CFG0"} \/ a = "SAVE" \/ a = "UPL_CFG"
       \/ a = "RESET_ALL" \/ a = "LDOTUNE" \/ a = "LDELOAD" \/ a = "ONW_LLDE"
       \/ a = "LDERUN" \/ a = "SYS_CFG"
       \/ a \in {"OTP", "OPS", "ACC", "SAR", "SAR_PLL", "CAL", "AON_CFG1", "SLEEP_TIM",
                    "LPOSC_CAL"}
  BY DEF Accesses
<1> QED
  BY <1>1, <1>2, <1>3, <1>4, <1>5, <1>6, <1>7, <1>8, <1>9, <1>10, <1>11, <1>12, <1>13

\* The two programs, access by access.
LEMMA InitialiseShape ==
  /\ Loading \in Seq(Accesses) /\ NotLoading \in Seq(Accesses)
  /\ Len(Loading) = 16 /\ Len(NotLoading) = 13
  /\ \A program \in {Loading, NotLoading} :
       /\ program[1] = "PKTSEQ" /\ program[2] = "AON_WCFG" /\ program[3] = "AON_CFG0"
       /\ program[4] = "SAVE" /\ program[5] = "RESET_ALL" /\ program[6] = "FORCE_SYS_XTI"
       /\ program[7] = "OTP" /\ program[8] = "LDOTUNE" /\ program[9] = "OTP"
       /\ Len(program) > 9
  /\ /\ Loading[10] = "FORCE_LDE" /\ Loading[11] = "LDELOAD" /\ Loading[12] = "ENABLE_ALL_SEQ"
     /\ Loading[13] = "ONW_LLDE" /\ Loading[14] = "ENABLE_ALL_SEQ"
     /\ Loading[15] = "AON_CFG1" /\ Loading[16] = "SYS_CFG"
  /\ /\ NotLoading[10] = "LDERUN" /\ NotLoading[11] = "ENABLE_ALL_SEQ"
     /\ NotLoading[12] = "AON_CFG1" /\ NotLoading[13] = "SYS_CFG"
<1>1. Loading \in Seq(Accesses)
  BY DEF Loading, Accesses
<1>2. NotLoading \in Seq(Accesses)
  BY DEF NotLoading, Accesses
<1>3. Len(Loading) = 16 /\ Len(NotLoading) = 13
  BY DEF Loading, NotLoading
<1>4. ASSUME NEW program \in {Loading, NotLoading}
      PROVE  /\ program[1] = "PKTSEQ" /\ program[2] = "AON_WCFG" /\ program[3] = "AON_CFG0"
             /\ program[4] = "SAVE" /\ program[5] = "RESET_ALL" /\ program[6] = "FORCE_SYS_XTI"
             /\ program[7] = "OTP" /\ program[8] = "LDOTUNE" /\ program[9] = "OTP"
             /\ Len(program) > 9
  <2>1. CASE program = Loading
    BY <2>1 DEF Loading
  <2>2. CASE program = NotLoading
    BY <2>2 DEF NotLoading
  <2> QED
    BY <2>1, <2>2
<1> QED
  BY <1>1, <1>2, <1>3, <1>4 DEF Loading, NotLoading

\* What every step of dwt_initialise does, and its next access is.
LEMMA InitialiseGoesOn ==
  ASSUME IInv, Step, doing = "dwt_initialise",
         NEW program \in {Loading, NotLoading}, IsRestOf(program)
  PROVE  /\ Done(program) \in Nat /\ Done(program) < Len(program)
         /\ Head(todo) = program[Done(program) + 1] /\ Head(todo) \in Accesses
         /\ Access(Head(todo))
         /\ IsRestOf(program)' /\ Done(program)' = Done(program) + 1
         /\ Tail(todo) = <<>> <=> Done(program)' = Len(program)
         /\ asleep \in BOOLEAN /\ asleep = FALSE
<1>1. program \in Seq(Accesses)
  BY InitialiseShape
<1>2. todo # <<>> /\ todo' = Tail(todo) /\ Access(Head(todo))
  BY DEF Step
<1>3. asleep \in BOOLEAN /\ asleep = FALSE
  BY DEF IInv, CallsAreOrdered, TypeOK
<1>4. Head(todo) \in Accesses
  BY <1>2, HeadTailProperties DEF IsRestOf
<1>5. Len(program) \in Nat
  BY <1>1, LenProperties
<1> QED
  BY <1>1, <1>2, <1>3, <1>4, <1>5, Advance

\* The accesses up to the microcode: the chip is reset with nothing to load.
LEMMA BeforeStep ==
  ASSUME IInv, Step, doing = "dwt_initialise",
         NEW program \in {Loading, NotLoading}, Initialising(program), Done(program) < 9
  PROVE  /\ Initialising(program)' /\ Done(program)' \in 1 .. 9
         /\ Tail(todo) # <<>> /\ asleep' = FALSE
<1>1. /\ IsRestOf(program)' /\ Done(program)' = Done(program) + 1
      /\ Tail(todo) = <<>> <=> Done(program)' = Len(program)
      /\ Head(todo) = program[Done(program) + 1] /\ Head(todo) \in Accesses
      /\ Access(Head(todo)) /\ asleep = FALSE /\ Done(program) \in Nat
  BY InitialiseGoesOn DEF Initialising
<1>2. /\ Done(program) >= 2 => AON_WCFG = {}
      /\ Done(program) >= 3 => SLEEP_EN = FALSE
      /\ Done(program) >= 5 => SYS_CFG = AfterReset
      /\ Done(program) = 5 => forced = {}
      /\ Done(program) \in 6 .. 9 => forced = {"XTI"}
  <2>1. SLEEP_EN \in BOOLEAN
    BY DEF IInv, TypeOK
  <2> QED
    BY <2>1 DEF Initialising
<1>3. Len(program) > 9
  BY InitialiseShape
<1> DEFINE Goal ==
      /\ asleep' = FALSE
      /\ Done(program) >= 1 => AON_WCFG' = {}
      /\ Done(program) >= 2 => ~SLEEP_EN'
      /\ Done(program) >= 4 => SYS_CFG' = AfterReset
      /\ Done(program) = 4 => forced' = {}
      /\ Done(program) \in 5 .. 8 => forced' = {"XTI"}
<1> SUFFICES Goal
  <2>1. Done(program)' \in 1 .. 9
    BY <1>1
  <2>2. Tail(todo) # <<>>
    BY <1>1, <1>3, <2>1
  <2>3. Initialising(program)'
    BY <1>1 DEF Initialising
  <2> QED
    BY <2>1, <2>2, <2>3
<1>4. CASE Done(program) = 0
  <2>1. Head(todo) = "PKTSEQ"
    BY <1>1, <1>4, InitialiseShape
  <2> QED
    BY <1>1, <1>4, <2>1, AccessKeeps
<1>5. CASE Done(program) = 1
  <2>1. Head(todo) = "AON_WCFG"
    BY <1>1, <1>5, InitialiseShape
  <2>2. AON_WCFG' = {}
    BY <1>1, <2>1, AccessDoes
  <2>3. asleep' = FALSE
    BY <1>1, <2>1, AccessKeeps
  <2> QED
    BY <1>1, <1>5, <2>2, <2>3
<1>6. CASE Done(program) = 2
  <2>1. Head(todo) = "AON_CFG0"
    BY <1>1, <1>6, InitialiseShape
  <2>2. SLEEP_EN' = FALSE
    BY <1>1, <2>1, AccessDoes
  <2>3. asleep' = FALSE /\ AON_WCFG' = AON_WCFG
    BY <1>1, <2>1, AccessKeeps
  <2> QED
    BY <1>1, <1>2, <1>6, <2>2, <2>3
<1>7. CASE Done(program) = 3
  <2>1. Head(todo) = "SAVE"
    BY <1>1, <1>7, InitialiseShape
  <2>2. asleep' = SLEEP_EN
    BY <1>1, <2>1, AccessDoes
  <2>3. AON_WCFG' = AON_WCFG /\ SLEEP_EN' = SLEEP_EN
    BY <1>1, <2>1, AccessKeeps
  <2> QED
    BY <1>1, <1>2, <1>7, <2>2, <2>3
<1>8. CASE Done(program) = 4
  <2>1. Head(todo) = "RESET_ALL"
    BY <1>1, <1>8, InitialiseShape
  <2>2. Download
    BY <1>1, <2>1, AccessDoes
  <2>3. AON_WCFG' = {} /\ SLEEP_EN' = FALSE /\ asleep' = FALSE
    BY <1>1, <1>2, <1>8, <2>1, AccessKeeps
  <2> QED
    BY <1>2, <1>8, <2>2, <2>3 DEF Download
<1>9. CASE Done(program) = 5
  <2>1. Head(todo) = "FORCE_SYS_XTI"
    BY <1>1, <1>9, InitialiseShape
  <2>2. forced' = forced \cup {"XTI"}
    BY <1>1, <2>1, AccessDoes
  <2> QED
    BY <1>1, <1>2, <1>9, <2>1, <2>2, AccessKeeps
<1>10. CASE Done(program) \in 6 .. 8
  <2>1. Head(todo) \in {"OTP", "LDOTUNE"}
    <3>1. Done(program) + 1 \in {7, 8, 9}
      BY <1>1, <1>10
    <3>2. program[7] = "OTP" /\ program[8] = "LDOTUNE" /\ program[9] = "OTP"
      BY InitialiseShape
    <3> QED
      BY <1>1, <3>1, <3>2
  <2>2. /\ asleep' = asleep /\ AON_WCFG' = AON_WCFG /\ SLEEP_EN' = SLEEP_EN
        /\ SYS_CFG' = SYS_CFG /\ forced' = forced
    BY <1>1, <2>1, AccessKeeps
  <2> QED
    BY <1>1, <1>2, <1>10, <2>2
<1>11. Done(program) \in {0, 1, 2, 3, 4, 5} \/ Done(program) \in 6 .. 8
  BY <1>1
<1> QED
  BY <1>4, <1>5, <1>6, <1>7, <1>8, <1>9, <1>10, <1>11

\* The rest of dwt_initialise when it loads the microcode: the clocks for the
\* load, the load, and the clocks back.
LEMMA LoadStep ==
  ASSUME IInv, Step, doing = "dwt_initialise", WithMicrocode, Done(Loading) >= 9
  PROVE  WithMicrocode' /\ asleep' = FALSE /\ (Tail(todo) = <<>> => sysCFGreg' = AfterReset)
<1>1. /\ IsRestOf(Loading)' /\ Done(Loading)' = Done(Loading) + 1
      /\ Tail(todo) = <<>> <=> Done(Loading)' = Len(Loading)
      /\ Head(todo) = Loading[Done(Loading) + 1] /\ Head(todo) \in Accesses
      /\ Access(Head(todo)) /\ asleep = FALSE
  BY InitialiseGoesOn DEF WithMicrocode, Initialising
<1>2. Done(Loading) \in {9, 10, 11, 12} \/ Done(Loading) \in 13 .. 15
  <2>1. Done(Loading) \in Nat /\ Done(Loading) < Len(Loading)
    BY InitialiseGoesOn DEF WithMicrocode, Initialising
  <2>2. Len(Loading) = 16
    BY InitialiseShape
  <2> QED
    BY <2>1, <2>2
<1>3. /\ AON_WCFG = {} /\ ~SLEEP_EN /\ SYS_CFG = AfterReset
      /\ Done(Loading) = 9 => forced = {"XTI"}
      /\ Done(Loading) \in 10 .. 11 => forced = {"XTI", "LDE"}
      /\ Done(Loading) \in 11 .. 16 => microcode
      /\ Done(Loading) \in 12 .. 16 => forced = {}
      /\ Done(Loading) \in 13 .. 16 => "LLDE" \in sleep_mode
  BY <1>2 DEF WithMicrocode, Initialising
<1>4. Head(todo) \notin {"SAVE", "UPL_CFG", "AON_WCFG", "AON_CFG0", "RESET_ALL", "LDERUN"}
  <2>1. Done(Loading) + 1 \in {10, 11, 12, 13, 14, 15, 16}
    BY <1>2
  <2>2. /\ Loading[10] = "FORCE_LDE" /\ Loading[11] = "LDELOAD" /\ Loading[12] = "ENABLE_ALL_SEQ"
        /\ Loading[13] = "ONW_LLDE" /\ Loading[14] = "ENABLE_ALL_SEQ"
        /\ Loading[15] = "AON_CFG1" /\ Loading[16] = "SYS_CFG"
    BY InitialiseShape
  <2> QED
    BY <1>1, <2>1, <2>2
<1>5. /\ asleep' = FALSE /\ AON_WCFG' = AON_WCFG /\ SLEEP_EN' = SLEEP_EN
      /\ SYS_CFG' = SYS_CFG
  BY <1>1, <1>4, AccessKeeps
<1> DEFINE Goal ==
      /\ Done(Loading) \in 9 .. 10 => forced' = {"XTI", "LDE"}
      /\ Done(Loading) \in 10 .. 15 => microcode'
      /\ Done(Loading) \in 11 .. 15 => forced' = {}
      /\ Done(Loading) \in 12 .. 15 => "LLDE" \in sleep_mode'
      /\ Done(Loading) = 15 => sysCFGreg' = AfterReset
<1> SUFFICES Goal
  <2>1. Len(Loading) = 16
    BY InitialiseShape
  <2>2. Done(Loading) \in 9 .. 15 /\ Done(Loading)' \in 10 .. 16
    BY <1>1, <1>2
  <2>3. Initialising(Loading)'
    BY <1>1, <1>3, <1>5, <2>2 DEF Initialising
  <2>4. Done(Loading)' \in 10 .. 11 => Done(Loading) \in 9 .. 10
    BY <1>1, <2>2
  <2>5. Done(Loading)' \in 11 .. 16 => Done(Loading) \in 10 .. 15
    BY <1>1, <2>2
  <2>6. Done(Loading)' \in 12 .. 16 => Done(Loading) \in 11 .. 15
    BY <1>1, <2>2
  <2>7. Done(Loading)' \in 13 .. 16 => Done(Loading) \in 12 .. 15
    BY <1>1, <2>2
  <2>8. Done(Loading)' = 16 => Done(Loading) = 15
    BY <1>1, <2>2
  <2>9. Goal => WithMicrocode'
    BY <2>3, <2>4, <2>5, <2>6, <2>7 DEF WithMicrocode
  <2> QED
    BY <1>1, <1>5, <2>1, <2>8, <2>9
<1>6. CASE Done(Loading) = 9
  <2>1. Head(todo) = "FORCE_LDE"
    BY <1>1, <1>6, InitialiseShape
  <2>2. forced' = (forced \cap {"PKTSEQ"}) \cup {"XTI", "LDE"}
    BY <1>1, <2>1, AccessDoes
  <2> QED
    BY <1>3, <1>6, <2>2
<1>7. CASE Done(Loading) = 10
  <2>1. Head(todo) = "LDELOAD"
    BY <1>1, <1>7, InitialiseShape
  <2>2. microcode' = ("LDE" \in forced)
    BY <1>1, <2>1, AccessDoes
  <2>3. forced' = forced
    BY <1>1, <2>1, AccessKeeps
  <2>4. forced = {"XTI", "LDE"}
    BY <1>3, <1>7
  <2>5. microcode'
    BY <2>2, <2>4
  <2> QED
    BY <1>7, <2>3, <2>4, <2>5
<1>8. CASE Done(Loading) = 11
  <2>1. Head(todo) = "ENABLE_ALL_SEQ"
    BY <1>1, <1>8, InitialiseShape
  <2>2. forced' = forced \cap {"AMCE", "PKTSEQ"}
    BY <1>1, <2>1, AccessDoes
  <2>3. microcode' = microcode
    BY <1>1, <2>1, AccessKeeps
  <2> QED
    BY <1>3, <1>8, <2>2, <2>3
<1>9. CASE Done(Loading) = 12
  <2>1. Head(todo) = "ONW_LLDE"
    BY <1>1, <1>9, InitialiseShape
  <2>2. "LLDE" \in sleep_mode'
    BY <1>1, <2>1, AccessDoes
  <2>3. microcode' = microcode /\ forced' = forced
    BY <1>1, <2>1, AccessKeeps
  <2> QED
    BY <1>3, <1>9, <2>2, <2>3
<1>10. CASE Done(Loading) \in 13 .. 15
  <2>1. Head(todo) \in {"ENABLE_ALL_SEQ", "AON_CFG1", "SYS_CFG"}
    BY SMTT(30), <1>1, <1>10, InitialiseShape
  <2>2. microcode' = microcode /\ sleep_mode' = sleep_mode
    BY <1>1, <2>1, AccessKeeps
  <2>3. forced' = {}
    <3>1. CASE Head(todo) = "ENABLE_ALL_SEQ"
      <4>1. forced' = forced \cap {"AMCE", "PKTSEQ"}
        BY <1>1, <3>1, AccessDoes
      <4> QED
        BY <1>3, <1>10, <4>1
    <3>2. CASE Head(todo) \in {"AON_CFG1", "SYS_CFG"}
      BY <1>1, <1>3, <1>10, <3>2, AccessKeeps
    <3> QED
      BY <2>1, <3>1, <3>2
  <2>4. ASSUME Done(Loading) = 15 PROVE sysCFGreg' = SYS_CFG
    <3>1. Head(todo) = "SYS_CFG"
      BY <1>1, <2>4, InitialiseShape
    <3> QED
      BY <1>1, <3>1, AccessDoes
  <2> QED
    BY <1>3, <1>10, <2>2, <2>3, <2>4
<1> QED
  BY <1>2, <1>6, <1>7, <1>8, <1>9, <1>10

\* And when it does not: the receiver is told to run without it.
LEMMA NoLoadStep ==
  ASSUME IInv, Step, doing = "dwt_initialise", WithoutMicrocode, Done(NotLoading) >= 9
  PROVE  /\ WithoutMicrocode' /\ asleep' = FALSE
         /\ Tail(todo) = <<>> => sysCFGreg' = AfterReset
<1>1. /\ IsRestOf(NotLoading)' /\ Done(NotLoading)' = Done(NotLoading) + 1
      /\ Tail(todo) = <<>> <=> Done(NotLoading)' = Len(NotLoading)
      /\ Head(todo) = NotLoading[Done(NotLoading) + 1] /\ Head(todo) \in Accesses
      /\ Access(Head(todo)) /\ asleep = FALSE
  BY InitialiseGoesOn DEF WithoutMicrocode, Initialising
<1>2. Done(NotLoading) \in {9, 10, 11, 12}
  <2>1. Done(NotLoading) \in Nat /\ Done(NotLoading) < Len(NotLoading)
    BY InitialiseGoesOn DEF WithoutMicrocode, Initialising
  <2>2. Len(NotLoading) = 13
    BY InitialiseShape
  <2> QED
    BY <2>1, <2>2
<1>3. /\ AON_WCFG = {} /\ ~SLEEP_EN /\ SYS_CFG = AfterReset
      /\ Done(NotLoading) \in {9, 10} => forced = {"XTI"}
      /\ Done(NotLoading) \in 10 .. 12 => LDERUN = FALSE
      /\ Done(NotLoading) \in 11 .. 12 => forced = {}
  BY <1>2 DEF WithoutMicrocode, Initialising
<1>4. Head(todo) \notin {"SAVE", "UPL_CFG", "AON_WCFG", "AON_CFG0", "RESET_ALL"}
  <2>1. Done(NotLoading) + 1 \in {10, 11, 12, 13}
    BY <1>2
  <2>2. /\ NotLoading[10] = "LDERUN" /\ NotLoading[11] = "ENABLE_ALL_SEQ"
        /\ NotLoading[12] = "AON_CFG1" /\ NotLoading[13] = "SYS_CFG"
    BY InitialiseShape
  <2> QED
    BY <1>1, <2>1, <2>2
<1>5. /\ asleep' = FALSE /\ AON_WCFG' = AON_WCFG /\ SLEEP_EN' = SLEEP_EN
      /\ SYS_CFG' = SYS_CFG
  BY <1>1, <1>4, AccessKeeps
<1> DEFINE Goal ==
      /\ Done(NotLoading) = 9 => forced' = {"XTI"}
      /\ LDERUN' = FALSE
      /\ Done(NotLoading) >= 10 => forced' = {}
      /\ Done(NotLoading) = 12 => sysCFGreg' = AfterReset
<1> SUFFICES Goal
  BY SMTT(30), <1>1, <1>2, <1>3, <1>5, InitialiseShape DEF WithoutMicrocode, Initialising
<1>6. CASE Done(NotLoading) = 9
  <2>1. Head(todo) = "LDERUN"
    BY <1>1, <1>6, InitialiseShape
  <2>2. LDERUN' = FALSE
    BY <1>1, <2>1, AccessDoes
  <2>3. forced' = forced
    BY <1>1, <2>1, AccessKeeps
  <2> QED
    BY <1>3, <1>6, <2>2, <2>3
<1>7. CASE Done(NotLoading) = 10
  <2>1. Head(todo) = "ENABLE_ALL_SEQ"
    BY <1>1, <1>7, InitialiseShape
  <2>2. forced' = forced \cap {"AMCE", "PKTSEQ"}
    BY <1>1, <2>1, AccessDoes
  <2>3. LDERUN' = LDERUN
    BY <1>1, <2>1, AccessKeeps
  <2> QED
    BY <1>3, <1>7, <2>2, <2>3
<1>8. CASE Done(NotLoading) \in {11, 12}
  <2>1. Head(todo) \in {"AON_CFG1", "SYS_CFG"}
    BY <1>1, <1>8, InitialiseShape
  <2>2. LDERUN' = LDERUN /\ forced' = forced
    BY <1>1, <2>1, AccessKeeps
  <2>3. ASSUME Done(NotLoading) = 12 PROVE sysCFGreg' = SYS_CFG
    <3>1. Head(todo) = "SYS_CFG"
      BY <1>1, <2>3, InitialiseShape
    <3> QED
      BY <1>1, <3>1, AccessDoes
  <2> QED
    BY <1>3, <1>8, <2>2, <2>3
<1> QED
  BY <1>2, <1>6, <1>7, <1>8

\* What a step of dwt_initialise has achieved, whether it loads the microcode or
\* not: the chip never sleeps, and at the end the driver has read the register.
LEMMA InitialiseStep ==
  ASSUME IInv, Step, doing = "dwt_initialise"
  PROVE  \/ /\ WithMicrocode' /\ asleep' = FALSE
            /\ Tail(todo) = <<>> => sysCFGreg' = AfterReset /\ Done(Loading)' = 16
         \/ /\ WithoutMicrocode' /\ asleep' = FALSE
            /\ Tail(todo) = <<>> => sysCFGreg' = AfterReset /\ Done(NotLoading)' = 13
<1>1. CASE WithMicrocode
  <2>1. Initialising(Loading) /\ IsRestOf(Loading)
    BY <1>1 DEF WithMicrocode, Initialising
  <2>2. /\ Done(Loading) \in Nat /\ Done(Loading)' = Done(Loading) + 1
        /\ Tail(todo) = <<>> <=> Done(Loading)' = 16
    BY <2>1, InitialiseGoesOn, InitialiseShape
  <2>3. CASE Done(Loading) >= 9
    BY <1>1, <2>2, <2>3, LoadStep
  <2>4. CASE Done(Loading) < 9
    <3>1. Loading \in {Loading, NotLoading}
      OBVIOUS
    <3>2. /\ Initialising(Loading)' /\ Done(Loading)' \in 1 .. 9
          /\ Tail(todo) # <<>> /\ asleep' = FALSE
      BY <2>1, <2>4, <3>1, BeforeStep
    <3>3. WithMicrocode'
      BY <3>2 DEF WithMicrocode
    <3> QED
      BY <3>2, <3>3
  <2>5. Done(Loading) >= 9 \/ Done(Loading) < 9
    BY <2>2
  <2> QED
    BY <2>3, <2>4, <2>5
<1>2. CASE WithoutMicrocode
  <2>1. Initialising(NotLoading) /\ IsRestOf(NotLoading)
    BY <1>2 DEF WithoutMicrocode, Initialising
  <2>2. /\ Done(NotLoading) \in Nat /\ Done(NotLoading)' = Done(NotLoading) + 1
        /\ Tail(todo) = <<>> <=> Done(NotLoading)' = 13
    BY <2>1, InitialiseGoesOn, InitialiseShape
  <2>3. CASE Done(NotLoading) >= 9
    BY <1>2, <2>2, <2>3, NoLoadStep
  <2>4. CASE Done(NotLoading) < 9
    <3>1. NotLoading \in {Loading, NotLoading}
      OBVIOUS
    <3>2. /\ Initialising(NotLoading)' /\ Done(NotLoading)' \in 1 .. 9
          /\ Tail(todo) # <<>> /\ asleep' = FALSE
      BY <2>1, <2>4, <3>1, BeforeStep
    <3>3. WithoutMicrocode'
      BY <3>2 DEF WithoutMicrocode
    <3> QED
      BY <3>2, <3>3
  <2>5. Done(NotLoading) >= 9 \/ Done(NotLoading) < 9
    BY <2>2
  <2> QED
    BY <2>3, <2>4, <2>5
<1> QED
  BY <1>1, <1>2 DEF IInv, InInitialise

---------------------------------------------------------------------------
(* The steps of the specification *)

\* The call under way, and the next access, are of those there are.
LEMMA StepOf ==
  ASSUME IInv, Step
  PROVE  /\ doing \in Clocked \cup Unforced \cup {"dwt_initialise"}
         /\ Head(todo) \in Accesses /\ Access(Head(todo))
<1>1. doing \in Clocked \cup Unforced \cup {"dwt_initialise"}
  BY DEF IInv, TypeOK, Step, Programs, Unforced
<1>2. todo \in Seq(Accesses) /\ todo # <<>> /\ Access(Head(todo))
  <2>1. todo \in Seq(Accesses)
    BY <1>1 DEF IInv, InClocked, InUnforced, Unforced, InInitialise, WithMicrocode,
                WithoutMicrocode,
                Initialising, IsRestOf
  <2> QED
    BY <2>1 DEF Step
<1> QED
  BY <1>1, <1>2, HeadTailProperties

\* A step of a call keeps the types.
LEMMA StepTypes == IInv /\ Step => TypeOK'
<1> SUFFICES ASSUME IInv, Step PROVE TypeOK'
  OBVIOUS
<1>1. TypeOK
  BY DEF IInv
<1>2. /\ (asleep \in BOOLEAN /\ LDERUN \in BOOLEAN /\ microcode \in BOOLEAN)'
      /\ (ATXSLP \in BOOLEAN /\ SLEEP_EN \in BOOLEAN)'
      /\ (SYS_CFG \subseteq Options /\ saved \subseteq Options /\ sysCFGreg \subseteq Options)'
      /\ (forced \subseteq Clocks /\ AON_WCFG \subseteq WakeUps /\ sleep_mode \subseteq WakeUps)'
      /\ (dblbuffon \in BOOLEAN /\ longFrames \in BOOLEAN)'
  BY <1>1, StepOf, AccessTypes
<1>3. /\ (asked \subseteq Options)' /\ (calls \in 0 .. MaxCalls)' /\ (resets \in 0 .. MaxResets)'
      /\ (ready \in {"no", "initialised", "configured"})'
  BY <1>1 DEF TypeOK, Step
<1>4. /\ (doing \in Programs \cup {"nothing", "dwt_initialise"})'
      /\ ((doing = "nothing") <=> (todo = <<>>))'
  BY <1>1 DEF TypeOK, Step
<1> QED
  BY <1>2, <1>3, <1>4 DEF TypeOK

\* What is left of the read on the PLL's clocks is all of it.
LEMMA FastRead ==
  ASSUME IsRestOf(dwt_readtempvbat(TRUE)), todo # <<>>
  PROVE  todo = <<"SAR_PLL">>
<1>1. todo \in Seq(Accesses) /\ Len(todo) <= 1 /\ Len(todo) \in Nat \ {0}
  BY EmptySeq DEF IsRestOf, dwt_readtempvbat
<1>2. Len(todo) = 1 /\ todo[1] = "SAR_PLL"
  BY <1>1 DEF IsRestOf, Done, dwt_readtempvbat
<1>3. <<"SAR_PLL">> \in Seq(Accesses) /\ Len(<<"SAR_PLL">>) = 1 /\ <<"SAR_PLL">>[1] = "SAR_PLL"
  BY DEF Accesses
<1> QED
  BY <1>1, <1>2, <1>3, SeqEqual

\* A step of a call keeps the invariant.
LEMMA StepKeeps == IInv /\ Step => IInv'
<1> SUFFICES ASSUME IInv, Step PROVE IInv'
  OBVIOUS
<1>1. TypeOK'
  BY StepTypes
<1>2. CASE doing \in Clocked
  <2>1. /\ UNCHANGED <<asleep, SYS_CFG, LDERUN, microcode, ATXSLP, AON_WCFG, SLEEP_EN, saved,
                       sysCFGreg, dblbuffon, longFrames, sleep_mode, ready, asked>>
        /\ \/ doing' = "nothing" /\ forced' = {}
           \/ doing' = doing /\ InClocked'
    BY <1>2, ClockedStep DEF local
  <2>2. doing # "dwt_initialise" /\ doing # "dwt_entersleep" /\ doing # "nothing"
        /\ doing # "dwt_readtempvbat_fast"
        /\ doing \in Programs /\ "nothing" \notin Clocked
    BY <1>2 DEF Clocked, Unforced, Programs
  <2>3. Agreed' /\ SleepIsSafe'
    BY <2>1 DEF IInv, Agreed, SleepIsSafe
  <2>4. CallsAreOrdered'
    BY <2>1, <2>2 DEF IInv, CallsAreOrdered, Programs, Clocked, Unforced
  <2>5. InClocked' /\ InUnforced' /\ InInitialise'
    BY <2>1, <2>2 DEF InClocked, InUnforced, InInitialise
  <2> QED
    BY <1>1, <2>3, <2>4, <2>5 DEF IInv
<1>3. CASE doing = "dwt_entersleep"
  <2>1. todo = <<"SAVE">>
    <3>1. IsRestOf(dwt_entersleep) /\ todo # <<>>
      BY <1>3 DEF IInv, InUnforced, Step
    <3>2. todo \in Seq(Accesses) /\ Len(todo) <= 1 /\ Len(todo) \in Nat \ {0}
      BY <3>1, EmptySeq DEF IsRestOf, dwt_entersleep
    <3>3. Len(todo) = 1 /\ todo[1] = "SAVE"
      BY <3>1, <3>2 DEF IsRestOf, Done, dwt_entersleep
    <3>4. <<"SAVE">> \in Seq(Accesses) /\ Len(<<"SAVE">>) = 1 /\ <<"SAVE">>[1] = "SAVE"
      BY DEF Accesses
    <3> QED
      BY <3>2, <3>3, <3>4, SeqEqual
  <2>2. Head(todo) = "SAVE" /\ Tail(todo) = <<>>
    BY <2>1
  <2>3. /\ saved' = SYS_CFG /\ asleep' = SLEEP_EN
        /\ UNCHANGED <<SYS_CFG, forced, LDERUN, microcode, AON_WCFG, SLEEP_EN, sysCFGreg,
                       dblbuffon, longFrames, sleep_mode, asked, ready>>
        /\ doing' = "nothing"
    BY <1>3, <2>2 DEF Step, Access, _dwt_aonarrayupload, local
  <2>4. forced = {} /\ ready # "no"
    BY <1>3 DEF IInv, InUnforced, CallsAreOrdered, Programs, Unforced
  <2>5. Agreed' /\ SleepIsSafe' /\ CallsAreOrdered'
    BY <2>3, <2>4 DEF IInv, Agreed, SleepIsSafe, CallsAreOrdered, Programs, Clocked, Unforced
  <2>6. InClocked' /\ InUnforced' /\ InInitialise'
    BY <2>3 DEF InClocked, InUnforced, InInitialise, Clocked
  <2> QED
    BY <1>1, <2>5, <2>6 DEF IInv
<1>4. CASE doing = "dwt_readtempvbat_fast"
  <2>1. Head(todo) = "SAR_PLL" /\ Tail(todo) = <<>>
    <3>1. todo = <<"SAR_PLL">>
      BY <1>4, FastRead DEF IInv, InUnforced, Step
    <3> QED
      BY <3>1
  <2>2. /\ UNCHANGED <<asleep, SYS_CFG, forced, LDERUN, microcode, AON_WCFG, SLEEP_EN, saved,
                       sysCFGreg, dblbuffon, longFrames, sleep_mode, asked, ready>>
        /\ doing' = "nothing"
    BY <1>4, <2>1 DEF Step, Access, Other, chip, local
  <2>3. forced = {} /\ ready # "no"
    BY <1>4 DEF IInv, InUnforced, CallsAreOrdered, Programs, Unforced
  <2>4. Agreed' /\ SleepIsSafe' /\ CallsAreOrdered'
    BY <2>2, <2>3 DEF IInv, Agreed, SleepIsSafe, CallsAreOrdered, Programs, Clocked, Unforced
  <2>5. InClocked' /\ InUnforced' /\ InInitialise'
    BY <2>2 DEF InClocked, InUnforced, InInitialise, Clocked
  <2> QED
    BY <1>1, <2>4, <2>5 DEF IInv
<1>5. CASE doing = "dwt_initialise"
  <2>1. /\ asked' = asked /\ asked = AfterReset /\ dblbuffon' = FALSE /\ ready = "no"
        /\ IF Tail(todo) # <<>> THEN doing' = doing /\ ready' = ready
           ELSE doing' = "nothing" /\ ready' = "initialised"
    <3>1. dblbuffon' = dblbuffon
      BY StepOf, AccessKeeps
    <3>2. dblbuffon \in BOOLEAN
      BY DEF IInv, TypeOK
    <3> QED
      BY <1>5, <3>1, <3>2 DEF IInv, InInitialise, CallsAreOrdered, Step
  <2>2. \/ WithMicrocode' /\ asleep' = FALSE
           /\ (Tail(todo) = <<>> => sysCFGreg' = AfterReset /\ Done(Loading)' = 16)
        \/ WithoutMicrocode' /\ asleep' = FALSE
           /\ (Tail(todo) = <<>> => sysCFGreg' = AfterReset /\ Done(NotLoading)' = 13)
    BY <1>5, InitialiseStep
  <2>3. CASE Tail(todo) # <<>>
    <3>1. doing' = "dwt_initialise" /\ ready' = "no" /\ asleep' = FALSE
      BY <1>5, <2>1, <2>2, <2>3
    <3>2. InInitialise'
      BY <2>1, <2>2, <3>1 DEF InInitialise
    <3>3. Agreed' /\ SleepIsSafe' /\ CallsAreOrdered' /\ InClocked' /\ InUnforced'
      BY <3>1 DEF Agreed, SleepIsSafe, CallsAreOrdered, InClocked, InUnforced, Programs,
                  Clocked, Unforced
    <3> QED
      BY <1>1, <3>2, <3>3 DEF IInv
  <2>4. CASE Tail(todo) = <<>>
    <3>1. doing' = "nothing" /\ ready' = "initialised" /\ asleep' = FALSE
          /\ sysCFGreg' = AfterReset
      BY <2>1, <2>2, <2>4
    <3>2. /\ SYS_CFG' = AfterReset /\ ~SLEEP_EN' /\ forced' = {}
          /\ LDERUN' => microcode' /\ "LLDE" \in sleep_mode'
      <4>1. CASE WithMicrocode' /\ Done(Loading)' = 16
        BY <4>1 DEF WithMicrocode, Initialising
      <4>2. CASE WithoutMicrocode' /\ Done(NotLoading)' = 13
        BY <4>2 DEF WithoutMicrocode, Initialising
      <4> QED
        BY <2>2, <2>4, <4>1, <4>2
    <3>3. Agreed'
      BY <2>1, <3>1, <3>2 DEF Agreed, AfterReset
    <3>4. SleepIsSafe' /\ CallsAreOrdered'
      BY <3>1, <3>2 DEF SleepIsSafe, CallsAreOrdered, Programs, Clocked, Unforced
    <3>5. InClocked' /\ InUnforced' /\ InInitialise'
      BY <3>1 DEF InClocked, InUnforced, InInitialise, Clocked
    <3> QED
      BY <1>1, <3>3, <3>4, <3>5 DEF IInv
  <2> QED
    BY <2>3, <2>4
<1> QED
  BY <1>2, <1>3, <1>4, <1>5, StepOf DEF Unforced

\* The initial states.
LEMMA Initially == Init => IInv
<1> SUFFICES ASSUME Init PROVE IInv
  OBVIOUS
<1> USE DEF Init
<1>1. TypeOK
  <2>1. calls \in 0 .. MaxCalls /\ resets \in 0 .. MaxResets
    BY DeviceAssumption
  <2>2. /\ SYS_CFG \subseteq Options /\ saved \subseteq Options /\ sysCFGreg \subseteq Options
        /\ asked \subseteq Options /\ forced \subseteq Clocks
        /\ AON_WCFG \subseteq WakeUps /\ sleep_mode \subseteq WakeUps
    BY DEF AfterReset, Options
  <2> QED
    BY <2>1, <2>2 DEF TypeOK
<1>2. Agreed /\ SleepIsSafe /\ CallsAreOrdered
  BY DEF Agreed, SleepIsSafe, CallsAreOrdered, Programs, Clocked, Unforced
<1>3. InClocked /\ InUnforced /\ InInitialise
  BY DEF InClocked, InUnforced, InInitialise, Clocked
<1> QED
  BY <1>1, <1>2, <1>3 DEF IInv

\* The calls are counted up to their bound.
LEMMA Counted == TypeOK /\ MayCall => calls' \in 0 .. MaxCalls
  BY DeviceAssumption DEF TypeOK, MayCall

\* A call that starts keeps the invariant.
LEMMA CallKeeps ==
  ASSUME IInv, NEW name \in Programs, Call(name)
  PROVE  IInv'
<1>1. /\ MayCall /\ doing = "nothing" /\ ready # "no" /\ ~asleep /\ Allowed(name)
      /\ doing' = name /\ todo' = Program(name)
      /\ UNCHANGED <<asleep, SYS_CFG, forced, LDERUN, microcode, ATXSLP, AON_WCFG, SLEEP_EN,
                     saved, sysCFGreg, dblbuffon, longFrames, sleep_mode, ready, resets,
                     asked>>
  BY DEF Call, MayCall, chip, local
<1>2. forced = {} /\ TypeOK
  BY <1>1 DEF IInv, CallsAreOrdered
<1>3. Agreed' /\ SleepIsSafe'
  BY <1>1 DEF IInv, Agreed, SleepIsSafe
<1>4. CallsAreOrdered'
  BY <1>1 DEF CallsAreOrdered, Programs, Clocked, Unforced
<1>5. Program(name) # <<>> /\ InClocked' /\ InUnforced' /\ InInitialise'
  <2>1. CASE name \in Clocked
    <3> PICK program : program = Program(name)
      OBVIOUS
    <3>1. /\ program \in Seq(Accesses) /\ Forcing(name) \in 1 .. Len(program) - 1
          /\ Len(program) \in Nat
      BY <2>1, ClockedText, LenProperties
    <3>2. IsRestOf(program)' /\ Done(program)' = 0
      BY <1>1, <3>1, Start
    <3>3. doing' \in {"dwt_configuresleepcnt", "dwt_calibratesleepcnt"} => ~SLEEP_EN'
      BY <1>1 DEF Allowed
    <3>4. InClocked'
      BY <1>1, <1>2, <3>1, <3>2, <3>3 DEF InClocked
    <3>5. program # <<>>
      BY <3>1, EmptySeq
    <3>6. InUnforced' /\ InInitialise'
      BY <1>1, <2>1 DEF InUnforced, InInitialise, Clocked
    <3> QED
      BY <3>4, <3>5, <3>6
  <2>2. CASE name = "dwt_entersleep"
    <3>1. Program(name) = dwt_entersleep
      BY <2>2 DEF Program
    <3>2. dwt_entersleep \in Seq(Accesses) /\ dwt_entersleep # <<>>
      BY DEF dwt_entersleep, Accesses
    <3>3. IsRestOf(dwt_entersleep)'
      BY <1>1, <3>1, <3>2, Start
    <3> QED
      BY <1>1, <1>2, <2>2, <3>1, <3>2, <3>3 DEF InClocked, InUnforced, InInitialise, Clocked
  <2>3. CASE name = "dwt_readtempvbat_fast"
    <3>1. Program(name) = dwt_readtempvbat(TRUE)
      BY <2>3 DEF Program
    <3>2. dwt_readtempvbat(TRUE) \in Seq(Accesses) /\ dwt_readtempvbat(TRUE) # <<>>
      BY DEF dwt_readtempvbat, Accesses
    <3>3. IsRestOf(dwt_readtempvbat(TRUE))'
      BY <1>1, <3>1, <3>2, Start
    <3> QED
      BY <1>1, <1>2, <2>3, <3>1, <3>2, <3>3 DEF InClocked, InUnforced, InInitialise, Clocked
  <2> QED
    BY <2>1, <2>2, <2>3 DEF Programs, Unforced
<1>6. TypeOK'
  BY <1>1, <1>2, <1>5, Counted DEF TypeOK, Programs, Clocked, Unforced
<1> QED
  BY <1>3, <1>4, <1>5, <1>6 DEF IInv

\* So does dwt_initialise, whether the chip answers or sleeps.
LEMMA InitialiseKeeps ==
  ASSUME IInv, NEW loaducode \in BOOLEAN, dwt_initialise(loaducode)
  PROVE  IInv'
<1> PICK program : program = Initialise(loaducode)
  OBVIOUS
<1>1. /\ MayCall /\ doing = "nothing" /\ ready' = "no" /\ dblbuffon' = FALSE
      /\ sleep_mode' = {} /\ asked' = AfterReset
      /\ IF asleep THEN doing' = doing /\ todo' = todo
                   ELSE doing' = "dwt_initialise" /\ todo' = program
      /\ UNCHANGED <<asleep, SYS_CFG, forced, LDERUN, microcode, ATXSLP, AON_WCFG, SLEEP_EN,
                     saved, sysCFGreg, longFrames, resets>>
  BY DEF dwt_initialise, MayCall, chip
<1>2. program \in {Loading, NotLoading}
  BY InitialiseText
<1>3. program \in Seq(Accesses) /\ program # <<>>
  <2>1. program \in Seq(Accesses) /\ Len(program) > 9
    BY <1>2, InitialiseShape
  <2> QED
    BY <2>1, EmptySeq
<1>4. TypeOK'
  <2>1. TypeOK
    BY DEF IInv
  <2>2. calls' \in 0 .. MaxCalls
    BY <1>1, <2>1, Counted
  <2> QED
    BY <1>1, <1>3, <2>1, <2>2 DEF TypeOK, AfterReset, Options
<1>5. Agreed' /\ SleepIsSafe' /\ CallsAreOrdered'
  BY <1>1 DEF Agreed, SleepIsSafe, CallsAreOrdered, Programs, Clocked, Unforced
<1>6. InClocked' /\ InUnforced'
  BY <1>1 DEF InClocked, InUnforced, Clocked
<1>7. InInitialise'
  <2> SUFFICES ASSUME doing' = "dwt_initialise" PROVE WithMicrocode' \/ WithoutMicrocode'
    BY <1>1 DEF InInitialise
  <2>1. todo' = program
    BY <1>1
  <2>2. IsRestOf(program)' /\ Done(program)' = 0
    BY <1>3, <2>1, Start
  <2>3. Initialising(program)'
    BY <2>2 DEF Initialising
  <2>4. CASE program = Loading
    BY <2>2, <2>3, <2>4 DEF WithMicrocode
  <2>5. CASE program = NotLoading
    BY <2>2, <2>3, <2>5 DEF WithoutMicrocode
  <2> QED
    BY <1>2, <2>4, <2>5
<1> QED
  BY <1>4, <1>5, <1>6, <1>7 DEF IInv

\* A call that changes options keeps the invariant if the register and its copy
\* become what is asked for, and the flags follow.
LEMMA OptionKeeps ==
  ASSUME IInv, MaySet, asked' \subseteq Options, SYS_CFG' = asked', sysCFGreg' = asked',
         ATXSLP' \in BOOLEAN, dblbuffon' \in BOOLEAN, longFrames' \in BOOLEAN,
         ready' \in {ready, "configured"},
         dblbuffon' <=> "DIS_DRXB" \notin asked',
         ready' = "configured" => (longFrames' <=> "PHR_MODE" \in asked')
  PROVE  IInv'
<1>1. /\ MayCall /\ doing = "nothing" /\ ready # "no" /\ ~asleep
      /\ UNCHANGED <<asleep, forced, LDERUN, microcode, AON_WCFG, SLEEP_EN, saved, sleep_mode,
                     doing, todo, resets>>
  BY DEF MaySet, MayCall
<1>2. TypeOK'
  <2>1. TypeOK
    BY DEF IInv
  <2>2. calls' \in 0 .. MaxCalls
    BY <1>1, <2>1, Counted
  <2> QED
    BY <1>1, <2>1, <2>2 DEF TypeOK
<1>3. Agreed' /\ SleepIsSafe' /\ CallsAreOrdered'
  BY <1>1 DEF IInv, Agreed, SleepIsSafe, CallsAreOrdered, Programs, Clocked, Unforced
<1>4. InClocked' /\ InUnforced' /\ InInitialise'
  BY <1>1 DEF InClocked, InUnforced, InInitialise, Clocked
<1> QED
  BY <1>2, <1>3, <1>4 DEF IInv

\* The calls that do.
LEMMA OptionsKeep ==
  ASSUME IInv,
         \/ \E br110k, long \in BOOLEAN : dwt_configure(br110k, long)
         \/ \E on \in BOOLEAN : \/ dwt_enableframefilter(on) \/ dwt_setsmarttxpower(on)
                                \/ dwt_setdblrxbuffmode(on) \/ dwt_setrxtimeout(on)
                                \/ dwt_entersleepaftertx(on)
         \/ dwt_enableautoack
  PROVE  IInv'
<1>1. TypeOK /\ Agreed
  BY DEF IInv
<1> USE DEF Write, Put, Options, TypeOK
<1>2. ASSUME NEW br110k \in BOOLEAN, NEW long \in BOOLEAN, dwt_configure(br110k, long)
      PROVE  IInv'
  <2>1. MaySet /\ ready # "no"
    BY <1>2 DEF dwt_configure, MaySet
  <2>2. asked' \subseteq Options /\ SYS_CFG' = asked' /\ sysCFGreg' = asked'
    BY <1>1, <1>2, <2>1 DEF dwt_configure, Agreed
  <2>3. /\ ATXSLP' = ATXSLP /\ dblbuffon' = dblbuffon /\ longFrames' = long
        /\ ready' = "configured"
        /\ "DIS_DRXB" \in asked' <=> "DIS_DRXB" \in asked
        /\ long <=> "PHR_MODE" \in asked'
    BY <1>2 DEF dwt_configure
  <2> QED
    <3>1. ATXSLP' \in BOOLEAN /\ dblbuffon' \in BOOLEAN /\ longFrames' \in BOOLEAN
      BY <1>1, <2>3
    <3>2. dblbuffon' <=> "DIS_DRXB" \notin asked'
      BY <1>1, <2>1, <2>3 DEF Agreed
    <3> QED
      BY <2>1, <2>2, <2>3, <3>1, <3>2, OptionKeeps
<1>3. ASSUME NEW on \in BOOLEAN, dwt_enableframefilter(on)
      PROVE  IInv'
  <2>1. MaySet /\ ready # "no"
    BY <1>3 DEF dwt_enableframefilter, MaySet
  <2>2. asked' \subseteq Options /\ SYS_CFG' = asked' /\ sysCFGreg' = asked'
    BY <1>1, <1>3, <2>1 DEF dwt_enableframefilter, Agreed
  <2>3. /\ UNCHANGED <<ATXSLP, dblbuffon, longFrames, ready>>
        /\ "DIS_DRXB" \in asked' <=> "DIS_DRXB" \in asked
        /\ "PHR_MODE" \in asked' <=> "PHR_MODE" \in asked
    BY <1>3 DEF dwt_enableframefilter
  <2> QED
    BY <1>1, <2>1, <2>2, <2>3, OptionKeeps DEF Agreed
<1>4. ASSUME NEW on \in BOOLEAN, dwt_setsmarttxpower(on)
      PROVE  IInv'
  <2>1. MaySet /\ ready # "no"
    BY <1>4 DEF dwt_setsmarttxpower, MaySet
  <2>2. asked' \subseteq Options /\ SYS_CFG' = asked' /\ sysCFGreg' = asked'
    BY <1>1, <1>4, <2>1 DEF dwt_setsmarttxpower, Agreed
  <2>3. /\ UNCHANGED <<ATXSLP, dblbuffon, longFrames, ready>>
        /\ "DIS_DRXB" \in asked' <=> "DIS_DRXB" \in asked
        /\ "PHR_MODE" \in asked' <=> "PHR_MODE" \in asked
    BY <1>4 DEF dwt_setsmarttxpower
  <2> QED
    BY <1>1, <2>1, <2>2, <2>3, OptionKeeps DEF Agreed
<1>5. ASSUME NEW on \in BOOLEAN, dwt_setdblrxbuffmode(on)
      PROVE  IInv'
  <2>1. MaySet /\ ready # "no"
    BY <1>5 DEF dwt_setdblrxbuffmode, MaySet
  <2>2. asked' \subseteq Options /\ SYS_CFG' = asked' /\ sysCFGreg' = asked'
    BY <1>1, <1>5, <2>1 DEF dwt_setdblrxbuffmode, Agreed
  <2>3. /\ UNCHANGED <<ATXSLP, longFrames, ready>> /\ dblbuffon' = on
        /\ on <=> "DIS_DRXB" \notin asked'
        /\ "PHR_MODE" \in asked' <=> "PHR_MODE" \in asked
    BY <1>5 DEF dwt_setdblrxbuffmode
  <2> QED
    BY <1>1, <2>1, <2>2, <2>3, OptionKeeps DEF Agreed
<1>6. ASSUME NEW on \in BOOLEAN, dwt_setrxtimeout(on)
      PROVE  IInv'
  <2>1. MaySet /\ ready # "no"
    BY <1>6 DEF dwt_setrxtimeout, MaySet
  <2>2. asked' \subseteq Options /\ SYS_CFG' = asked' /\ sysCFGreg' = asked'
    BY <1>1, <1>6, <2>1 DEF dwt_setrxtimeout, Agreed
  <2>3. /\ UNCHANGED <<ATXSLP, dblbuffon, longFrames, ready>>
        /\ "DIS_DRXB" \in asked' <=> "DIS_DRXB" \in asked
        /\ "PHR_MODE" \in asked' <=> "PHR_MODE" \in asked
    BY <1>6 DEF dwt_setrxtimeout
  <2> QED
    BY <1>1, <2>1, <2>2, <2>3, OptionKeeps DEF Agreed
<1>7. ASSUME NEW on \in BOOLEAN, dwt_entersleepaftertx(on)
      PROVE  IInv'
  <2>1. /\ MaySet /\ ready # "no" /\ ATXSLP' = on
        /\ UNCHANGED <<SYS_CFG, sysCFGreg, dblbuffon, longFrames, ready, asked>>
    BY <1>7 DEF dwt_entersleepaftertx, MaySet
  <2> QED
    BY <1>1, <2>1, OptionKeeps DEF Agreed
<1>8. ASSUME dwt_enableautoack PROVE IInv'
  <2>1. MaySet /\ ready # "no"
    BY <1>8 DEF dwt_enableautoack, MaySet
  <2>2. asked' \subseteq Options /\ SYS_CFG' = asked' /\ sysCFGreg' = asked'
    BY <1>1, <1>8, <2>1 DEF dwt_enableautoack, Agreed
  <2>3. /\ UNCHANGED <<ATXSLP, dblbuffon, longFrames, ready>>
        /\ "DIS_DRXB" \in asked' <=> "DIS_DRXB" \in asked
        /\ "PHR_MODE" \in asked' <=> "PHR_MODE" \in asked
    BY <1>8 DEF dwt_enableautoack
  <2> QED
    BY <1>1, <2>1, <2>2, <2>3, OptionKeeps DEF Agreed
<1> QED
  BY <1>2, <1>3, <1>4, <1>5, <1>6, <1>7, <1>8

\* dwt_configuresleep asks for the configuration and, with what initialisation
\* left in sleep_mode, for the microcode.
LEMMA ConfigureSleepKeeps ==
  ASSUME IInv, NEW mode \in {{"LDC"}, {"LDC", "PRES_SLEEP"}}, NEW slp_en \in BOOLEAN,
         dwt_configuresleep(mode, slp_en)
  PROVE  IInv'
<1>1. /\ MayCall /\ doing = "nothing" /\ ready # "no" /\ ~asleep
      /\ AON_WCFG' = mode \cup sleep_mode /\ SLEEP_EN' = slp_en
      /\ UNCHANGED <<asleep, SYS_CFG, forced, LDERUN, microcode, ATXSLP, saved, sysCFGreg,
                     dblbuffon, longFrames, sleep_mode, doing, todo, ready, resets, asked>>
  BY DEF dwt_configuresleep, MayCall, local
<1>2. TypeOK'
  <2>1. TypeOK
    BY DEF IInv
  <2>2. calls' \in 0 .. MaxCalls
    BY <1>1, <2>1, Counted
  <2>3. mode \subseteq WakeUps
    BY DEF WakeUps
  <2> QED
    BY <1>1, <2>1, <2>2, <2>3 DEF TypeOK
<1>3. Agreed' /\ CallsAreOrdered'
  BY <1>1 DEF IInv, Agreed, CallsAreOrdered, Programs, Clocked, Unforced
<1>4. SleepIsSafe'
  BY <1>1 DEF IInv, SleepIsSafe
<1>5. InClocked' /\ InUnforced' /\ InInitialise'
  BY <1>1 DEF InClocked, InUnforced, InInitialise, Clocked
<1> QED
  BY <1>2, <1>3, <1>4, <1>5 DEF IInv

\* The chip goes to sleep by itself, and wakes up with what it was to load.
LEMMA ChipKeeps == IInv /\ (SleepAfterTx \/ WakeUp) => IInv'
<1> SUFFICES ASSUME IInv, SleepAfterTx \/ WakeUp PROVE IInv'
  OBVIOUS
<1>1. TypeOK /\ Agreed /\ SleepIsSafe /\ CallsAreOrdered
  BY DEF IInv
<1>2. /\ doing = "nothing"
      /\ UNCHANGED <<AON_WCFG, SLEEP_EN, sysCFGreg, dblbuffon, longFrames, sleep_mode, doing,
                     todo, ready, calls, resets, asked>>
  BY DEF SleepAfterTx, WakeUp, local, call
<1>3. CASE SleepAfterTx
  <2>1. /\ SLEEP_EN /\ asleep' = TRUE /\ saved' = SYS_CFG
        /\ UNCHANGED <<SYS_CFG, forced, LDERUN, microcode, ATXSLP>>
    BY <1>3 DEF SleepAfterTx
  <2>2. TypeOK'
    BY <1>1, <1>2, <2>1 DEF TypeOK
  <2>3. Agreed' /\ SleepIsSafe' /\ CallsAreOrdered'
    BY <1>1, <1>2, <2>1 DEF Agreed, SleepIsSafe, CallsAreOrdered, Programs, Clocked, Unforced
  <2>4. InClocked' /\ InUnforced' /\ InInitialise'
    BY <1>2 DEF InClocked, InUnforced, InInitialise, Clocked
  <2> QED
    BY <2>2, <2>3, <2>4 DEF IInv
<1>4. CASE WakeUp
  <2>1. Download /\ asleep /\ asleep' = FALSE /\ saved' = saved
    BY <1>4 DEF WakeUp
  <2>2. TypeOK'
    <3>1. microcode' \in BOOLEAN /\ ATXSLP' \in BOOLEAN /\ LDERUN' \in BOOLEAN
      BY <2>1 DEF Download
    <3>2. SYS_CFG' \subseteq Options /\ forced' = {}
      BY <1>1, <2>1 DEF TypeOK, Download, AfterReset, Options
    <3>3. asleep' \in BOOLEAN /\ saved' = saved
      BY <2>1
    <3> QED
      BY <1>1, <1>2, <3>1, <3>2, <3>3 DEF TypeOK
  <2>3. ready # "no" => /\ SYS_CFG' = SYS_CFG /\ LDERUN' = LDERUN
                        /\ LDERUN => microcode'
    BY <1>1, <1>2, <2>1 DEF SleepIsSafe, Download, TypeOK
  <2>4. Agreed' /\ SleepIsSafe'
    BY <1>1, <1>2, <2>1, <2>3 DEF Agreed, SleepIsSafe
  <2>5. CallsAreOrdered'
    BY <1>2, <2>1 DEF CallsAreOrdered, Download, Programs, Clocked, Unforced
  <2>6. InClocked' /\ InUnforced' /\ InInitialise'
    BY <1>2 DEF InClocked, InUnforced, InInitialise, Clocked
  <2> QED
    BY <2>2, <2>4, <2>5, <2>6 DEF IInv
<1> QED
  BY <1>3, <1>4

\* The processor starts again in the middle of anything.
LEMMA ProcessorResetKeeps == IInv /\ ProcessorReset => IInv'
<1> SUFFICES ASSUME IInv, ProcessorReset PROVE IInv'
  OBVIOUS
<1>1. /\ doing' = "nothing" /\ todo' = <<>> /\ ready' = "no" /\ asked' = {}
      /\ sysCFGreg' = {} /\ dblbuffon' = FALSE /\ longFrames' = FALSE /\ sleep_mode' = {}
      /\ resets < MaxResets /\ resets' = resets + 1
      /\ UNCHANGED <<asleep, SYS_CFG, forced, LDERUN, microcode, ATXSLP, AON_WCFG, SLEEP_EN,
                     saved, calls>>
  BY DEF ProcessorReset, chip
<1>2. TypeOK'
  <2>1. TypeOK
    BY DEF IInv
  <2>2. resets' \in 0 .. MaxResets
    BY <1>1, <2>1, DeviceAssumption DEF TypeOK
  <2> QED
    BY <1>1, <2>1, <2>2 DEF TypeOK
<1>3. Agreed' /\ SleepIsSafe' /\ CallsAreOrdered'
  BY <1>1 DEF Agreed, SleepIsSafe, CallsAreOrdered, Programs, Clocked, Unforced
<1>4. InClocked' /\ InUnforced' /\ InInitialise'
  BY <1>1 DEF InClocked, InUnforced, InInitialise, Clocked
<1> QED
  BY <1>2, <1>3, <1>4 DEF IInv

\* A step that changes nothing keeps everything.
LEMMA StutterKeeps == IInv /\ UNCHANGED vars => IInv'
<1> SUFFICES ASSUME IInv, UNCHANGED vars PROVE IInv'
  OBVIOUS
<1>1. UNCHANGED <<asleep, SYS_CFG, forced, LDERUN, microcode, ATXSLP, AON_WCFG, SLEEP_EN, saved,
                  sysCFGreg, dblbuffon, longFrames, sleep_mode, doing, todo, ready, calls,
                  resets, asked>>
  BY DEF vars, chip, local, call
<1>2. TypeOK' /\ Agreed' /\ SleepIsSafe' /\ CallsAreOrdered'
  BY <1>1 DEF IInv, TypeOK, Agreed, SleepIsSafe, CallsAreOrdered
<1>3. InClocked' /\ InUnforced'
  BY <1>1 DEF IInv, InClocked, InUnforced, IsRestOf, Done
<1>4. InInitialise'
  BY <1>1 DEF IInv, InInitialise, WithMicrocode, WithoutMicrocode, Initialising, IsRestOf, Done
<1> QED
  BY <1>2, <1>3, <1>4 DEF IInv

\* Every step keeps the invariant.
LEMMA Inductive == IInv /\ [Next]_vars => IInv'
<1> SUFFICES ASSUME IInv, [Next]_vars PROVE IInv'
  OBVIOUS
<1>1. ASSUME NEW name \in Programs, Call(name) PROVE IInv'
  BY <1>1, CallKeeps
<1>2. ASSUME NEW loaducode \in BOOLEAN, dwt_initialise(loaducode) PROVE IInv'
  BY <1>2, InitialiseKeeps
<1>3. CASE Step
  BY <1>3, StepKeeps
<1>4. CASE \/ \E br110k, long \in BOOLEAN : dwt_configure(br110k, long)
           \/ \E on \in BOOLEAN : \/ dwt_enableframefilter(on) \/ dwt_setsmarttxpower(on)
                                  \/ dwt_setdblrxbuffmode(on) \/ dwt_setrxtimeout(on)
                                  \/ dwt_entersleepaftertx(on)
           \/ dwt_enableautoack
  BY <1>4, OptionsKeep
<1>5. ASSUME NEW mode \in {{"LDC"}, {"LDC", "PRES_SLEEP"}}, NEW slp_en \in BOOLEAN,
             dwt_configuresleep(mode, slp_en)
      PROVE  IInv'
  BY <1>5, ConfigureSleepKeeps
<1>6. CASE SleepAfterTx \/ WakeUp
  BY <1>6, ChipKeeps
<1>7. CASE ProcessorReset
  BY <1>7, ProcessorResetKeeps
<1>8. CASE UNCHANGED vars
  BY <1>8, StutterKeeps
<1> QED
  BY <1>1, <1>2, <1>3, <1>4, <1>5, <1>6, <1>7, <1>8 DEF Next

---------------------------------------------------------------------------
(* What follows *)

\* The inductive invariant holds in every reachable state.
THEOREM Invariant == Spec => []IInv
  BY Initially, Inductive, PTL DEF Spec

\* Every variable has its type, and a call has accesses left as long as it is
\* under way.
THEOREM TypeCorrect == Spec => []TypeOK
<1>1. IInv => TypeOK
  BY DEF IInv
<1> QED
  BY <1>1, Invariant, PTL

\* The options the application asked for are those of the chip and of the copy
\* the driver writes the register from.
THEOREM SettingsKept == Spec => []SettingsLast
<1>1. IInv => SettingsLast
  BY DEF IInv, Agreed, SettingsLast, AtRest
<1> QED
  BY <1>1, Invariant, PTL

\* The flags the interrupt service decides with say what the chip does.
THEOREM IsrAgreement == Spec => []IsrAgrees
<1>1. IInv => IsrAgrees
  BY DEF IInv, Agreed, IsrAgrees, AtRest
<1> QED
  BY <1>1, Invariant, PTL

\* The leading edge detector has its microcode whenever it is to run.
THEOREM LdeMicrocode == Spec => []LdeHasMicrocode
<1>1. IInv => LdeHasMicrocode
  BY DEF IInv, SleepIsSafe, LdeHasMicrocode, AtRest
<1> QED
  BY <1>1, Invariant, PTL

\* What is read with the clock forced to the crystal.
LEMMA OnTheCrystal ==
  ASSUME IInv, todo # <<>>, Head(todo) \in {"OTP", "SAR"}
  PROVE  "XTI" \in forced
<1>1. doing \in Clocked \cup Unforced \cup {"dwt_initialise"}
  BY DEF IInv, TypeOK, Programs
<1>2. CASE doing \in Clocked
  <2> PICK program : program = Program(doing)
    OBVIOUS
  <2>1. /\ IsRestOf(program)
        /\ forced = IF Done(program) < Forcing(doing) THEN {} ELSE Held(doing)
    BY <1>2 DEF IInv, InClocked
  <2>2. program \in Seq(Accesses)
    BY <1>2, ClockedText
  <2>3. /\ Done(program) \in Nat /\ Done(program) + 1 \in 1 .. Len(program)
        /\ program[Done(program) + 1] \in {"OTP", "SAR"}
    BY <2>1, <2>2, NextAccess
  <2>4. Done(program) + 1 # Forcing(doing) /\ Done(program) + 1 # Len(program)
    BY <1>2, <2>3, ClockedText
  <2>5. Done(program) + 1 > Forcing(doing) /\ Held(doing) = {"XTI"} /\ Forcing(doing) \in Nat
    BY <1>2, <2>3, <2>4, ClockedText DEF Forcing
  <2>6. ~(Done(program) < Forcing(doing))
    BY <2>3, <2>5
  <2> QED
    BY <2>1, <2>5, <2>6
<1>3. CASE doing = "dwt_entersleep"
  <2>1. IsRestOf(dwt_entersleep)
    BY <1>3 DEF IInv, InUnforced
  <2>2. dwt_entersleep \in Seq(Accesses) /\ Len(dwt_entersleep) = 1 /\ dwt_entersleep[1] = "SAVE"
    BY DEF dwt_entersleep, Accesses
  <2>3. Head(todo) = "SAVE"
    BY <2>1, <2>2, NextAccess
  <2> QED
    BY <2>3
<1>4. CASE doing = "dwt_readtempvbat_fast"
  <2>1. todo = <<"SAR_PLL">>
    BY <1>4, FastRead DEF IInv, InUnforced
  <2> QED
    BY <2>1
<1>5. CASE doing = "dwt_initialise"
  <2>1. ASSUME NEW program \in {Loading, NotLoading}, Initialising(program)
        PROVE  "XTI" \in forced
    <3>1. program \in Seq(Accesses) /\ IsRestOf(program)
      BY <2>1, InitialiseShape DEF Initialising
    <3>2. /\ Done(program) \in Nat /\ Done(program) + 1 \in 1 .. Len(program)
          /\ program[Done(program) + 1] \in {"OTP", "SAR"}
      BY <3>1, NextAccess
    <3>3. Done(program) + 1 \in {7, 9}
      <4>1. CASE program = Loading
        <5>1. Done(Loading) + 1 \in 1 .. 16
          BY <3>2, <4>1, InitialiseShape
        <5> QED
          BY SMTT(30), <3>2, <4>1, <5>1 DEF Loading
      <4>2. CASE program = NotLoading
        <5>1. Done(NotLoading) + 1 \in 1 .. 13
          BY <3>2, <4>2, InitialiseShape
        <5> QED
          BY <3>2, <4>2, <5>1 DEF NotLoading
      <4> QED
        BY <4>1, <4>2
    <3>4. Done(program) \in 6 .. 9
      BY <3>2, <3>3
    <3> QED
      BY <2>1, <3>4 DEF Initialising
  <2> QED
    BY <1>5, <2>1 DEF IInv, InInitialise, WithMicrocode, WithoutMicrocode
<1> QED
  BY <1>1, <1>2, <1>3, <1>4, <1>5 DEF Unforced

\* What is read on the PLL's clocks is read by the call that forces none.
LEMMA OnThePll ==
  ASSUME IInv, todo # <<>>, Head(todo) = "SAR_PLL"
  PROVE  forced = {}
<1>1. doing \in Clocked \cup Unforced \cup {"dwt_initialise"}
  BY DEF IInv, TypeOK, Programs
<1>2. CASE doing \in Clocked
  <2> PICK program : program = Program(doing)
    OBVIOUS
  <2>1. IsRestOf(program) /\ program \in Seq(Accesses)
    BY <1>2, ClockedText DEF IInv, InClocked
  <2>2. Done(program) + 1 \in 1 .. Len(program) /\ program[Done(program) + 1] = "SAR_PLL"
    BY <2>1, NextAccess
  <2>3. Done(program) + 1 # Forcing(doing) /\ Done(program) + 1 # Len(program)
    BY <1>2, <2>2, ClockedText
  <2> QED
    BY <1>2, <2>2, <2>3, ClockedText DEF Neutral
<1>3. CASE doing \in Unforced
  BY <1>3 DEF IInv, InUnforced, Unforced
<1>4. CASE doing = "dwt_initialise"
  <2>1. ASSUME NEW program \in {Loading, NotLoading}, Initialising(program)
        PROVE  FALSE
    <3>1. program \in Seq(Accesses) /\ IsRestOf(program)
      BY <2>1, InitialiseShape DEF Initialising
    <3>2. Done(program) + 1 \in 1 .. Len(program) /\ program[Done(program) + 1] = "SAR_PLL"
      BY <3>1, NextAccess
    <3>3. CASE program = Loading
      <4>1. Done(Loading) + 1 \in 1 .. 16
        BY <3>2, <3>3, InitialiseShape
      <4> QED
        BY SMTT(30), <3>2, <3>3, <4>1 DEF Loading
    <3>4. CASE program = NotLoading
      <4>1. Done(NotLoading) + 1 \in 1 .. 13
        BY <3>2, <3>4, InitialiseShape
      <4> QED
        BY <3>2, <3>4, <4>1 DEF NotLoading
    <3> QED
      BY <3>3, <3>4
  <2> QED
    BY <1>4, <2>1 DEF IInv, InInitialise, WithMicrocode, WithoutMicrocode
<1> QED
  BY <1>1, <1>2, <1>3, <1>4

LEMMA Reliable == IInv => ReadsAreReliable
BY OnTheCrystal, OnThePll DEF ReadsAreReliable

\* OTP words, and the analogue inputs at a slow SPI rate, are read on the crystal;
\* at a fast rate nothing is forced; and a call gives its clocks back.
THEOREM ClockControl == Spec => []ClocksAreRight
<1>1. IInv => ClocksAreRight
  BY Reliable DEF IInv, CallsAreOrdered, ClocksAreRight, ClocksAreSequenced, AtRest
<1> QED
  BY <1>1, Invariant, PTL

\* The chip goes to sleep by the application's call or after its transmission.
THEOREM Sleeps == Spec => SleepsWhenAsked
<1> DEFINE Asked == doing = "dwt_entersleep" \/ (doing = "nothing" /\ ATXSLP)
<1>1. IInv /\ [Next]_vars => [~asleep /\ asleep' => Asked]_vars
  <2> SUFFICES ASSUME IInv, Next, ~asleep, asleep' PROVE Asked
    OBVIOUS
  <2>1. Step \/ SleepAfterTx
    BY DEF Next, Call, dwt_initialise, dwt_configure, dwt_enableframefilter,
           dwt_setsmarttxpower, dwt_setdblrxbuffmode, dwt_setrxtimeout,
           dwt_entersleepaftertx, dwt_enableautoack, dwt_configuresleep, MaySet, WakeUp,
           ProcessorReset, chip
  <2>2. CASE Step
    <3>1. doing \notin Clocked
      BY <2>2, ClockedStep
    <3>2. doing # "dwt_initialise"
      BY <2>2, InitialiseStep
    <3>3. doing # "dwt_readtempvbat_fast"
      <4>1. SUFFICES ASSUME doing = "dwt_readtempvbat_fast" PROVE FALSE
        OBVIOUS
      <4>2. todo = <<"SAR_PLL">>
        BY <2>2, <4>1, FastRead DEF IInv, InUnforced, Step
      <4>3. Head(todo) = "SAR_PLL"
        BY <4>2
      <4>4. asleep' = asleep
        BY <2>2, <4>3 DEF Step, Access, Other, chip
      <4> QED
        BY <4>4
    <3> QED
      BY <2>2, <3>1, <3>2, <3>3, StepOf DEF Unforced
  <2>3. CASE SleepAfterTx
    BY <2>3 DEF SleepAfterTx
  <2> QED
    BY <2>1, <2>2, <2>3
<1> QED
  BY <1>1, Invariant, PTL DEF Spec, SleepsWhenAsked

---------------------------------------------------------------------------
(* Otp *)

\* The steps of dwt_otpwriteandverify and the state of the chip: the mode registers follow the
\* step, and a pulse is under way only while it is waited for, for the word and
\* the value of the call.
Phases ==
  /\ pc = "idle" => regs = Registers(0)
  /\ pc \in {"program", "wait", "check"} => regs = Registers(1) /\ retry < MaxRetry
  /\ pc = "verify" => regs = Registers(4)
  /\ pc # "wait" => ~pulse
  /\ pulse => OTP_WDAT = value /\ OTP_ADDR = address /\ ~OTPPRGD
  /\ prog_ok # "none" => pc = "idle"

OtpIInv == OtpTypeOK /\ Phases /\ AnswerIsTrue

\* The three modes that are used differ in what decides a reading.
LEMMA Modes ==
  /\ Registers(0) = [mra |-> 0, mrb |-> 0, mr |-> 0]
  /\ Registers(1) = [mra |-> 37408, mrb |-> 14, mr |-> 4132]
  /\ Registers(4) = [mra |-> 0, mrb |-> 3, mr |-> 0]
BY DEF Registers

\* At a low read margin a read returns the solid bits.
LEMMA StressedReading ==
  ASSUME regs = Registers(4), NEW a, NEW reading \in Readings(a)
  PROVE  reading = Solid(a)
BY Modes DEF Readings

\* A word's index is one of the memory's.
LEMMA WordIndex ==
  ASSUME NEW a \in Addresses
  PROVE  a % Words \in 0..(Words - 1)
BY OtpAssumption DEF Addresses

\* Init makes the invariant true.
LEMMA OtpInitially == OtpInit => OtpIInv
<1> SUFFICES ASSUME OtpInit PROVE OtpIInv
  OBVIOUS
<1>1. 0 \in Addresses
  BY OtpAssumption DEF Addresses
<1>2. memory \in [0..(Words - 1) -> [Bits -> 0..2]]
  <2>1. [Bits -> {0, 2}] \subseteq [Bits -> 0..2]
    OBVIOUS
  <2> QED BY <2>1 DEF OtpInit
<1>3. OtpTypeOK
  <2>1. regs \in {Registers(0), Registers(1), Registers(4)}
    BY DEF OtpInit
  <2>2. OTP_WDAT \subseteq Bits /\ value \subseteq Bits
    BY Zenon DEF OtpInit
  <2>3. OTP_ADDR \in Addresses /\ address \in Addresses /\ retry \in 0..MaxRetry
    BY <1>1 DEF OtpInit, MaxRetry
  <2>4. /\ OTPPRGD \in BOOLEAN /\ pulse \in BOOLEAN /\ supply \in BOOLEAN
        /\ pc \in {"idle", "program", "wait", "check", "verify"}
        /\ prog_ok \in {"none", "DWT_SUCCESS", "DWT_ERROR"}
    BY DEF OtpInit
  <2> QED BY <1>2, <2>1, <2>2, <2>3, <2>4 DEF OtpTypeOK
<1>4. Phases /\ AnswerIsTrue
  BY DEF OtpInit, Phases, AnswerIsTrue
<1> QED BY <1>3, <1>4 DEF OtpIInv

\* A pulse changes bits of the call's value in the call's word only.
LEMMA PulseKeeps ==
  ASSUME OtpIInv, Pulse
  PROVE  /\ memory' \in [0..(Words - 1) -> [Bits -> 0..2]]
         /\ \A a \in 0..(Words - 1), b \in Bits :
              memory'[a][b] # memory[a][b] => a = address % Words /\ b \in value
<1> PICK word \in [Bits -> 0..2] :
      /\ \A b \in Bits : b \notin OTP_WDAT \/ ~OTPVPOK
                           => word[b] = memory[OTP_ADDR % Words][b]
      /\ memory' = [memory EXCEPT ![OTP_ADDR % Words] = word]
  BY DEF Pulse
<1>1. OTP_ADDR % Words \in 0..(Words - 1)
  BY WordIndex DEF OtpIInv, OtpTypeOK
<1>2. OTP_WDAT = value /\ OTP_ADDR = address
  BY DEF OtpIInv, Phases, Pulse
<1>3. memory \in [0..(Words - 1) -> [Bits -> 0..2]]
  BY DEF OtpIInv, OtpTypeOK
<1>4. ASSUME NEW a \in 0..(Words - 1), NEW b \in Bits, memory'[a][b] # memory[a][b]
      PROVE  a = address % Words /\ b \in value
  BY <1>1, <1>2, <1>3, <1>4
<1> QED BY <1>1, <1>3, <1>4

\* Every step keeps the invariant.
LEMMA OtpInductive == OtpIInv /\ [OtpNext]_otpVars => OtpIInv'
<1> SUFFICES ASSUME OtpIInv, [OtpNext]_otpVars PROVE OtpIInv'
  OBVIOUS
<1> USE OtpAssumption
<1>1. ASSUME NEW v \in SUBSET Bits, NEW a \in Addresses, WriteAndVerify(v, a) PROVE OtpIInv'
  BY <1>1 DEF WriteAndVerify, OtpIInv, OtpTypeOK, Phases, AnswerIsTrue, Solid, MaxRetry
<1>2. CASE _dwt_otpprogword32
  <2>1. CASE ~OTPVPOK
    BY <1>2, <2>1 DEF _dwt_otpprogword32, OtpIInv, OtpTypeOK, Phases, AnswerIsTrue, Solid,
                      memoryChip
  <2>2. CASE OTPVPOK
    BY <1>2, <2>2 DEF _dwt_otpprogword32, OtpIInv, OtpTypeOK, Phases, AnswerIsTrue, Solid
  <2> QED BY <2>1, <2>2
<1>3. CASE Wait
  BY <1>3 DEF Wait, OtpIInv, OtpTypeOK, Phases, AnswerIsTrue, Solid, memoryChip
<1>4. CASE Check
  <2> PICK reading \in Readings(address) :
         /\ retry' = IF reading = value THEN retry ELSE retry + 1
         /\ IF reading = value \/ retry' = MaxRetry
            THEN pc' = "verify" /\ regs' = Registers(4)
            ELSE pc' = "program" /\ UNCHANGED regs
    BY <1>4 DEF Check
  <2>1. retry' \in 0..MaxRetry /\ (pc' = "program" => retry' < MaxRetry)
    BY <1>4 DEF Check, OtpIInv, OtpTypeOK, Phases, MaxRetry
  <2> QED BY <1>4, <2>1 DEF Check, OtpIInv, OtpTypeOK, Phases, AnswerIsTrue
<1>5. CASE Verify
  <2>1. prog_ok' = IF Solid(address) = value THEN "DWT_SUCCESS" ELSE "DWT_ERROR"
    BY <1>5, StressedReading DEF Verify, OtpIInv, Phases
  <2>2. Solid(address)' = Solid(address)
    BY <1>5 DEF Verify, Solid
  <2>3. AnswerIsTrue'
    BY <1>5, <2>1, <2>2 DEF AnswerIsTrue, Verify
  <2> QED BY <1>5, <2>1, <2>3 DEF Verify, OtpIInv, OtpTypeOK, Phases
<1>6. CASE Pulse
  <2>1. OtpTypeOK'
    BY <1>6, PulseKeeps DEF Pulse, OtpIInv, OtpTypeOK, host
  <2>2. Phases'
    BY <1>6 DEF Pulse, OtpIInv, Phases, host
  <2>3. AnswerIsTrue'
    BY <1>6 DEF Pulse, OtpIInv, Phases, AnswerIsTrue, host
  <2> QED BY <2>1, <2>2, <2>3 DEF OtpIInv
<1>7. CASE Supply
  BY <1>7 DEF Supply, OtpIInv, OtpTypeOK, Phases, AnswerIsTrue, Solid, host
<1>8. CASE Reset
  BY <1>8 DEF Reset, OtpIInv, OtpTypeOK, Phases, AnswerIsTrue, Solid
<1>9. CASE UNCHANGED otpVars
  BY <1>9 DEF otpVars, memoryChip, host, OtpIInv, OtpTypeOK, Phases, AnswerIsTrue, Solid
<1> QED
  BY <1>1, <1>2, <1>3, <1>4, <1>5, <1>6, <1>7, <1>8, <1>9
  DEF OtpNext, dwt_otpwriteandverify

\* The invariant holds in every state.
THEOREM OtpInvariant == OtpSpec => []OtpIInv
BY OtpInitially, OtpInductive, PTL DEF OtpSpec

\* Every variable keeps its type: retry never passes its bound.
THEOREM OtpTypeCorrect == OtpSpec => []OtpTypeOK
<1>1. OtpIInv => OtpTypeOK
  BY DEF OtpIInv
<1> QED BY <1>1, OtpInvariant, PTL

\* What dwt_otpwriteandverify answers is true of the memory.
THEOREM AnswerCorrect == OtpSpec => []AnswerIsTrue
<1>1. OtpIInv => AnswerIsTrue
  BY DEF OtpIInv
<1> QED BY <1>1, OtpInvariant, PTL

\* Between calls the memory is read with the normal margin, and during a call
\* never while it is being programmed.
THEOREM ReadsAreSafe == OtpSpec => []ReadsAreRight
<1>1. OtpIInv => ReadsAreRight
  BY DEF OtpIInv, Phases, ReadsAreRight, ReadsAreNormal, NoReadDuringPulse
<1> QED BY <1>1, OtpInvariant, PTL

\* No step of any call changes a bit it was not asked to set.
THEOREM OnlyTheWord == OtpSpec => OnlyTheWordAskedFor
<1> DEFINE Asked == \A a \in 0..(Words - 1), b \in Bits :
       memory'[a][b] # memory[a][b] => a = address % Words /\ b \in value
<1>1. ASSUME OtpIInv, [OtpNext]_otpVars PROVE Asked \/ memory' = memory
  <2>1. CASE Pulse
    BY <1>1, <2>1, PulseKeeps
  <2>2. CASE ~Pulse
    BY <1>1, <2>2 DEF OtpNext, dwt_otpwriteandverify, WriteAndVerify, _dwt_otpprogword32,
                      Wait, Check, Verify, Supply, Reset, otpVars, memoryChip
  <2> QED BY <2>1, <2>2
<1>2. OtpIInv /\ [OtpNext]_otpVars => [Asked]_memory
  BY <1>1
<1> QED BY <1>2, OtpInvariant, PTL DEF OtpSpec, OnlyTheWordAskedFor
=============================================================================
