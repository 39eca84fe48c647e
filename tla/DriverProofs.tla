---------------------------- MODULE DriverProofs ----------------------------
(***************************************************************************)
(* The search of dwt_calcbandwidthtempadj finds the nearest PG_DELAY for   *)
(* any number of bits, counts, target and noise, and the calls give the    *)
(* registers they took over back, whatever the options are.  And what the  *)
(* driver's computations return, for all their arguments: the header and   *)
(* the bytes of a register access, the correction of a distance, the power *)
(* setting for a temperature, and the registers of a radio configuration.  *)
(***************************************************************************)
EXTENDS RegisterAccess, RangeBias, TxPower, RadioConfig, Calibration, FiniteSetTheorems,
        SequenceTheorems, WellFoundedInduction, TLAPS

---------------------------------------------------------------------------
(* The search *)

\* Between two rounds of the loop, Lo is the last delay that was kept and Hi the
\* last that was not: each has been tried, or is an end.
Lo == curr_bw
Hi == curr_bw + Bit[i]

Searching == at \in {"search", "found"}

\* Bits from i + 1 on are not set yet.
Window ==
  Searching =>
    /\ i \in 0 .. Loops /\ (at = "found" <=> i = Loops)
    /\ curr_bw \in Bit[0] .. 2 * Bit[0] - Bit[i]

\* What delta_lowest is the distance of, but for the noise.
BestInv ==
  Searching =>
    IF best_bw = 0 THEN delta_lowest = MaxDelta
    ELSE /\ best_bw \in Delays /\ Distance(pgcount[best_bw]) <= delta_lowest + Noise
         /\ delta_lowest < MaxDelta

\* Lo read above the target and Hi did not, and neither read nearer than the best.
LoInv ==
  Searching => Lo = Bit[0] \/ delta_lowest + target <= pgcount[Lo] + Noise

HiInv ==
  Searching => Hi = 2 * Bit[0] \/ delta_lowest + pgcount[Hi] <= target + Noise

Types ==
  /\ pgcount \in Temperatures
  /\ at \in {"boot", "main", "search", "found", "sample", "sampled"}
  /\ i \in Nat /\ target \in Nat /\ curr_bw \in Nat /\ best_bw \in Nat /\ delta_lowest \in Nat

SearchInv == Types /\ Window /\ BestInv /\ LoInv /\ HiInv

\* The bits as numbers.
LEMMA Bits ==
  ASSUME NEW n \in 0 .. Loops
  PROVE  /\ Bit[n] \in Nat /\ Bit[n] > 0
         /\ n < Loops => n + 1 \in 0 .. Loops /\ Bit[n] = 2 * Bit[n + 1]
  BY CalibrationAssumption

\* A temperature gives each delay a count, and no longer delay a higher one.
LEMMA Counts ==
  ASSUME NEW c \in Temperatures
  PROVE  /\ \A d \in Delays : c[d] \in Nat
         /\ \A d, e \in Delays : d <= e => c[e] <= c[d]
  BY TemperatureAssumption

\* The next delay to try is one of the delays.
LEMMA TrialIsADelay ==
  ASSUME Types, Window, at = "search"
  PROVE  /\ i \in 0 .. Loops - 1 /\ i + 1 \in 0 .. Loops
         /\ curr_bw + Bit[i + 1] \in Delays
         /\ curr_bw + Bit[i + 1] <= 2 * Bit[0] - Bit[i + 1]
         /\ curr_bw + Bit[i] = (curr_bw + Bit[i + 1]) + Bit[i + 1]
  <1>1. i \in 0 .. Loops /\ i # Loops /\ curr_bw \in Bit[0] .. 2 * Bit[0] - Bit[i]
    BY DEF Types, Window, Searching
  <1>2. Loops \in Nat
    BY CalibrationAssumption
  <1>3. i \in 0 .. Loops - 1 /\ i + 1 \in 0 .. Loops /\ i < Loops
    BY <1>1, <1>2
  <1>4. Bit[i + 1] \in Nat /\ Bit[i + 1] > 0 /\ Bit[i] = 2 * Bit[i + 1] /\ Bit[0] \in Nat
    BY <1>1, <1>2, <1>3, Bits
  <1> QED BY <1>1, <1>3, <1>4 DEF Delays

\* A reading is as far from the target as its count, but for the noise.
LEMMA NoisyDistance ==
  ASSUME NEW d \in Delays, NEW r \in Readings(d), Types
  PROVE  /\ r \in Nat /\ Distance(r) \in Nat
         /\ Distance(pgcount[d]) <= Distance(r) + Noise
         /\ r > target => Distance(r) + target <= pgcount[d] + Noise
         /\ ~(r > target) => Distance(r) + pgcount[d] <= target + Noise
  <1>1. pgcount[d] \in Nat /\ target \in Nat
    BY Counts DEF Types
  <1>2. Noise \in Nat
    BY CalibrationAssumption
  <1>3. r \in Nat /\ r <= pgcount[d] + Noise /\ pgcount[d] <= r + Noise
    BY <1>1, <1>2 DEF Readings
  <1> QED BY <1>1, <1>2, <1>3 DEF Distance

\* The window narrows around what the trial shows.
LEMMA TryKeeps ==
  ASSUME SearchInv, TryBit
  PROVE  SearchInv'
  <1> USE DEF Searching
  <1> PICK trial : trial = curr_bw + Bit[i + 1]
    OBVIOUS
  <1>0. Types /\ Window /\ BestInv /\ LoInv /\ HiInv /\ at = "search"
    BY DEF SearchInv, TryBit
  <1>1. /\ i \in 0 .. Loops - 1 /\ i + 1 \in 0 .. Loops
        /\ trial \in Delays /\ trial <= 2 * Bit[0] - Bit[i + 1]
        /\ curr_bw + Bit[i] = trial + Bit[i + 1]
    BY <1>0, TrialIsADelay
  <1>2. /\ Bit[i + 1] \in Nat /\ Bit[i + 1] > 0 /\ Bit[0] \in Nat /\ Bit[0] > 0
        /\ Loops \in Nat /\ MaxDelta \in Nat /\ Noise \in Nat
    BY <1>1, Bits, CalibrationAssumption
  <1>3. pgcount[trial] \in Nat /\ trial \in Nat /\ trial > Bit[0]
    BY <1>0, <1>1, <1>2, Counts DEF Types, Delays
  <1> PICK r \in Readings(trial) :
        /\ curr_bw' = IF KeepBit(r) THEN trial ELSE curr_bw
        /\ IF Distance(r) < delta_lowest
           THEN delta_lowest' = Distance(r) /\ best_bw' = trial
           ELSE UNCHANGED <<delta_lowest, best_bw>>
    BY DEF TryBit
  <1>4. /\ pgcount' = pgcount /\ target' = target /\ i' = i + 1
        /\ at' = IF i + 1 = Loops THEN "found" ELSE "search"
        /\ curr_bw' = IF r > target THEN trial ELSE curr_bw
        /\ IF Distance(r) < delta_lowest
           THEN delta_lowest' = Distance(r) /\ best_bw' = trial
           ELSE delta_lowest' = delta_lowest /\ best_bw' = best_bw
    BY DEF TryBit, KeepBit
  <1>5. /\ r \in Nat /\ Distance(r) \in Nat
        /\ Distance(pgcount[trial]) <= Distance(r) + Noise
        /\ r > target => Distance(r) + target <= pgcount[trial] + Noise
        /\ ~(r > target) => Distance(r) + pgcount[trial] <= target + Noise
    BY <1>0, <1>1, NoisyDistance
  <1>t. delta_lowest \in Nat /\ target \in Nat /\ curr_bw \in Nat /\ best_bw \in Nat
    BY <1>0 DEF Types
  <1>d. delta_lowest' \in Nat /\ delta_lowest' <= Distance(r) /\ delta_lowest' <= delta_lowest
    BY <1>t, <1>4, <1>5
  <1>6. Types'
    BY <1>0, <1>3, <1>4, <1>d, <1>1 DEF Types
  <1>7. Window'
    <2>1. i' \in 0 .. Loops /\ (at' = "found" <=> i' = Loops)
      BY <1>1, <1>4
    <2>2. curr_bw \in Nat /\ Bit[0] <= curr_bw /\ curr_bw <= trial
      BY <1>0, <1>1, <1>2, <1>3 DEF Window, Types
    <2>3. /\ trial \in Bit[0] .. 2 * Bit[0] - Bit[i + 1]
          /\ curr_bw \in Bit[0] .. 2 * Bit[0] - Bit[i + 1]
      BY <2>2, <1>1, <1>2, <1>3
    <2> QED BY <2>1, <2>3, <1>4 DEF Window
  <1>8. BestInv'
    <2>1. CASE Distance(r) < delta_lowest
      <3>1. best_bw' = trial /\ delta_lowest' = Distance(r)
        BY <2>1, <1>4
      <3>2. delta_lowest <= MaxDelta
        BY <1>0, <1>2, <1>t DEF BestInv
      <3>3. Distance(r) < MaxDelta
        BY <3>2, <2>1, <1>2, <1>5, <1>t
      <3>4. Distance(pgcount[best_bw])' = Distance(pgcount[trial])
        BY <3>1, <1>4 DEF Distance
      <3>5. best_bw' # 0 /\ (best_bw \in Delays)'
        BY <3>1, <1>1, <1>3, <1>2 DEF Delays
      <3> QED BY <3>1, <3>3, <3>4, <3>5, <1>5 DEF BestInv
    <2>2. CASE ~(Distance(r) < delta_lowest)
      <3>1. best_bw' = best_bw /\ delta_lowest' = delta_lowest
        BY <2>2, <1>4
      <3>2. Distance(pgcount[best_bw])' = Distance(pgcount[best_bw])
        BY <3>1, <1>4 DEF Distance
      <3> QED BY <3>1, <3>2, <1>0 DEF BestInv, Delays
    <2> QED BY <2>1, <2>2
  <1>9. LoInv'
    <2>1. CASE r > target
      <3>1. Lo' = trial
        BY <2>1, <1>4 DEF Lo
      <3>2. delta_lowest' + target <= pgcount[trial] + Noise
        BY <2>1, <1>2, <1>3, <1>5, <1>d, <1>t
      <3> QED BY <3>1, <3>2, <1>4 DEF LoInv
    <2>2. CASE ~(r > target)
      <3>1. Lo' = Lo
        BY <2>2, <1>4 DEF Lo
      <3>2. CASE Lo = Bit[0]
        BY <3>1, <3>2 DEF LoInv
      <3>3. CASE Lo # Bit[0]
        <4>1. delta_lowest + target <= pgcount[Lo] + Noise
          BY <1>0, <3>3 DEF LoInv
        <4>2. Lo \in Delays
          BY <1>0, <1>t, <3>3, <1>1, <1>2, <1>3 DEF Window, Lo, Delays
        <4>3. pgcount[Lo] \in Nat
          BY <4>2, <1>0, Counts DEF Types
        <4>4. delta_lowest' + target <= pgcount[Lo] + Noise
          BY <4>1, <4>3, <1>d, <1>t, <1>2
        <4> QED BY <4>4, <3>1, <1>4 DEF LoInv
      <3> QED BY <3>2, <3>3
    <2> QED BY <2>1, <2>2
  <1>10. HiInv'
    <2>1. CASE r > target
      <3>1. Hi' = Hi
        BY <2>1, <1>1, <1>4 DEF Hi
      <3>2. CASE Hi = 2 * Bit[0]
        BY <3>1, <3>2 DEF HiInv
      <3>3. CASE Hi # 2 * Bit[0]
        <4>1. delta_lowest + pgcount[Hi] <= target + Noise
          BY <1>0, <3>3 DEF HiInv
        <4>2. Hi = trial + Bit[i + 1]
          BY <1>1 DEF Hi
        <4>3. Hi \in Delays
          BY <4>2, <3>3, <1>1, <1>2, <1>3 DEF Delays
        <4>4. pgcount[Hi] \in Nat
          BY <4>3, <1>0, Counts DEF Types
        <4>5. delta_lowest' + pgcount[Hi] <= target + Noise
          BY <4>1, <4>4, <1>d, <1>t, <1>2
        <4> QED BY <4>5, <3>1, <1>4 DEF HiInv
      <3> QED BY <3>2, <3>3
    <2>2. CASE ~(r > target)
      <3>1. Hi' = trial
        BY <2>2, <1>4 DEF Hi
      <3>2. delta_lowest' + pgcount[trial] <= target + Noise
        BY <2>2, <1>2, <1>3, <1>5, <1>d, <1>t
      <3> QED BY <3>1, <3>2, <1>4 DEF HiInv
    <2> QED BY <2>1, <2>2
  <1> QED BY <1>6, <1>7, <1>8, <1>9, <1>10 DEF SearchInv

\* When a search begins, both ends of the window are untried.
LEMMA SearchBegins ==
  ASSUME NEW t \in Targets, SearchInv, dwt_calcbandwidthtempadj(t)
  PROVE  SearchInv'
  <1>1. Loops \in Nat \ {0} /\ MaxDelta \in Nat /\ t \in Nat
    BY CalibrationAssumption
  <1>2. Bit[0] \in Nat /\ Bit[0] > 0
    BY <1>1, Bits
  <1>3. /\ i' = 0 /\ at' = "search" /\ pgcount' = pgcount /\ target' = t
        /\ curr_bw' = Bit[0] /\ best_bw' = 0 /\ delta_lowest' = MaxDelta
    BY DEF dwt_calcbandwidthtempadj, TakeOver
  <1>4. Types'
    BY <1>1, <1>2, <1>3 DEF SearchInv, Types
  <1>5. Window' /\ BestInv' /\ LoInv' /\ HiInv'
    BY <1>1, <1>2, <1>3 DEF Window, BestInv, LoInv, HiInv, Lo, Hi
  <1> QED BY <1>4, <1>5 DEF SearchInv

\* Elsewhere there is no search to keep up.
LEMMA NoSearch ==
  ASSUME Types', at' \notin {"search", "found"}
  PROVE  SearchInv'
  BY DEF SearchInv, Window, BestInv, LoInv, HiInv, Searching

LEMMA SearchInvHolds == Spec => []SearchInv
  <1>1. Init => SearchInv
    <2> SUFFICES ASSUME Init PROVE SearchInv
      OBVIOUS
    <2>1. Types /\ at \notin {"search", "found"}
      BY DEF Init, Types
    <2> QED BY <2>1 DEF SearchInv, Window, BestInv, LoInv, HiInv, Searching
  <1>2. SearchInv /\ [Next]_vars => SearchInv'
    <2> SUFFICES ASSUME SearchInv, [Next]_vars PROVE SearchInv'
      OBVIOUS
    <2>0. Types
      BY DEF SearchInv
    <2>1. ASSUME NEW loaducode \in BOOLEAN, Boot(loaducode) PROVE SearchInv'
      BY <2>0, <2>1, NoSearch DEF Boot, Elsewhere, search, Types
    <2>2. CASE Application
      BY <2>0, <2>2, NoSearch DEF Application, Elsewhere, search, Types
    <2>3. ASSUME NEW t \in Targets, dwt_calcbandwidthtempadj(t) PROVE SearchInv'
      BY <2>3, SearchBegins
    <2>4. ASSUME NEW d \in Delays, dwt_calcpgcount(d) PROVE SearchInv'
      <3>1. d \in Nat
        BY Bits, CalibrationAssumption DEF Delays
      <3> QED BY <3>1, <2>0, <2>4, NoSearch DEF dwt_calcpgcount, TakeOver, Types
    <2>5. CASE TryBit
      BY <2>5, TryKeeps
    <2>6. CASE Sample
      BY <2>0, <2>6, NoSearch DEF Sample, search, Types
    <2>7. CASE Return
      BY <2>0, <2>7, NoSearch DEF Return, Locals, Types
    <2>8. CASE ProcessorReset
      BY <2>0, <2>8, NoSearch DEF ProcessorReset, Locals, Types
    <2>9. CASE Drift
      BY <2>0, <2>9, NoSearch DEF Drift, search, Types
    <2>10. CASE UNCHANGED vars
      BY <2>10 DEF vars, search, SearchInv, Types, Window, BestInv, LoInv, HiInv, Searching,
                   Lo, Hi, Distance
    <2> QED BY <2>1, <2>2, <2>3, <2>4, <2>5, <2>6, <2>7, <2>8, <2>9, <2>10 DEF Next
  <1> QED BY <1>1, <1>2, PTL DEF Spec

\* When no bit is left, the window has no delay inside, and no delay on either
\* side of it is nearer than the one at its edge.
LEMMA FoundIsClosest ==
  ASSUME SearchInv, at = "found"
  PROVE  BestIsClosest
  <1>0. Types /\ Window /\ BestInv /\ LoInv /\ HiInv /\ Searching
    BY DEF SearchInv, Searching
  <1>1. i = Loops /\ Bit[i] = 1 /\ Bit[0] \in Nat /\ MaxDelta \in Nat /\ Noise \in Nat
    BY <1>0, Bits, CalibrationAssumption DEF Window
  <1>2. Hi = Lo + 1 /\ Lo \in Nat /\ Bit[0] <= Lo /\ Lo <= 2 * Bit[0] - 1
    BY <1>0, <1>1 DEF Hi, Lo, Window, Types
  <1>3. target \in Nat /\ delta_lowest \in Nat
    BY <1>0 DEF Types
  <1>c. \A d \in Delays : pgcount[d] \in Nat /\ Distance(pgcount[d]) \in Nat
    <2> TAKE d \in Delays
    <2>1. pgcount[d] \in Nat
      BY <1>0, Counts DEF Types
    <2> QED BY <2>1, <1>3 DEF Distance
  <1>4. ASSUME NEW d \in Delays PROVE delta_lowest <= Distance(pgcount[d]) + Noise
    <2>1. d \in Nat /\ Bit[0] < d /\ d < 2 * Bit[0]
      BY <1>1 DEF Delays
    <2>2. pgcount[d] \in Nat
      BY <1>c
    <2>3. CASE d <= Lo
      <3>1. Lo # Bit[0] /\ Lo \in Delays
        BY <2>1, <2>3, <1>1, <1>2 DEF Delays
      <3>2. pgcount[Lo] \in Nat /\ pgcount[Lo] <= pgcount[d]
        BY <3>1, <2>3, <1>0, Counts DEF Types
      <3>3. delta_lowest + target <= pgcount[Lo] + Noise
        BY <3>1, <1>0 DEF LoInv
      <3>4. delta_lowest + target <= pgcount[d] + Noise
        BY <3>2, <3>3, <2>2, <1>1, <1>3
      <3> QED BY <3>4, <2>2, <1>1, <1>3 DEF Distance
    <2>4. CASE d >= Hi
      <3>1. Hi # 2 * Bit[0] /\ Hi \in Delays
        BY <2>1, <2>4, <1>1, <1>2 DEF Delays
      <3>2. pgcount[Hi] \in Nat /\ pgcount[d] <= pgcount[Hi]
        BY <3>1, <2>4, <1>0, Counts DEF Types
      <3>3. delta_lowest + pgcount[Hi] <= target + Noise
        BY <3>1, <1>0 DEF HiInv
      <3>4. delta_lowest + pgcount[d] <= target + Noise
        BY <3>2, <3>3, <2>2, <1>1, <1>3
      <3> QED BY <3>4, <2>2, <1>1, <1>3 DEF Distance
    <2> QED BY <2>1, <2>3, <2>4, <1>2
  <1>5. CASE best_bw = 0
    <2>1. delta_lowest = MaxDelta
      BY <1>0, <1>5 DEF BestInv
    <2> QED BY <2>1, <1>1, <1>4, <1>5, <1>c DEF BestIsClosest
  <1>6. CASE best_bw # 0
    <2>1. /\ best_bw \in Delays /\ Distance(pgcount[best_bw]) <= delta_lowest + Noise
          /\ delta_lowest < MaxDelta
      BY <1>0, <1>6 DEF BestInv
    <2>2. Distance(pgcount[best_bw]) \in Nat
      BY <2>1, <1>c
    <2>3. Distance(pgcount[best_bw]) < MaxDelta + Noise
      BY <2>1, <2>2, <1>1, <1>3
    <2>4. \A d \in Delays : Distance(pgcount[best_bw]) <= Distance(pgcount[d]) + 2 * Noise
      <3> TAKE d \in Delays
      <3>1. delta_lowest <= Distance(pgcount[d]) + Noise /\ Distance(pgcount[d]) \in Nat
        BY <1>4, <1>c
      <3> QED BY <3>1, <2>1, <2>2, <1>1, <1>3
    <2> QED BY <2>1, <2>3, <2>4, <1>6 DEF BestIsClosest
  <1> QED BY <1>5, <1>6

\* dwt_calcbandwidthtempadj returns a PG_DELAY whose count is, but for the noise of
\* two readings, nearest to the target, and 0 only when no delay reads within
\* MaxDelta, for any number of bits, any counts that fall with the delay, any
\* target and any noise; the very nearest when there is none.
THEOREM Closest == Spec => []BestIsClosest
  <1>1. SearchInv => BestIsClosest
    BY FoundIsClosest DEF BestIsClosest
  <1> QED BY <1>1, SearchInvHolds, PTL

---------------------------------------------------------------------------
(* The options *)

\* While a call is under way, the rest is as the application asked, and what was
\* saved will be.
TakenAsAsked ==
  /\ old.ctrl0 = IF InTest THEN {"SYSCLKS_125M", "TXCLKS_125M"} ELSE {}
  /\ "CWCLKS" \in PMSC_CTRL0 <=> "CW" \in asked
  /\ old.rfconf = IF InTest THEN TXALLEN ELSE {}
  /\ old.ctrl1 \subseteq LowHalf
  /\ "PKTSEQ" \in old.ctrl1 <=> ~InTest
  /\ fineSeq <=> "FINESEQ" \in asked
  /\ PMSC_CTRL0 \cap Byte2 = IF "LEDCLOCKS" \in asked THEN Byte2 ELSE {}
  /\ "PLL2_SEQ_EN" \in PMSC_CTRL0 <=> "SNIFF" \in asked
  /\ "ATXSLP" \in old.ctrl1 <=> "ATXSLP" \in asked
  /\ old.ctrl1 \cap {"ARXSLP", "SNOZE"} = IF "LPL" \in asked THEN {"ARXSLP", "SNOZE"} ELSE {}
  /\ "LDERUNE" \in PMSC_CTRL1 <=> "LDE" \in asked

OptionsInv ==
  /\ PinsAsAsked
  /\ at = "main" => ForcedAsAsked /\ SetAsAsked
  /\ at \in {"search", "found", "sample", "sampled"} => TakenAsAsked

\* The bits and fields are different ones.
USE DEF Byte0, Byte1, Byte2, Byte3, SysClocks, LowHalf, TXALLEN, TXPLLPOWEN, LedPins, Pins,
        TestModes, InTest, WritePart, Put

\* Every call that changes an option does what was asked, and no more.
LEMMA OptionKeeps ==
  ASSUME ForcedAsAsked, SetAsAsked, PinsAsAsked, Option
  PROVE  (ForcedAsAsked /\ SetAsAsked /\ PinsAsAsked)'
  <1> USE DEF MayOption
  <1>1. ASSUME NEW on \in BOOLEAN, dwt_setleds(on)
        PROVE  (ForcedAsAsked /\ SetAsAsked /\ PinsAsAsked)'
    BY <1>1 DEF dwt_setleds, ForcedAsAsked, SetAsAsked, PinsAsAsked
  <1>2. ASSUME NEW on \in BOOLEAN, dwt_setsniffmode(on)
        PROVE  (ForcedAsAsked /\ SetAsAsked /\ PinsAsAsked)'
    BY <1>2 DEF dwt_setsniffmode, ForcedAsAsked, SetAsAsked, PinsAsAsked
  <1>3. ASSUME NEW on \in BOOLEAN, dwt_entersleepaftertx(on)
        PROVE  (ForcedAsAsked /\ SetAsAsked /\ PinsAsAsked)'
    BY <1>3 DEF dwt_entersleepaftertx, ForcedAsAsked, SetAsAsked, PinsAsAsked
  <1>4. ASSUME NEW on \in BOOLEAN, dwt_setlowpowerlistening(on)
        PROVE  (ForcedAsAsked /\ SetAsAsked /\ PinsAsAsked)'
    BY <1>4 DEF dwt_setlowpowerlistening, ForcedAsAsked, SetAsAsked, PinsAsAsked
  <1>5. ASSUME NEW on \in BOOLEAN, dwt_setfinegraintxseq(on)
        PROVE  (ForcedAsAsked /\ SetAsAsked /\ PinsAsAsked)'
    BY <1>5 DEF dwt_setfinegraintxseq, ForcedAsAsked, SetAsAsked, PinsAsAsked
  <1>6. ASSUME NEW lna \in BOOLEAN, NEW pa \in BOOLEAN, dwt_setlnapamode(lna, pa)
        PROVE  (ForcedAsAsked /\ SetAsAsked /\ PinsAsAsked)'
    BY <1>6 DEF dwt_setlnapamode, ForcedAsAsked, SetAsAsked, PinsAsAsked
  <1>7. CASE dwt_configcwmode
    BY <1>7 DEF dwt_configcwmode, _dwt_disablesequencing, Unsequenced,
                ForcedAsAsked, SetAsAsked, PinsAsAsked
  <1>8. CASE dwt_configcontinuousframemode
    BY <1>8 DEF dwt_configcontinuousframemode, _dwt_disablesequencing, Unsequenced,
                ForcedAsAsked, SetAsAsked, PinsAsAsked
  <1>9. CASE dwt_rxreset
    BY <1>9 DEF dwt_rxreset, ForcedAsAsked, SetAsAsked, PinsAsAsked
  <1> QED BY <1>1, <1>2, <1>3, <1>4, <1>5, <1>6, <1>7, <1>8, <1>9 DEF Option

LEMMA OptionsInvHolds == Spec => []OptionsInv
  <1>1. Init => OptionsInv
    BY DEF Init, OptionsInit, OptionsInv, PinsAsAsked
  <1>2. OptionsInv /\ [Next]_vars => OptionsInv'
    <2> SUFFICES ASSUME OptionsInv, [Next]_vars PROVE OptionsInv'
      OBVIOUS
    <2> USE DEF OptionsInv
    <2>1. ASSUME NEW loaducode \in BOOLEAN, Boot(loaducode) PROVE OptionsInv'
      <3>1. (PinsAsAsked /\ ForcedAsAsked /\ SetAsAsked)'
        BY <2>1 DEF Boot, dwt_initialise, ForcedAsAsked, SetAsAsked, PinsAsAsked
      <3> QED BY <2>1, <3>1 DEF Boot
    <2>2. CASE Application
      <3>1. (PinsAsAsked /\ ForcedAsAsked /\ SetAsAsked)'
        BY <2>2, OptionKeeps DEF Application
      <3> QED BY <2>2, <3>1 DEF Application
    <2>3. ASSUME TakeOver, at' \in {"search", "sample"} PROVE OptionsInv'
      <3>1. PinsAsAsked'
        BY <2>3 DEF TakeOver, PinsAsAsked
      <3>2. TakenAsAsked'
        <4>1. PinsAsAsked /\ ForcedAsAsked /\ SetAsAsked
          BY <2>3 DEF TakeOver
        <4> QED BY <2>3, <4>1 DEF TakeOver, Saved, TakenAsAsked, ForcedAsAsked, SetAsAsked
      <3> QED BY <2>3, <3>1, <3>2
    <2>4. ASSUME NEW t \in Targets, dwt_calcbandwidthtempadj(t) PROVE OptionsInv'
      BY <2>3, <2>4 DEF dwt_calcbandwidthtempadj
    <2>5. ASSUME NEW d \in Delays, dwt_calcpgcount(d) PROVE OptionsInv'
      BY <2>3, <2>5 DEF dwt_calcpgcount
    <2>6. ASSUME UNCHANGED optionVars, UNCHANGED old,
                 at = at' \/ {at, at'} \subseteq {"search", "found", "sample", "sampled"}
          PROVE  OptionsInv'
      <3>1. PinsAsAsked'
        BY <2>6 DEF optionVars, registers, PinsAsAsked
      <3>2. TakenAsAsked => TakenAsAsked'
        BY <2>6 DEF optionVars, registers, TakenAsAsked
      <3>3. ForcedAsAsked /\ SetAsAsked => (ForcedAsAsked /\ SetAsAsked)'
        BY <2>6 DEF optionVars, registers, ForcedAsAsked, SetAsAsked
      <3> QED BY <2>6, <3>1, <3>2, <3>3
    <2>7. CASE TryBit
      BY <2>6, <2>7 DEF TryBit
    <2>8. CASE Sample
      BY <2>6, <2>8 DEF Sample
    <2>9. CASE Return
      <3>1. PinsAsAsked'
        BY <2>9 DEF Return, PinsAsAsked
      <3>2. TakenAsAsked
        BY <2>9 DEF Return
      <3>3. (ForcedAsAsked /\ SetAsAsked)'
        BY <2>9, <3>2 DEF Return, TakenAsAsked, ForcedAsAsked, SetAsAsked
      <3> QED BY <2>9, <3>1, <3>3 DEF Return
    <2>10. CASE ProcessorReset
      <3>1. PinsAsAsked'
        BY <2>10 DEF ProcessorReset, registers, PinsAsAsked
      <3> QED BY <2>10, <3>1 DEF ProcessorReset
    <2>11. CASE Drift
      BY <2>6, <2>11 DEF Drift
    <2>12. CASE UNCHANGED vars
      BY <2>6, <2>12 DEF vars
    <2> QED BY <2>1, <2>2, <2>4, <2>5, <2>7, <2>8, <2>9, <2>10, <2>11, <2>12 DEF Next
  <1> QED BY <1>1, <1>2, PTL DEF Spec

\* Whichever options the application asks for, in whichever order and with
\* whichever calibrations and resets between them: when no call is under way, the
\* registers have all of them.
THEOREM OptionsKept == Spec => []OptionsLast
  <1>1. OptionsInv => OptionsLast
    BY DEF OptionsInv, OptionsLast
  <1> QED BY <1>1, OptionsInvHolds, PTL

---------------------------------------------------------------------------
(* RegisterAccess *)

\* The arithmetic of an index of two bytes.
LEMMA SplitIndex ==
  ASSUME NEW idx \in Indices, idx > 127
  PROVE  /\ idx % 128 \in 0 .. 127 /\ idx \div 128 \in 1 .. 255
         /\ (idx \div 128) % 256 = idx \div 128
         /\ (128 + (idx % 128)) % 128 = idx % 128
         /\ (idx % 128) + 128 * (idx \div 128) = idx
<1> DEFINE low == idx % 128
           high == idx \div 128
<1>1. idx \in Nat /\ idx < 128 * 256
  BY DEF Indices
<1>2. low \in 0 .. 127 /\ high \in Nat /\ low + 128 * high = idx
  BY <1>1
<1>3. high \in 1 .. 255
  BY <1>1, <1>2
<1> HIDE DEF low, high
<1>4. high % 256 = high /\ (128 + low) % 128 = low
  BY <1>2, <1>3
<1> QED
  BY <1>2, <1>3, <1>4 DEF low, high

\* The arithmetic of the first byte of a header.
LEMMA FirstByte ==
  ASSUME NEW operation \in {Read, Write}, NEW r \in Records, NEW flag \in {0, 64},
         NEW first, first = operation + flag + r
  PROVE  /\ first \in Byte /\ first % 64 = r
         /\ first >= Write <=> operation = Write
         /\ (first \div 64) % 2 = 1 <=> flag = 64
BY DEF Read, Write, Records, Byte

\* A header is of one to three bytes, and its length is that of its index.
LEMMA HeaderBytes ==
  ASSUME NEW operation \in {Read, Write}, NEW r \in Records, NEW idx \in Indices,
         NEW h, h = Header(operation, r, idx)
  PROVE  /\ idx = 0 => Len(h) = 1 /\ h[1] = operation + 0 + r
         /\ idx \in 1 .. 127 => Len(h) = 2 /\ h[1] = operation + 64 + r /\ h[2] = idx
         /\ idx > 127 => /\ Len(h) = 3 /\ h[1] = operation + 64 + r
                       /\ h[2] = 128 + (idx % 128) /\ h[3] = (idx \div 128) % 256
         /\ Len(h) = Len(Header(Read, 0, idx)) /\ Len(h) \in 1 .. 3
<1>0. operation \in Int /\ r \in Int /\ idx \in Nat
  BY SMTT(30) DEF Read, Write, Records, Indices
<1>1. CASE idx = 0
  BY <1>0, <1>1 DEF Header
<1>2. CASE idx \in 1 .. 127
  BY <1>0, <1>2 DEF Header
<1>3. CASE idx > 127
  BY <1>0, <1>3 DEF Header
<1> QED
  BY <1>0, <1>1, <1>2, <1>3

\* The chip understands from the bytes sent what the driver put in the header:
\* the operation, the record and the index, whatever follows it.
THEOREM HeaderIsUnderstood ==
  ASSUME NEW operation \in {Read, Write}, NEW r \in Records, NEW idx \in Indices,
         NEW h, h = Header(operation, r, idx),
         NEW sent, \A k \in 1 .. Len(h) : sent[k] = h[k]
  PROVE  /\ \A k \in 1 .. Len(h) : h[k] \in Byte
         /\ IsWrite(sent) <=> operation = Write
         /\ Record(sent) = r /\ Index(sent) = idx /\ HeaderLength(sent) = Len(h)
<1>1. CASE idx = 0
  <2>1. Len(h) = 1 /\ h[1] = operation + 0 + r
    BY <1>1, HeaderBytes
  <2>2. /\ sent[1] \in Byte /\ sent[1] % 64 = r /\ (sent[1] >= Write <=> operation = Write)
        /\ (sent[1] \div 64) % 2 # 1
    BY <2>1, FirstByte
  <2> QED
    BY <1>1, <2>1, <2>2 DEF IsWrite, Record, Index, HeaderLength, HasIndex
<1>2. CASE idx # 0
  <2>0. idx \in 1 .. 127 \/ idx > 127
    BY SMTT(30), <1>2 DEF Indices
  <2>1. Len(h) \in 2 .. 3 /\ h[1] = operation + 64 + r
    <3>1. CASE idx \in 1 .. 127
      BY <3>1, HeaderBytes
    <3>2. CASE idx > 127
      BY <3>2, HeaderBytes
    <3> QED
      BY <2>0, <3>1, <3>2
  <2>2. /\ sent[1] = h[1] /\ sent[2] = h[2] /\ (Len(h) = 3 => sent[3] = h[3])
    BY <2>1
  <2>3. /\ h[1] \in Byte /\ sent[1] % 64 = r /\ (sent[1] >= Write <=> operation = Write)
        /\ HasIndex(sent)
    BY <2>1, <2>2, FirstByte DEF HasIndex
  <2>4. CASE idx \in 1 .. 127
    <3>1. Len(h) = 2 /\ h[2] = idx
      BY <2>4, HeaderBytes
    <3>2. h[2] \in Byte /\ ~(sent[2] >= 128)
      BY <2>2, <2>4, <3>1 DEF Byte
    <3> QED
      BY <2>1, <2>2, <2>3, <3>1, <3>2 DEF IsWrite, Record, Index, HeaderLength, IsExtended
  <2>5. CASE idx > 127
    <3>1. /\ Len(h) = 3 /\ h[2] = 128 + (idx % 128) /\ h[3] = idx \div 128
          /\ h[3] \in 1 .. 255
      BY SMTT(30), <2>5, HeaderBytes, SplitIndex
    <3>2. h[2] \in 128 .. 255 /\ (h[2] % 128) + 128 * h[3] = idx
      BY <2>5, <3>1, SplitIndex
    <3>3. h[2] \in Byte /\ h[3] \in Byte /\ sent[2] >= 128
      BY <2>2, <3>1, <3>2 DEF Byte
    <3> QED
      BY <2>1, <2>2, <2>3, <3>1, <3>2, <3>3
         DEF IsWrite, Record, Index, HeaderLength, IsExtended
  <2> QED
    BY <2>0, <2>4, <2>5
<1> QED
  BY <1>1, <1>2

\* A uint8_t holds the length, and so the SPI driver takes it as it is.
FitsTransfer(length) == length \in 0 .. 255

LEMMA Uncut ==
  ASSUME NEW length, FitsTransfer(length)
  PROVE  OnTheWire(length) = length
BY DEF OnTheWire, FitsTransfer

\* What the port sends begins with the header, and the body follows it.
LEMMA HeaderThenBody ==
  ASSUME NEW h \in Seq(Byte), NEW body \in Seq(Byte), FitsTransfer(Len(h) + Len(body))
  PROVE  /\ \A k \in 1 .. Len(h) : Transmitted(h, body)[k] = h[k]
         /\ \A k \in 1 .. Len(body) : Transmitted(h, body)[Len(h) + k] = body[k]
<1>1. Len(h) \in Nat /\ Len(body) \in Nat
  OBVIOUS
<1>w. OnTheWire(Len(h) + Len(body)) = Len(h) + Len(body)
  BY Uncut
<1>2. ASSUME NEW k \in 1 .. Len(body)
      PROVE  Transmitted(h, body)[Len(h) + k] = body[k]
  <2>1. Len(h) + k \in 1 .. Len(h) + Len(body) /\ ~(Len(h) + k <= Len(h))
        /\ Len(h) + k - Len(h) = k
    BY <1>1
  <2> QED
    BY <2>1, <1>w DEF Transmitted
<1> QED
  BY <1>1, <1>2, <1>w DEF Transmitted

\* A header is a sequence of bytes.
LEMMA HeaderType ==
  ASSUME NEW operation \in {Read, Write}, NEW r \in Records, NEW idx \in Indices
  PROVE  Header(operation, r, idx) \in Seq(Byte) /\ Len(Header(operation, r, idx)) \in 1 .. 3
<1> DEFINE h == Header(operation, r, idx)
<1>1. \A k \in 1 .. Len(h) : h[k] \in Byte
  BY HeaderIsUnderstood
<1>2. Len(h) \in 1 .. 3
  BY HeaderBytes
<1>3. h \in Seq(Int)
  BY DEF Header, Read, Write, Records, Indices
<1> QED
  BY <1>1, <1>2, <1>3

\* The header of a write.
LEMMA WriteHeader ==
  ASSUME NEW r \in Records, NEW idx \in Indices, NEW sent,
         \A k \in 1 .. Len(Header(Write, r, idx)) : sent[k] = Header(Write, r, idx)[k]
  PROVE  /\ IsWrite(sent) /\ Record(sent) = r /\ Index(sent) = idx
         /\ HeaderLength(sent) = Len(Header(Write, r, idx))
BY HeaderIsUnderstood

\* A write changes the bytes of the record from the index on to the ones given,
\* and no other byte of the chip, if all of it fits the length the SPI driver takes:
\* at most 252 bytes for any register, where dwt_writetxdata documents 1023.
THEOREM WriteIsToTheRegister ==
  ASSUME NEW r \in Records, NEW idx \in Indices, NEW body \in Seq(Byte), NEW file,
         NEW s \in Records, NEW j \in Indices,
         NEW h, h = Header(Write, r, idx), FitsTransfer(Len(h) + Len(body)),
         NEW sent, sent = Transmitted(h, body)
  PROVE  FileAfter(file, sent, OnTheWire(Len(h) + Len(body)))[s][j] =
           IF s = r /\ j - idx \in 0 .. Len(body) - 1 THEN body[j - idx + 1] ELSE file[s][j]
<1>1. h \in Seq(Byte) /\ Len(h) \in Nat /\ Len(body) \in Nat /\ idx \in Int /\ j \in Int
  <2>1. Write \in {Read, Write} /\ idx \in Int /\ j \in Int
    BY SMTT(30) DEF Indices
  <2>2. h \in Seq(Byte) /\ Len(h) \in 1 .. 3
    BY <2>1, HeaderType
  <2> QED
    BY <2>1, <2>2
<1>2. IsWrite(sent) /\ Record(sent) = r /\ Index(sent) = idx /\ HeaderLength(sent) = Len(h)
  <2>1. \A k \in 1 .. Len(Header(Write, r, idx)) : sent[k] = Header(Write, r, idx)[k]
    BY <1>1, HeaderThenBody
  <2> QED
    BY <2>1, WriteHeader
<1> DEFINE n == Len(h)
           m == Len(body)
<1>3. n + m - n - 1 = m - 1
  BY <1>1
<1>w. OnTheWire(n + m) = n + m
  BY Uncut
<1>4. FileAfter(file, sent, n + m)[s][j] =
        IF s = r /\ j - idx \in 0 .. m - 1 THEN sent[n + 1 + j - idx] ELSE file[s][j]
  BY <1>2, <1>3 DEF FileAfter
<1>5. ASSUME j - idx \in 0 .. m - 1
      PROVE  sent[n + 1 + j - idx] = body[j - idx + 1]
  <2>1. j - idx + 1 \in 1 .. m /\ n + (j - idx + 1) = n + 1 + j - idx
    BY <1>1, <1>5
  <2> QED
    BY <1>1, <2>1, HeaderThenBody
<1> QED
  BY <1>w, <1>4, <1>5

\* A read changes nothing in the chip, and returns the bytes of the record from
\* the index on, if all of it fits the length the SPI driver takes; where it does
\* not, the rest of what is returned is zeros.
THEOREM ReadIsOfTheRegister ==
  ASSUME NEW r \in Records, NEW idx \in Indices, NEW length \in Nat, NEW file,
         NEW h, h = Header(Read, r, idx), FitsTransfer(Len(h) + length),
         NEW sent, sent = Transmitted(h, Zeros(length)),
         NEW received \in [1 .. WireLength(idx, length) -> Byte],
         IsAnswer(file, sent, received)
  PROVE  /\ \A k \in 1 .. length : Skipped(h, length, received)[k] = file[r][idx + k - 1]
         /\ ~IsWrite(sent)
<1>1. /\ h \in Seq(Byte) /\ Len(h) \in Nat /\ idx \in Int
      /\ WireLength(idx, length) = Len(h) + length
  <2>1. Read \in {Read, Write} /\ idx \in Int
    BY SMTT(30) DEF Indices
  <2>2. h \in Seq(Byte) /\ Len(h) \in 1 .. 3 /\ Len(h) = Len(Header(Read, 0, idx))
    BY <2>1, HeaderType, HeaderBytes
  <2>3. OnTheWire(Len(h) + length) = Len(h) + length
    BY Uncut
  <2> QED
    BY <2>1, <2>2, <2>3 DEF WireLength
<1>w. OnTheWire(Len(h) + length) = Len(h) + length
  BY Uncut
<1>2. Zeros(length) \in Seq(Byte) /\ Len(Zeros(length)) = length
  BY DEF Zeros, Byte
<1>3. ~IsWrite(sent) /\ Record(sent) = r /\ Index(sent) = idx /\ HeaderLength(sent) = Len(h)
  <2>1. Read \in {Read, Write} /\ Read # Write
    BY DEF Read, Write
  <2>2. \A k \in 1 .. Len(h) : sent[k] = h[k]
    BY <1>1, <1>2, HeaderThenBody
  <2> QED
    BY <2>1, <2>2, HeaderIsUnderstood
<1>4. ASSUME NEW k \in 1 .. length
      PROVE  Skipped(h, length, received)[k] = file[r][idx + k - 1]
  <2> DEFINE n == Len(h)
  <2>1. n + k \in 1 .. n + length /\ n + k > n /\ idx + (n + k) - n - 1 = idx + k - 1
    BY <1>1
  <2>2. received[n + k] = file[r][idx + (n + k) - n - 1]
    BY <1>1, <1>3, <2>1 DEF IsAnswer
  <2> QED
    BY <2>1, <2>2, <1>w DEF Skipped
<1> QED
  BY <1>3, <1>4

\* A frame that is accepted is written inside the transmit buffer, and leaves
\* room for its CRC there, at an index a header can hold; one that is not fits
\* nowhere at that offset.  A frame has two bytes at least.
THEOREM FrameFitsTxBuffer ==
  ASSUME NEW txFrameLength \in Nat, NEW txBufferOffset \in Nat, txFrameLength >= 2,
         NEW w, w = dwt_writetxdata(txFrameLength, txBufferOffset)
  PROVE  /\ w.result = "DWT_SUCCESS" =>
              /\ w.index \in Indices /\ w.length \in Nat
              /\ w.index + w.length + 2 <= TX_BUFFER_LEN
         /\ w.result = "DWT_ERROR" => txBufferOffset + txFrameLength > TX_BUFFER_LEN
<1>1. CASE txBufferOffset + txFrameLength <= TX_BUFFER_LEN
  BY SMTT(30), <1>1 DEF dwt_writetxdata, TX_BUFFER_LEN, Indices
<1>2. CASE ~(txBufferOffset + txFrameLength <= TX_BUFFER_LEN)
  BY <1>2 DEF dwt_writetxdata, TX_BUFFER_LEN
<1> QED
  BY <1>1, <1>2

\* A number is its quotient and its remainder.
LEMMA Divide ==
  ASSUME NEW v \in Nat
  PROVE  v \div 256 \in Nat /\ v % 256 \in Byte /\ 256 * (v \div 256) + (v % 256) = v
BY SMT DEF Byte

\* A number of 32 or 16 bits written and read again is the same number.
THEOREM NumbersSurvive ==
  \A v \in Nat : Regval32(Buffer32(v)) = v /\ Regval16(Buffer16(v)) = v
<1> TAKE v \in Nat
<1> DEFINE half == v \div 256
           high == half \div 256
<1>1. half \in Nat /\ high \in Nat /\ high \div 256 \in Nat
  BY Divide
<1>2. /\ 256 * (high \div 256) + (high % 256) = high
      /\ 256 * high + (half % 256) = half
      /\ 256 * half + (v % 256) = v
  BY <1>1, Divide
<1> QED
  BY <1>1, <1>2 DEF Regval32, Buffer32, Regval16, Buffer16

\* The carrier integrator, 21 bits of which the chip gives in three bytes with
\* anything above them, is read as the signed number it is: top is its part
\* above bit 15.
THEOREM CarrierIntegratorIsSigned ==
  ASSUME NEW top \in -16 .. 15, NEW low \in Word16, NEW third \in Byte,
         third % 32 = top % 32
  PROVE  CarrierIntegrator(<<low % 256, low \div 256, third>>) = 256 * 256 * top + low
<1>1. (IF (third \div 16) % 2 = 1 THEN (third % 16) - 16 ELSE third % 32) = top
  BY SMT DEF Byte
<1>2. Regval16(<<low % 256, low \div 256, third>>) = low
  BY SMTT(30), Divide DEF Regval16, Word16
<1> QED
  BY <1>1, <1>2 DEF CarrierIntegrator

\* What is above a number less than a unit.
LEMMA Above ==
  ASSUME NEW unit \in Nat, unit >= 1, NEW low \in 0 .. unit - 1, NEW v \in Nat
  PROVE  (low + unit * v) \div unit = v
BY SMT

\* The field of a size that begins at a unit, and the part of the number that
\* ends with it.
LEMMA Field ==
  ASSUME NEW unit \in Nat, unit >= 1, NEW low \in 0 .. unit - 1,
         NEW size \in Nat, size >= 1, NEW field \in 0 .. size - 1, NEW above \in Nat,
         NEW number, number = low + unit * (field + size * above)
  PROVE  /\ (number \div unit) % size = field
         /\ low + unit * field \in 0 .. size * unit - 1
         /\ number = (low + unit * field) + (size * unit) * above
<1> DEFINE w == field + size * above
<1>1. w \in Nat /\ w % size = field
  BY SMT
<1>2. ((low + unit * w) \div unit) % size = field
  <2> HIDE DEF w
  <2> QED
    BY <1>1, Above
<1>3. unit * field \in Nat /\ unit * field <= unit * (size - 1)
  BY SMT
<1>4. unit * (size - 1) = size * unit - unit
  BY SMT
<1>5. low + unit * field \in 0 .. size * unit - 1
  BY <1>3, <1>4, SMT
<1>6. unit * (field + size * above) = unit * field + (size * unit) * above
  BY SMT
<1> QED
  BY <1>2, <1>5, <1>6, SMT

\* The fields of the frame control do not run into each other: the chip finds
\* the length, the ranging bit and the offset of this frame, and the rate, PRF and
\* preamble that dwt_configure has kept.
THEOREM FrameControlIsUnderstood ==
  ASSUME NEW dataRate \in 0 .. 2, NEW prf \in 1 .. 2, NEW preamble \in 0 .. 15,
         NEW txFrameLength \in 0 .. 1023, NEW txBufferOffset \in 0 .. 1023,
         NEW ranging \in 0 .. 1,
         NEW reg32, reg32 = dwt_writetxfctrl(TxFctrl(dataRate, prf, preamble),
                                             txFrameLength, txBufferOffset, ranging)
  PROVE  /\ FrameLength(reg32) = txFrameLength /\ BufferOffset(reg32) = txBufferOffset
         /\ DataRate(reg32) = dataRate /\ Ranging(reg32) = ranging
         /\ Prf(reg32) = prf /\ Preamble(reg32) = preamble
<1>1. reg32 = txFrameLength
        + 1024 * (8 * (dataRate + 4 * (ranging + 2 * (prf + 4 * (preamble + 16 * txBufferOffset)))))
  BY DEF dwt_writetxfctrl, TxFctrl
<1>2. FrameLength(reg32) = txFrameLength /\ BufferOffset(reg32) = txBufferOffset
  BY <1>1 DEF FrameLength, BufferOffset
<1> DEFINE rateAt == 32 * 256
           rangingAt == 128 * 256
           prfAt == 256 * 256
           preambleAt == 256 * 1024
           fromOffset == txBufferOffset
           belowRate == txFrameLength
           fromPreamble == preamble + 16 * fromOffset
           fromPrf == prf + 4 * fromPreamble
           fromRanging == ranging + 2 * fromPrf
           belowRanging == belowRate + rateAt * dataRate
           belowPrf == belowRanging + rangingAt * ranging
           belowPreamble == belowPrf + prfAt * prf
<1>3. /\ 4 * rateAt = rangingAt /\ 2 * rangingAt = prfAt /\ 4 * prfAt = preambleAt
      /\ rateAt \in Nat /\ 1024 <= rateAt
  BY SMT
<1>4. fromPreamble \in Nat /\ fromPrf \in Nat /\ fromRanging \in Nat
  BY SMT
<1>5. reg32 = belowRate + rateAt * (dataRate + 4 * fromRanging)
  BY <1>1, SMT
<1>6. /\ DataRate(reg32) = (reg32 \div rateAt) % 4
      /\ Ranging(reg32) = (reg32 \div rangingAt) % 2
      /\ Prf(reg32) = (reg32 \div prfAt) % 4
      /\ Preamble(reg32) = (reg32 \div preambleAt) % 16
  BY DEF DataRate, Ranging, Prf, Preamble
<1> HIDE DEF rateAt, rangingAt, prfAt, preambleAt
<1>7. /\ rangingAt \in Nat /\ rangingAt >= 1 /\ prfAt \in Nat /\ prfAt >= 1
      /\ preambleAt \in Nat /\ preambleAt >= 1
      /\ belowRate \in 0 .. rateAt - 1 /\ rateAt >= 1
  BY <1>3, SMT
<1>8. /\ dataRate \in 0 .. 4 - 1 /\ ranging \in 0 .. 2 - 1 /\ prf \in 0 .. 4 - 1
      /\ preamble \in 0 .. 16 - 1 /\ fromOffset \in Nat
      /\ 4 \in Nat /\ 4 >= 1 /\ 2 \in Nat /\ 2 >= 1 /\ 16 \in Nat /\ 16 >= 1
  BY SMT
<1> HIDE DEF fromOffset, belowRate, fromPreamble, fromPrf, fromRanging, belowRanging, belowPrf,
             belowPreamble
<1>9. /\ (reg32 \div rateAt) % 4 = dataRate
      /\ belowRanging \in 0 .. rangingAt - 1
      /\ reg32 = belowRanging + rangingAt * fromRanging
  <2>1. reg32 = belowRate + rateAt * (dataRate + 4 * fromRanging)
    BY <1>5
  <2>2. /\ (reg32 \div rateAt) % 4 = dataRate
        /\ belowRate + rateAt * dataRate \in 0 .. 4 * rateAt - 1
        /\ reg32 = (belowRate + rateAt * dataRate) + (4 * rateAt) * fromRanging
    BY <1>3, <1>4, <1>7, <1>8, <2>1, Field
  <2> QED
    BY <1>3, <2>2 DEF belowRanging
<1>10. /\ (reg32 \div rangingAt) % 2 = ranging
      /\ belowPrf \in 0 .. prfAt - 1
      /\ reg32 = belowPrf + prfAt * fromPrf
  <2>1. reg32 = belowRanging + rangingAt * (ranging + 2 * fromPrf)
    BY <1>9 DEF fromRanging
  <2>2. /\ (reg32 \div rangingAt) % 2 = ranging
        /\ belowRanging + rangingAt * ranging \in 0 .. 2 * rangingAt - 1
        /\ reg32 = (belowRanging + rangingAt * ranging) + (2 * rangingAt) * fromPrf
    BY <1>4, <1>7, <1>8, <1>9, <2>1, Field
  <2> QED
    BY <1>3, <2>2 DEF belowPrf
<1>11. /\ (reg32 \div prfAt) % 4 = prf
      /\ belowPreamble \in 0 .. preambleAt - 1
      /\ reg32 = belowPreamble + preambleAt * fromPreamble
  <2>1. reg32 = belowPrf + prfAt * (prf + 4 * fromPreamble)
    BY <1>10 DEF fromPrf
  <2>2. /\ (reg32 \div prfAt) % 4 = prf
        /\ belowPrf + prfAt * prf \in 0 .. 4 * prfAt - 1
        /\ reg32 = (belowPrf + prfAt * prf) + (4 * prfAt) * fromPreamble
    BY <1>4, <1>7, <1>8, <1>10, <2>1, Field
  <2> QED
    BY <1>3, <2>2 DEF belowPreamble
<1>12. (reg32 \div preambleAt) % 16 = preamble
  <2>1. reg32 \div preambleAt = fromPreamble
    BY <1>4, <1>7, <1>11, Above
  <2>2. fromPreamble % 16 = preamble
    <3>1. (preamble + 16 * fromOffset) % 16 = preamble
      BY <1>8, SMT
    <3> QED
      BY <3>1 DEF fromPreamble
  <2> QED
    BY <2>1, <2>2
<1> QED
  BY <1>2, <1>6, <1>9, <1>10, <1>11, <1>12

\* The responder's timestamps are read from its bytes as they were.
THEOREM ResponseTimestamps == \A v \in Nat : resp_msg_get_ts(Buffer32(v)) = v
<1> TAKE v \in Nat
<1> DEFINE b == Buffer32(v)
<1>1. \A k \in 1 .. 4 : b[k] \in Nat
  BY Divide DEF Buffer32, Byte
<1>2. Regval32(b) = v
  BY NumbersSurvive
<1> HIDE DEF b
<1>3. resp_msg_get_ts(b) = Regval32(b)
  BY <1>1 DEF resp_msg_get_ts, Regval32
<1> QED
  BY <1>2, <1>3 DEF b

\* A number is its whole laps and what is left of it.
LEMMA Laps ==
  ASSUME NEW m \in Nat, m >= 2, NEW k \in Nat
  PROVE  k = m * (k \div m) + (k % m) /\ k \div m \in Nat /\ k % m \in 0 .. m - 1
BY SMT

\* Two numbers that differ by whole laps have the same remainder.
LEMMA RemainderUnique ==
  ASSUME NEW m \in Nat, m >= 2, NEW q \in Int, NEW r \in 0 .. m - 1,
         NEW k \in Int, k = m * q + r
  PROVE  k % m = r
BY SMT

\* What is left of a time in a word, after the laps of the clock and of the word.
LEMMA WordOfTime ==
  ASSUME NEW clock \in Nat, clock >= 2, NEW word \in Nat, word >= 2, NEW t \in Nat
  PROVE  \E q1, q2 \in Nat : t = clock * q1 + (word * q2 + Lo32(t, clock, word))
<1> DEFINE rest == t % clock
           q1 == t \div clock
           q2 == rest \div word
<1>1. t = clock * q1 + rest /\ q1 \in Nat /\ rest \in Nat
  BY Laps
<1> HIDE DEF rest
<1>2. rest = word * q2 + (rest % word) /\ q2 \in Nat
  BY <1>1, Laps
<1> HIDE DEF q1, q2
<1>3. t = clock * q1 + (word * q2 + (rest % word))
  BY <1>1, <1>2
<1> QED
  BY <1>1, <1>2, <1>3 DEF Lo32, rest

\* The same for a clock of whole words.
LEMMA WordOfClock ==
  ASSUME NEW word \in Nat, word >= 2, NEW laps \in Nat, laps >= 1, NEW t \in Nat
  PROVE  /\ \E q \in Nat : t = word * q + Lo32(t, word * laps, word)
         /\ Lo32(t, word * laps, word) \in Int
<1> DEFINE clock == word * laps
           low == Lo32(t, clock, word)
<1>1. clock \in Nat /\ clock >= 2
  BY SMT
<1>2. low \in Int
  <2> HIDE DEF clock
  <2> QED
    BY <1>1 DEF Lo32
<1>3. PICK q1 \in Nat, q2 \in Nat : t = clock * q1 + (word * q2 + low)
  <2> HIDE DEF clock
  <2> QED
    BY <1>1, WordOfTime
<1> HIDE DEF low
<1>4. laps * q1 + q2 \in Nat /\ t = word * (laps * q1 + q2) + low
  BY <1>2, <1>3, SMT
<1> QED
  BY <1>2, <1>4 DEF low

\* The two clocks may wrap, and the words they are read in, as often as they like
\* within an exchange: a round trip shorter than half a word (33 ms) is measured
\* as long as it is.
THEOREM RoundTripIsMeasured ==
  ASSUME NEW word \in Nat, word >= 2, NEW laps \in Nat, laps >= 1,
         NEW start \in Nat, NEW length \in Nat, 2 * length < word
  PROVE  RoundTrip(Lo32(start + length, word * laps, word),
                   Lo32(start, word * laps, word), word) = length
<1> DEFINE s == Lo32(start, word * laps, word)
           e == Lo32(start + length, word * laps, word)
<1>1. s \in Int /\ \E a \in Nat : start = word * a + s
  BY WordOfClock
<1>2. e \in Int /\ \E b \in Nat : start + length = word * b + e
  <2>1. start + length \in Nat
    OBVIOUS
  <2> QED
    BY <2>1, WordOfClock
<1> HIDE DEF s, e
<1>3. PICK a \in Nat : start = word * a + s
  BY <1>1
<1>4. PICK b \in Nat : start + length = word * b + e
  BY <1>2
<1> DEFINE k == e - s
           q == a - b
<1>5. k \in Int /\ q \in Int /\ k = word * q + length /\ length \in 0 .. word - 1
  BY <1>1, <1>2, <1>3, <1>4, SMT
<1> HIDE DEF k, q
<1>6. k % word = length
  BY <1>5, RemainderUnique
<1>7. (e - s) % word = length
  BY <1>6 DEF k
<1> QED
  BY <1>7 DEF RoundTrip, int32, s, e

---------------------------------------------------------------------------
(* RangeBias *)

\* Some natural numbers have a least.
LEMMA Least ==
  ASSUME NEW T \in SUBSET Nat, T # {}
  PROVE  \E x \in T : \A y \in T : x <= y
  <1> DEFINE R == OpToRel(<, Nat)
  <1>1. IsWellFoundedOn(R, Nat)
    BY NatLessThanWellFounded
  <1>2. \A x, y \in Nat : <<y, x>> \in R <=> y < x
    BY DEF OpToRel
  <1> HIDE DEF R
  <1>3. \E x \in T : \A y \in T : ~ (<<y, x>> \in R)
    BY <1>1, WFMin
  <1>4. PICK x \in T : \A y \in T : ~ (<<y, x>> \in R)
    BY <1>3
  <1>5. ASSUME NEW y \in T PROVE x <= y
    <2>1. ~ (y < x)
      BY <1>2, <1>4
    <2> QED BY <2>1
  <1> QED BY <1>5

IsTable(table) ==
  /\ table \in Seq(Nat) /\ Len(table) > 0 /\ table[Len(table)] = 255
  /\ \A k \in 1 .. Len(table) : \A m \in k .. Len(table) : table[k] <= table[m]

LEMMA TableIsTable ==
  ASSUME NEW chan \in UwbChannels, NEW prf \in Prfs
  PROVE  IsTable(Table(chan, prf))
  BY TablesAssumption DEF IsTable

LEMMA EntriesOfSeq ==
  ASSUME NEW table, table \in Seq(Nat)
  PROVE  Len(table) \in Nat /\ \A k \in 1 .. Len(table) : table[k] \in Int
  OBVIOUS

LEMMA Entries ==
  ASSUME NEW table, IsTable(table)
  PROVE  Len(table) \in Nat /\ \A k \in 1 .. Len(table) : table[k] \in Int
  <1>1. table \in Seq(Nat)
    BY DEF IsTable
  <1> QED BY <1>1, EntriesOfSeq

\* The loop of dwt_getrangebias has no bound: it ends inside the table because the
\* distance is capped at the entry each table ends in.
LEMMA LoopEnds ==
  ASSUME NEW table, IsTable(table), NEW r \in Int, r <= 255
  PROVE  StopsAt(table, r, LoopIndex(table, r))
  <1> DEFINE T == {k \in 0 .. Len(table) - 1 : r <= table[k + 1]}
  <1>0. Len(table) \in Nat /\ \A k \in 0 .. Len(table) - 1 : table[k + 1] \in Int
    BY Entries
  <1>1. Len(table) - 1 \in T
    BY <1>0 DEF IsTable
  <1>2. T \in SUBSET Nat
    BY <1>0
  <1>3. PICK n \in T : \A k \in T : n <= k
    BY <1>1, <1>2, Least
  <1>4. StopsAt(table, r, n)
    <2>1. ASSUME NEW k \in 0 .. n - 1 PROVE r > table[k + 1]
      <3>1. k \in 0 .. Len(table) - 1 /\ k \notin T
        BY <1>0, <1>3
      <3> QED BY <3>1, <1>0
    <2> QED BY <2>1, <1>3 DEF StopsAt
  <1>5. n \in 0 .. Len(table) - 1
    BY <1>3
  <1> HIDE DEF T
  <1> QED BY <1>4, <1>5 DEF LoopIndex

\* What lies before the index is below the distance, what lies after is not: the
\* index is the number of entries below it.
THEOREM BiasCountsEntries ==
  ASSUME NEW chan \in UwbChannels, NEW prf \in Prfs, NEW rangeint25cm \in Int
  PROVE  LET table == Table(chan, prf)
             below == {k \in 1 .. Len(table) : table[k] < Capped(rangeint25cm)}
         IN  /\ StopsAt(table, Capped(rangeint25cm), LoopIndex(table, Capped(rangeint25cm)))
             /\ IsFiniteSet(below)
             /\ dwt_getrangebias(chan, rangeint25cm, prf) = Cardinality(below) + Offset(chan, prf)
  <1> DEFINE table == Table(chan, prf)
             r == Capped(rangeint25cm)
             n == LoopIndex(table, r)
             below == {k \in 1 .. Len(table) : table[k] < r}
  <1>1. IsTable(table)
    BY TableIsTable
  <1>2. r \in Int /\ r <= 255
    BY DEF Capped
  <1>4. dwt_getrangebias(chan, rangeint25cm, prf) = n + Offset(chan, prf)
    BY DEF dwt_getrangebias
  <1> HIDE DEF table, r, n
  <1>3. StopsAt(table, r, n)
    BY <1>1, <1>2, LoopEnds DEF n
  <1>5. below = 1 .. n
    <2>0. Len(table) \in Nat /\ n \in 0 .. Len(table) - 1 /\ r <= table[n + 1]
      BY <1>1, <1>3, Entries DEF StopsAt
    <2>1. ASSUME NEW k \in 1 .. n PROVE k \in below
      <3>1. k - 1 \in 0 .. n - 1 /\ (k - 1) + 1 = k /\ k \in 1 .. Len(table)
        BY <2>0
      <3>2. r > table[k]
        BY <3>1, <1>3 DEF StopsAt
      <3>3. table[k] \in Int
        BY <3>1, <1>1, Entries
      <3> QED BY <3>1, <3>2, <3>3, <1>2
    <2>2. ASSUME NEW k \in below, k \notin 1 .. n PROVE FALSE
      <3>1. k \in 1 .. Len(table) /\ n + 1 \in 1 .. Len(table) /\ k \in n + 1 .. Len(table)
        BY <2>0, <2>2
      <3>2. table[n + 1] <= table[k]
        BY <3>1, <1>1 DEF IsTable
      <3>3. table[n + 1] \in Int /\ table[k] \in Int
        BY <3>1, <1>1, Entries
      <3> QED BY <3>2, <3>3, <2>0, <2>2, <1>2
    <2>3. below \subseteq 1 .. n
      BY <2>2
    <2> HIDE DEF below
    <2> QED BY <2>1, <2>3
  <1>6. n \in Nat
    BY <1>1, <1>3, Entries DEF StopsAt
  <1>7. IsFiniteSet(1 .. n) /\ Cardinality(1 .. n) = n
    <2>1. IsFiniteSet(1 .. n) /\ Cardinality(1 .. n) = IF 1 > n THEN 0 ELSE n - 1 + 1
      BY <1>6, FS_Interval
    <2> QED BY <2>1, <1>6
  <1>8. IsFiniteSet(below) /\ Cardinality(below) = n
    BY <1>5, <1>7
  <1> QED BY <1>3, <1>4, <1>8 DEF table, r, n

\* A longer distance is never corrected by less.
THEOREM BiasGrows ==
  ASSUME NEW chan \in UwbChannels, NEW prf \in Prfs,
         NEW r \in Int, NEW s \in Int, r <= s
  PROVE  dwt_getrangebias(chan, r, prf) <= dwt_getrangebias(chan, s, prf)
  <1> DEFINE table == Table(chan, prf)
             n(d) == LoopIndex(table, Capped(d))
  <1>1. IsTable(table)
    BY TableIsTable
  <1>2. Capped(r) \in Int /\ Capped(s) \in Int /\ Capped(r) <= Capped(s) /\ Capped(s) <= 255
    BY DEF Capped
  <1>3. Offset(chan, prf) \in Int
    BY DEF Offset, CM_OFFSET_16M_NB, CM_OFFSET_16M_WB, CM_OFFSET_64M_NB, CM_OFFSET_64M_WB
  <1>4. /\ dwt_getrangebias(chan, r, prf) = n(r) + Offset(chan, prf)
        /\ dwt_getrangebias(chan, s, prf) = n(s) + Offset(chan, prf)
    BY DEF dwt_getrangebias
  <1> HIDE DEF table
  <1>5. StopsAt(table, Capped(r), n(r)) /\ StopsAt(table, Capped(s), n(s))
    BY <1>1, <1>2, LoopEnds
  <1> HIDE DEF n
  <1>6. n(r) <= n(s)
    <2>0. Len(table) \in Nat
      BY <1>1, Entries
    <2>1. n(r) \in 0 .. Len(table) - 1 /\ n(s) \in 0 .. Len(table) - 1
      BY <1>5 DEF StopsAt
    <2>2. SUFFICES ASSUME n(s) < n(r) PROVE FALSE
      BY <2>0, <2>1
    <2>3. n(s) \in 0 .. n(r) - 1
      BY <2>0, <2>1, <2>2
    <2>4. Capped(r) > table[n(s) + 1] /\ Capped(s) <= table[n(s) + 1]
      BY <2>3, <1>5 DEF StopsAt
    <2>5. table[n(s) + 1] \in Int
      BY <2>0, <2>1, <1>1, Entries
    <2> QED BY <2>4, <2>5, <1>2
  <1>7. n(r) \in Int /\ n(s) \in Int
    BY <1>1, <1>5, Entries DEF StopsAt
  <1> QED BY <1>3, <1>4, <1>6, <1>7

---------------------------------------------------------------------------
(* TxPower *)

\* The loop of _dwt_computetxpowersetting ends, for any gain.
LEMMA GainComesIn ==
  ASSUME NEW gain \in Int
  PROVE  Rounds(gain) \in Nat /\ StopsAfter(gain, Rounds(gain))
  <1> DEFINE first == IF gain > 20 THEN (gain - 16) \div 5
                      ELSE IF gain < 4 THEN (8 - gain) \div 5 ELSE 0
  <1>1. first \in 0 .. Away(gain)
    BY DEF Away
  <1>2. StopsAfter(gain, first)
    <2>1. GainAfter(gain, first) \in BestGains
      BY DEF GainAfter, BestGains, DA_ATTN_STEP
    <2>2. \A m \in 0 .. first - 1 : GainAfter(gain, m) \notin BestGains
      BY DEF GainAfter, BestGains, DA_ATTN_STEP
    <2> QED BY <2>1, <2>2 DEF StopsAfter
  <1> HIDE DEF first
  <1>3. Rounds(gain) \in 0 .. Away(gain) /\ StopsAfter(gain, Rounds(gain))
    BY <1>1, <1>2 DEF Rounds
  <1> QED BY <1>3

\* A byte with its gain among the best is taken apart as it was put together.
LEMMA ByteOfParts ==
  ASSUME NEW d \in 0 .. 7, NEW g \in 0 .. 31
  PROVE  32 * d + g \in 0 .. 255 /\ da_attn(32 * d + g) = d /\ mixer_gain(32 * d + g) = g
  BY DEF da_attn, mixer_gain

\* The new gain is among the best.  The power is the one asked for as long as the
\* gain needed is 20 at most; from there on it falls by 5 dB, ten steps, with
\* every round, because the attenuation is raised where it should be lowered.
THEOREM PowerAsAsked ==
  ASSUME NEW byte \in 0 .. 255, NEW power_adj \in Int, Fits(byte, power_adj)
  PROVE  LET gain == mixer_gain(byte) + power_adj IN
           /\ NewByte(byte, power_adj) \in 0 .. 255
           /\ mixer_gain(NewByte(byte, power_adj)) \in BestGains
           /\ Power(NewByte(byte, power_adj))
                = Power(byte) + power_adj - (IF gain > 20 THEN 10 * Rounds(gain) ELSE 0)
  <1>1. da_attn(byte) \in 0 .. 7 /\ mixer_gain(byte) \in 0 .. 31
    BY DEF da_attn, mixer_gain
  <1>2. PICK a \in 0 .. 7, m \in 0 .. 31 : a = da_attn(byte) /\ m = mixer_gain(byte)
    BY <1>1
  <1>3. PICK n \in Nat : n = Rounds(m + power_adj) /\ StopsAfter(m + power_adj, n)
    BY GainComesIn
  <1>4. PICK g \in 4 .. 20 : g = GainAfter(m + power_adj, n)
    BY <1>3 DEF StopsAfter, BestGains
  <1>5. PICK d \in 0 .. 7 : d = a + n
    BY <1>2, <1>3 DEF Fits, new_da_attn
  <1>6. NewByte(byte, power_adj) = 32 * d + g
    BY <1>2, <1>3, <1>4, <1>5 DEF NewByte, new_da_attn, new_mixer_gain
  <1>7. 32 * d + g \in 0 .. 255 /\ da_attn(32 * d + g) = d /\ mixer_gain(32 * d + g) = g
    BY ByteOfParts
  <1>8. Power(byte) = m - 5 * a /\ Power(32 * d + g) = g - 5 * d
    BY <1>2, <1>7 DEF Power, DA_ATTN_STEP
  <1>9. g = IF m + power_adj > 20 THEN m + power_adj - n * 5 ELSE m + power_adj + n * 5
    BY <1>4 DEF GainAfter, DA_ATTN_STEP
  <1>10. g - 5 * d = m - 5 * a + power_adj - (IF m + power_adj > 20 THEN 10 * n ELSE 0)
    BY <1>5, <1>9
  <1>11. g \in BestGains
    BY DEF BestGains
  <1> QED BY <1>2, <1>3, <1>6, <1>7, <1>8, <1>10, <1>11

---------------------------------------------------------------------------
(* RadioConfig *)

\* 16 bits.
InHalf(n) == n \in Nat /\ n < 256 * 256

\* The parts of a configuration that are needed below.
LEMMA Parts ==
  ASSUME NEW c \in Configurations
  PROVE  /\ c.chan \in Channels /\ c.prf \in 1 .. 2 /\ c.txPreambLength \in PreambleLengths
         /\ c.txCode \in 1 .. 24 /\ c.rxCode \in 1 .. 24 /\ c.nsSFD \in 0 .. 1
         /\ c.dataRate \in 0 .. 2 /\ c.rxPAC \in 0 .. 3
  <1>1. c \in [chan : Channels, prf : 1 .. 2, txPreambLength : PreambleLengths, rxPAC : 0 .. 3,
               txCode : 1 .. 24, rxCode : 1 .. 24, nsSFD : 0 .. 1, dataRate : 0 .. 2,
               sfdTO : Nat]
    BY DEF Configurations
  <1> QED BY <1>1

\* The upper half of CHAN_CTRL as a number: its fields do not overlap.
High(sfd, prf, tx, rx) == 50 * sfd + 4 * prf + 64 * tx + 2048 * rx

LEMMA HighInHalf ==
  ASSUME NEW sfd \in 0 .. 1, NEW prf \in 1 .. 2, NEW tx \in 1 .. 24, NEW rx \in 1 .. 24
  PROVE  InHalf(High(sfd, prf, tx, rx))
  BY SMT DEF InHalf, High

LEMMA HighSfd ==
  ASSUME NEW sfd \in 0 .. 1, NEW prf \in 1 .. 2, NEW tx \in 1 .. 24, NEW rx \in 1 .. 24
  PROVE  (High(sfd, prf, tx, rx) \div 2) % 2 = sfd
  BY SMT DEF High

LEMMA HighPrf ==
  ASSUME NEW sfd \in 0 .. 1, NEW prf \in 1 .. 2, NEW tx \in 1 .. 24, NEW rx \in 1 .. 24
  PROVE  (High(sfd, prf, tx, rx) \div 4) % 4 = prf
  BY SMT DEF High

LEMMA HighNsSfd ==
  ASSUME NEW sfd \in 0 .. 1, NEW prf \in 1 .. 2, NEW tx \in 1 .. 24, NEW rx \in 1 .. 24
  PROVE  (High(sfd, prf, tx, rx) \div 16) % 4 = 3 * sfd
  BY SMT DEF High

LEMMA HighCodes ==
  ASSUME NEW sfd \in 0 .. 1, NEW prf \in 1 .. 2, NEW tx \in 1 .. 24, NEW rx \in 1 .. 24
  PROVE  (High(sfd, prf, tx, rx) \div 64) % 32 = tx /\ High(sfd, prf, tx, rx) \div 2048 = rx
  <1>1. (High(sfd, prf, tx, rx) \div 64) % 32 = tx
    BY SMT DEF High
  <1>2. High(sfd, prf, tx, rx) \div 2048 = rx
    BY SMT DEF High
  <1> QED BY <1>1, <1>2

\* Both registers have room for their fields: what the chip finds in each field of
\* CHAN_CTRL and TX_FCTRL is what the configuration says, for every configuration.
THEOREM FieldsAreUnderstood ==
  ASSUME NEW chip, NEW c \in Configurations
  PROVE  LET chan == dwt_configure(chip, c).CHAN_CTRL
             fctrl == dwt_configure(chip, c).TX_FCTRL
         IN  /\ InHalf(chan.low) /\ InHalf(chan.high) /\ InHalf(fctrl.low) /\ InHalf(fctrl.high)
             /\ TxChan(chan) = c.chan /\ RxChan(chan) = c.chan
             /\ TxCode(chan) = c.txCode /\ RxCode(chan) = c.rxCode
             /\ RxPrf(chan) = c.prf /\ TxPrf(fctrl) = c.prf
             /\ DwSfd(chan) = c.nsSFD /\ NsSfd(chan) = 3 * c.nsSFD
             /\ TxBitRate(fctrl) = c.dataRate /\ TxPreamble(fctrl) = c.txPreambLength
  <1>1. /\ c.chan \in Channels /\ c.prf \in 1 .. 2 /\ c.txPreambLength \in PreambleLengths
        /\ c.txCode \in 1 .. 24 /\ c.rxCode \in 1 .. 24 /\ c.nsSFD \in 0 .. 1
        /\ c.dataRate \in 0 .. 2
    BY Parts
  <1>2. /\ dwt_configure(chip, c).CHAN_CTRL = CHAN_CTRL(c)
        /\ dwt_configure(chip, c).TX_FCTRL = TX_FCTRL(c)
    BY DEF dwt_configure
  <1>3. /\ CHAN_CTRL(c).low = c.chan + 16 * c.chan
        /\ CHAN_CTRL(c).high = 2 * c.nsSFD + 4 * c.prf + 16 * (3 * c.nsSFD) + 64 * c.txCode
                                 + 2048 * c.rxCode
        /\ TX_FCTRL(c).low = 8192 * c.dataRate
        /\ TX_FCTRL(c).high = c.txPreambLength + c.prf
    BY DEF CHAN_CTRL, TX_FCTRL
  <1>4. PICK ch \in 1 .. 7 : ch = c.chan
    BY <1>1 DEF Channels
  <1>5. PICK prf \in 1 .. 2 : prf = c.prf
    BY <1>1
  <1>6. PICK tx \in 1 .. 24 : tx = c.txCode
    BY <1>1
  <1>7. PICK rx \in 1 .. 24 : rx = c.rxCode
    BY <1>1
  <1>8. PICK sfd \in 0 .. 1 : sfd = c.nsSFD
    BY <1>1
  <1>9. PICK br \in 0 .. 2 : br = c.dataRate
    BY <1>1
  <1>10. PICK pl \in PreambleLengths : pl = c.txPreambLength
    BY <1>1
  <1>11. CHAN_CTRL(c).low = 17 * ch /\ TX_FCTRL(c).low = 8192 * br /\ TX_FCTRL(c).high = pl + prf
    BY <1>3, <1>4, <1>5, <1>9, <1>10
  <1>12. CHAN_CTRL(c).high = High(sfd, prf, tx, rx)
    BY <1>3, <1>5, <1>6, <1>7, <1>8 DEF High
  <1>13. InHalf(17 * ch) /\ (17 * ch) % 16 = ch /\ (17 * ch) \div 16 = ch
    <2>1. InHalf(17 * ch)
      BY SMT DEF InHalf
    <2> QED BY <2>1, SMT
  <1>14. InHalf(8192 * br) /\ ((8192 * br) \div 8192) % 4 = br
    <2>1. InHalf(8192 * br)
      BY SMT DEF InHalf
    <2> QED BY <2>1, SMT
  <1>15. InHalf(pl + prf) /\ (pl + prf) % 4 = prf /\ 4 * ((pl + prf) \div 4) = pl
    <2>1. InHalf(pl + prf)
      BY SMT DEF InHalf, PreambleLengths
    <2> QED BY <2>1, SMT DEF PreambleLengths
  <1>16. InHalf(High(sfd, prf, tx, rx))
    BY HighInHalf
  <1>17. High(sfd, prf, tx, rx) \div 2048 = rx /\ (High(sfd, prf, tx, rx) \div 64) % 32 = tx
    BY SMTT(30), HighCodes
  <1>18. /\ (High(sfd, prf, tx, rx) \div 2) % 2 = sfd
         /\ (High(sfd, prf, tx, rx) \div 4) % 4 = prf
         /\ (High(sfd, prf, tx, rx) \div 16) % 4 = 3 * sfd
    BY SMTT(30), HighSfd, HighPrf, HighNsSfd
  <1>19. /\ TxChan(CHAN_CTRL(c)) = c.chan /\ RxChan(CHAN_CTRL(c)) = c.chan
    BY <1>4, <1>11, <1>13 DEF TxChan, RxChan
  <1>20. /\ TxCode(CHAN_CTRL(c)) = c.txCode /\ RxCode(CHAN_CTRL(c)) = c.rxCode
    BY <1>6, <1>7, <1>12, <1>16, <1>17 DEF TxCode, RxCode
  <1>21. /\ RxPrf(CHAN_CTRL(c)) = c.prf
         /\ DwSfd(CHAN_CTRL(c)) = c.nsSFD /\ NsSfd(CHAN_CTRL(c)) = 3 * c.nsSFD
    BY <1>5, <1>8, <1>12, <1>16, <1>18 DEF RxPrf, DwSfd, NsSfd
  <1>22. /\ TxPrf(TX_FCTRL(c)) = c.prf
         /\ TxBitRate(TX_FCTRL(c)) = c.dataRate /\ TxPreamble(TX_FCTRL(c)) = c.txPreambLength
    BY <1>5, <1>9, <1>10, <1>11, <1>14, <1>15 DEF TxPrf, TxBitRate, TxPreamble
  <1> QED BY <1>2, <1>11, <1>12, <1>13, <1>14, <1>15, <1>16, <1>17, <1>19, <1>20, <1>21, <1>22

\* No configuration reads a table outside it.
THEOREM LookupsInTables ==
  ASSUME NEW c \in Configurations
  PROVE  /\ ChanRow(c) \in 1 .. 6
         /\ Len(tx_config) = 6 /\ Len(fs_pll_cfg) = 6 /\ Len(fs_pll_tune) = 6
         /\ c.rxCode \in 1 .. Len(lde_replicaCoeff)
         /\ c.rxPAC + 1 \in 1 .. 4 /\ \A prf \in 1 .. 2 : Len(digital_bb_config[prf]) = 4
         /\ c.dataRate + 1 \in 1 .. Len(sftsh) /\ c.dataRate + 1 \in 1 .. Len(dwnsSFDlen)
  <1>1. /\ c.chan \in Channels /\ c.rxCode \in 1 .. 24 /\ c.rxPAC \in 0 .. 3
        /\ c.dataRate \in 0 .. 2
    BY Parts
  <1>2. ChanRow(c) \in 1 .. 6
    BY <1>1 DEF ChanRow, Channels, chan_idx
  <1>3. Len(tx_config) = 6 /\ Len(fs_pll_cfg) = 6 /\ Len(fs_pll_tune) = 6
    BY DEF tx_config, fs_pll_cfg, fs_pll_tune
  <1>4. c.rxCode \in 1 .. Len(lde_replicaCoeff)
    BY <1>1 DEF lde_replicaCoeff
  <1>5. c.rxPAC + 1 \in 1 .. 4 /\ \A prf \in 1 .. 2 : Len(digital_bb_config[prf]) = 4
    BY <1>1 DEF digital_bb_config
  <1>6. c.dataRate + 1 \in 1 .. Len(sftsh) /\ c.dataRate + 1 \in 1 .. Len(dwnsSFDlen)
    BY <1>1 DEF sftsh, dwnsSFDlen
  <1> QED BY <1>2, <1>3, <1>4, <1>5, <1>6

\* Configured the same, two chips differ in no more than Left(c), whatever they
\* were configured for before; and what differs is what each had there.
THEOREM ConfigureForgets ==
  ASSUME NEW one, NEW other, NEW c \in Configurations
  PROVE  \A r \in DOMAIN dwt_configure(one, c) :
           \/ dwt_configure(one, c)[r] = dwt_configure(other, c)[r]
           \/ /\ r \in Left(c)
              /\ dwt_configure(one, c)[r] = one[r] /\ dwt_configure(other, c)[r] = other[r]
  <1>1. c.nsSFD \in 0 .. 1
    BY Parts
  <1>2. \/ UserSfd(one, c) = UserSfd(other, c)
        \/ /\ "USR_SFD" \in Left(c)
           /\ UserSfd(one, c) = one.USR_SFD /\ UserSfd(other, c) = other.USR_SFD
    BY <1>1 DEF UserSfd, Left
  <1>3. \/ TUNE4H(one, c) = TUNE4H(other, c)
        \/ /\ "DRX_TUNE4H" \in Left(c)
           /\ TUNE4H(one, c) = one.DRX_TUNE4H /\ TUNE4H(other, c) = other.DRX_TUNE4H
    BY DEF TUNE4H, Left
  <1> QED BY <1>2, <1>3 DEF dwt_configure
=============================================================================
