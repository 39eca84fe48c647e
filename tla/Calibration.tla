---------------------------- MODULE Calibration ----------------------------
(***************************************************************************)
(* The two calls that calibrate the transmitter's pulse generator over the *)
(* temperature.  dwt_calcpgcount measures the count of a PG_DELAY, and     *)
(* dwt_calcbandwidthtempadj searches for the PG_DELAY with a given count.  *)
(* Both take the registers of ChipOptions over while they run, 0.7 s to    *)
(* 1 s, and have to give them back as they were.  The application changes  *)
(* options between two calls, the temperature drifts between two calls,    *)
(* and the processor may be reset anywhere.                                *)
(***************************************************************************)
EXTENDS ChipOptions

CONSTANTS
  Loops,       \* bits the search decides: 7
  Bit,         \* Bit[i] is bit_field after i halvings: Bit[0] = 0x80, Bit[7] = 1
  MaxDelta,    \* the largest difference that is allowed: 300
  Samples,     \* NUM_SAMPLES: 10
  Noise,       \* how far one reading of the count may be from the count
  Temperatures, \* each is the count of every PG_DELAY at a temperature
  Targets,     \* the counts asked for
  MaxJobs, MaxDrifts  \* bounds of the model: calibrations, changes of temperature

ASSUME CalibrationAssumption ==
  /\ Loops \in Nat \ {0} /\ MaxDelta \in Nat \ {0} /\ Samples \in Nat \ {0} /\ Noise \in Nat
  /\ Bit \in [0 .. Loops -> Nat \ {0}] /\ Bit[Loops] = 1
  /\ \A i \in 0 .. Loops - 1 : Bit[i] = 2 * Bit[i + 1]
  /\ Targets \subseteq Nat
  /\ MaxJobs \in Nat /\ MaxDrifts \in Nat

\* 0x80 is the first guess and is never tried.
Delays == Bit[0] + 1 .. 2 * Bit[0] - 1

\* The count falls as the delay rises, as the direction of the search supposes.
ASSUME TemperatureAssumption ==
  \A c \in Temperatures :
    c \in [Delays -> Nat] /\ \A d, e \in Delays : d <= e => c[e] <= c[d]

VARIABLES
  pgcount,   \* the chip: the count of each PG_DELAY at this temperature
  PG_DELAY,
  at,        \* "boot", "main", or where the call is
  old,       \* the registers as the call found them
  i, target, curr_bw, best_bw, delta_lowest,  \* dwt_calcbandwidthtempadj
  sum_count,                                  \* dwt_calcpgcount
  jobs, drifts                                \* counters of the bounds

search == <<target, curr_bw, best_bw, delta_lowest>>
vars == <<optionVars, pgcount, PG_DELAY, at, old, i, search, sum_count, jobs, drifts>>

\* delta_count.
Distance(count) == IF count > target THEN count - target ELSE target - count

\* What one measurement of a PG_DELAY may show.
Readings(d) == (pgcount[d] - Noise .. pgcount[d] + Noise) \cap Nat

Nothing == [ctrl0 |-> {}, ctrl1 |-> {}, rfconf |-> {}]

Init ==
  /\ OptionsInit
  /\ pgcount \in Temperatures /\ PG_DELAY = 2 * Bit[0] - 1
  /\ at = "boot" /\ old = Nothing
  /\ i = 0 /\ target = 0 /\ curr_bw = 0 /\ best_bw = 0 /\ delta_lowest = 0
  /\ sum_count = 0 /\ jobs = 0 /\ drifts = 0

---------------------------------------------------------------------------
\* Mutant: PMSC_CTRL1 is kept in a variable of the width of PMSC_CTRL0's.
SavedInBytes ==
  [ctrl0 |-> PMSC_CTRL0 \cap Byte0, ctrl1 |-> PMSC_CTRL1 \cap {"PKTSEQ"}, rfconf |-> RF_CONF]

\* 8, 16 and 32 bits.
Saved ==
  [ctrl0 |-> PMSC_CTRL0 \cap Byte0, ctrl1 |-> PMSC_CTRL1 \cap LowHalf, rfconf |-> RF_CONF]

\* The clocks go to the crystal, and to the PLL when the generator is on.
TakeOver ==
  /\ at = "main" /\ jobs < MaxJobs /\ jobs' = jobs + 1
  /\ old' = Saved
  /\ PMSC_CTRL0' = WritePart(PMSC_CTRL0, Byte0, {"SYSCLKS_125M", "TXCLKS_125M"})
  /\ PMSC_CTRL1' = PMSC_CTRL1 \ LowHalf
  /\ RF_CONF' = {"TXPOW", "PGMIXBIASEN"}
  /\ i' = 0
  /\ UNCHANGED <<GPIO_MODE, fineSeq, awake, asked, options, pgcount, PG_DELAY, drifts>>

dwt_calcbandwidthtempadj(target_count) ==
  /\ TakeOver /\ at' = "search"
  /\ target' = target_count /\ curr_bw' = Bit[0] /\ best_bw' = 0
  /\ delta_lowest' = MaxDelta
  /\ UNCHANGED sum_count

\* Mutant: the comment's "Count was lower", taken at its word.
KeepBitIfLower(count) == count < target

\* "Count was lower, BW was lower so increase PG DELAY".
KeepBit(count) == count > target

\* One bit, which is not set in curr_bw yet, and one reading of its count.
TryBit ==
  /\ at = "search"
  /\ LET trial == curr_bw + Bit[i + 1] IN
       /\ PG_DELAY' = trial
       /\ \E raw_count \in Readings(trial) :
            /\ curr_bw' = IF KeepBit(raw_count) THEN trial ELSE curr_bw
            /\ IF Distance(raw_count) < delta_lowest
               THEN delta_lowest' = Distance(raw_count) /\ best_bw' = trial
               ELSE UNCHANGED <<delta_lowest, best_bw>>
  /\ i' = i + 1
  /\ at' = IF i + 1 = Loops THEN "found" ELSE "search"
  /\ UNCHANGED <<optionVars, pgcount, old, target, sum_count, jobs, drifts>>

dwt_calcpgcount(pgdly) ==
  /\ TakeOver /\ at' = "sample"
  /\ curr_bw' = pgdly /\ sum_count' = 0
  /\ UNCHANGED <<target, best_bw, delta_lowest>>

Sample ==
  /\ at = "sample"
  /\ PG_DELAY' = curr_bw
  /\ \E count \in Readings(curr_bw) : sum_count' = sum_count + count
  /\ i' = i + 1
  /\ at' = IF i + 1 = Samples THEN "sampled" ELSE "sample"
  /\ UNCHANGED <<optionVars, pgcount, old, search, jobs, drifts>>

average_count == sum_count \div Samples

\* The call's variables are gone when it is.
Locals ==
  /\ old' = Nothing /\ i' = 0 /\ target' = 0 /\ curr_bw' = 0 /\ best_bw' = 0
  /\ delta_lowest' = 0 /\ sum_count' = 0

\* The best delay, or the average, is the answer; PG_DELAY stays at the last one
\* tried.
Return ==
  /\ at \in {"found", "sampled"} /\ at' = "main"
  /\ PMSC_CTRL0' = WritePart(PMSC_CTRL0, Byte0, old.ctrl0)
  /\ PMSC_CTRL1' = WritePart(PMSC_CTRL1, LowHalf, old.ctrl1)
  /\ RF_CONF' = old.rfconf
  /\ Locals
  /\ UNCHANGED <<GPIO_MODE, fineSeq, awake, asked, options, pgcount, PG_DELAY, jobs, drifts>>

---------------------------------------------------------------------------
Elsewhere == UNCHANGED <<pgcount, PG_DELAY, old, i, search, sum_count, jobs, drifts>>

Boot(loaducode) == at = "boot" /\ at' = "main" /\ dwt_initialise(loaducode) /\ Elsewhere

Application == at = "main" /\ Option /\ UNCHANGED at /\ Elsewhere

\* The chip keeps its registers.
ProcessorReset ==
  /\ awake /\ at' = "boot" /\ awake' = FALSE /\ Locals
  /\ UNCHANGED <<registers, asked, options, pgcount, PG_DELAY, jobs, drifts>>

Drift ==
  /\ at = "main" /\ drifts < MaxDrifts /\ drifts' = drifts + 1
  /\ pgcount' \in Temperatures
  /\ UNCHANGED <<optionVars, PG_DELAY, at, old, i, search, sum_count, jobs>>

Next ==
  \/ \E loaducode \in BOOLEAN : Boot(loaducode)
  \/ Application
  \/ \E t \in Targets : dwt_calcbandwidthtempadj(t)
  \/ \E d \in Delays : dwt_calcpgcount(d)
  \/ TryBit
  \/ Sample \/ Return \/ ProcessorReset \/ Drift

Spec == Init /\ [][Next]_vars

---------------------------------------------------------------------------
\* Whatever was measured, forced and restored in between, and wherever the
\* processor was reset: when no call is under way, every option is as the
\* application last asked for it, and nothing is forced but by a test mode.
OptionsLast == at = "main" => ForcedAsAsked /\ SetAsAsked /\ PinsAsAsked

\* The search returns the PG_DELAY with the count nearest to the target, of all
\* there are, although it tries only one for each bit; and 0 only when no delay
\* is within MaxDelta.  It reads each count once, where dwt_calcpgcount averages
\* ten readings: the noise of a reading may cost it twice that in nearness.
BestIsClosest ==
  at = "found" =>
    IF best_bw = 0 THEN \A d \in Delays : Distance(pgcount[d]) + Noise >= MaxDelta
    ELSE /\ best_bw \in Delays /\ Distance(pgcount[best_bw]) < MaxDelta + Noise
         /\ \A d \in Delays : Distance(pgcount[best_bw]) <= Distance(pgcount[d]) + 2 * Noise
=============================================================================
