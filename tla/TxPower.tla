------------------------------ MODULE TxPower ------------------------------
(***************************************************************************)
(* _dwt_computetxpowersetting: the change of the TX_POWER register for a   *)
(* change of temperature.  Each of its four bytes is an attenuation, 3     *)
(* bits in steps of 2.5 dB, over a mixer gain, 5 bits in steps of 0.5 dB.  *)
(* Temperatures are whole degrees.                                         *)
(***************************************************************************)
EXTENDS RadioConfig

DA_ATTN_STEP == 5     \* in mixer gain steps
da_attn(byte) == byte \div 32
mixer_gain(byte) == byte % 32

\* "Mixer gain gives best performance between 4 and 20".
BestGains == 4 .. 20

\* The gain after n rounds of the loop, which may be far out at the start.
GainAfter(gain, n) ==
  IF gain > 20 THEN gain - n * DA_ATTN_STEP ELSE gain + n * DA_ATTN_STEP

\* The loop stops with the first gain among the best.  Fewer rounds than the gain
\* is away from 20 or 4 are enough.
StopsAfter(gain, n) ==
  GainAfter(gain, n) \in BestGains /\ \A m \in 0 .. n - 1 : GainAfter(gain, m) \notin BestGains

Away(gain) == IF gain > 20 THEN gain - 20 ELSE IF gain < 4 THEN 4 - gain ELSE 0

Rounds(gain) == CHOOSE n \in 0 .. Away(gain) : StopsAfter(gain, n)

\* Both directions raise the attenuation.
new_da_attn(byte, power_adj) == da_attn(byte) + Rounds(mixer_gain(byte) + power_adj)
new_mixer_gain(byte, power_adj) ==
  GainAfter(mixer_gain(byte) + power_adj, Rounds(mixer_gain(byte) + power_adj))

NewByte(byte, power_adj) == 32 * new_da_attn(byte, power_adj) + new_mixer_gain(byte, power_adj)

\* The byte's three bits hold the attenuation: otherwise it runs into the byte
\* above.
Fits(byte, power_adj) == new_da_attn(byte, power_adj) <= 7

\* The register as its four bytes, where each of them fits.
_dwt_computetxpowersetting(ref_powerreg, power_adj) ==
  [i \in 0 .. 3 |-> NewByte(ref_powerreg[i], power_adj)]

\* In thousandths of a dB a degree, by channel.
txpwr_compensation == <<0, 35, 0, 0, 65, 0>>

\* The cast to an integer: towards 0.
Truncated(n, d) == IF n >= 0 THEN n \div d ELSE -((-n) \div d)

\* The change of the power in steps of 0.5 dB.
power_change(channel, delta_temp) ==
  Truncated(2 * delta_temp * txpwr_compensation[chan_idx[channel + 1] + 1], 1000)

dwt_calcpowertempadj(channel, ref_powerreg, delta_temp) ==
  _dwt_computetxpowersetting(ref_powerreg, power_change(channel, delta_temp))

\* The power of a byte, in mixer gain steps.
Power(byte) == mixer_gain(byte) - DA_ATTN_STEP * da_attn(byte)
=============================================================================
