------------------------------- MODULE Energy -------------------------------
(* The RAPL counter and the arithmetic the scripts do on two readings of    *)
(* it.  The counter counts up to max_energy_range_uj and then starts again  *)
(* at zero.                                                                 *)
EXTENDS Integers

CONSTANT MaxRange    \* max_energy_range_uj

ASSUME EnergyAssumption == MaxRange \in Nat \ {0}

\* The counter after n more microjoules.
Turned(counter, n) == (counter + n) % (MaxRange + 1)

\* energy_delta_j, in microjoules.  Seeded bug: a counter that has turned is
\* not noticed.
energy_delta_NoTurn(e1, e2) == e2 - e1
energy_delta(e1, e2) == IF e2 >= e1 THEN e2 - e1 ELSE (MaxRange - e1) + e2

\* energy_j, the part of a window's energy above the idle baseline; here and
\* in the windows, power is in microjoules per scale seconds.
energy_net(raw, power, elapsed, scale) ==
  IF raw * scale > power * elapsed THEN raw * scale - power * elapsed ELSE 0
=============================================================================
