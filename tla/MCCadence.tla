----------------------------- MODULE MCCadence -----------------------------
(* Instances of Cadence for TLC: a unit is four minutes, a day is short.  *)
EXTENDS Cadence, TLC

CONSTANTS t1, t2, e1, e2

JitterBand == {1, 2}
NoiseBand == {0}
Alike == Permutations({t1, t2}) \cup Permutations({e1, e2})

=============================================================================
