CONSTANTS
  t1 = t1
  t2 = t2
  e1 = e1
  e2 = e2
  Floor = 2
  Jitter <- JitterBand
  Noise <- NoiseBand
  MinDelay = 0
  Padding = 1
  Grace = 2
  Requeue = 1
  Day = 4
  Cap = 2
  Closes = 6
  Tick = {t1, t2}
  Exec = {e1, e2}
  MaxBooked = 3
  MaxFaults = 1
  Horizon = 5
SPECIFICATION Spec
INVARIANTS
  GapKept
  RollingLimit
  OneSlotAhead
SYMMETRY Alike
CHECK_DEADLOCK FALSE
