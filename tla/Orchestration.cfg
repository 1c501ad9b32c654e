SPECIFICATION FairSpec
CONSTANTS
  Works = {w1}
  Ticks = {t1, t2}
  Daemons = {d1}
  CallerTicks = {t1}
  Clis = {c1, c2}
  None = None
  MaxClaims = 1
  MaxFaults = 1
INVARIANTS LaunchesAreCounted AliveIsAccountedFor PinHasItsTick
PROPERTIES SupervisionEnds
CHECK_DEADLOCK FALSE
