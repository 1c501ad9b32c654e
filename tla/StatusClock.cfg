SPECIFICATION ClockSpec
CONSTANTS
  MaxTime = 2
  Waivers = {0, 9}
INVARIANTS ClaimableIffAuthorized NoDeadEnd
PROPERTIES ClockNeverRevives NoEarlyChange
CHECK_DEADLOCK FALSE
