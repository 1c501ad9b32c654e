SPECIFICATION FairSpec
CONSTANTS
  Callers = {c1, c2}
  Ops = {o1}
  Sources = {s1, s2}
  MaxFence = 2
  MaxCrashes = 1
INVARIANTS AtMostOneLaunch LaunchIsRecorded
PROPERTIES AcceptedProofIsCurrent UnknownIsFinal ExecutionsSettleInOrder
CHECK_DEADLOCK FALSE
