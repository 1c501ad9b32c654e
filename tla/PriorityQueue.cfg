SPECIFICATION QueueFairSpec
CONSTANTS
  MaxTicket = 6
  Capacity = 3
  ControlReserve = 1
  MaxControlBurst = 2
  Threads = {w1, w2}
INVARIANTS ReserveHeld BoundedBypass NoLostWakeup
PROPERTIES AdmittedIsDelivered CloseDrains
CHECK_DEADLOCK FALSE
