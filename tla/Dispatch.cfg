SPECIFICATION ControlSpec
CONSTANTS
  MaxTicket = 3
  Ops = {o1, o2}
  ControlOps = {o1}
  WorkerCount = 3
  DispatchCapacity = 2
  MaxControlBurst = 1
  MaxRecords = 1
  NoOp = NoOp
INVARIANTS NoOrphanRecord FirstRunIsExclusive DrainIsComplete
PROPERTIES ControlIsSettled EveryRequestIsSettled
CHECK_DEADLOCK FALSE
