\* The run loop clocks the CPU after a reset.
CONSTANTS
  Clients = {a}
  Loop = loop
  Nobody = nobody
  MaxCycles = 1
  Capacity = 1
  Budget = 3
SPECIFICATION Spec
INVARIANT ResetStaysPaused
CHECK_DEADLOCK FALSE
