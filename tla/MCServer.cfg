\* Two clients and three commands, in every interleaving with the run loop.
CONSTANTS
  Clients = {a, b}
  Loop = loop
  Nobody = nobody
  MaxCycles = 2
  Capacity = 2
  Budget = 3
SPECIFICATION Spec
INVARIANTS TypeOK FreshSnapshots LateClockOnce
PROPERTY CommandsFinish
CHECK_DEADLOCK FALSE
