\* A FIFO of two bytes that four bytes overrun; a four-tick clock that wraps.
CONSTANTS
  Sources = {1, 10, 11}
  Priorities = {0, 1, 2}
  Half = 2
  FifoSize = 2
  Arrivals = 4
  LevelLines = {11}
  Depth = 2
  Values <- MCValues
SPECIFICATION Spec
INVARIANTS TypeOK ClaimsBest RxLineCurrent TimerNotEarly CountsReadTrue SupervisorFrameKept
PROPERTIES ReturnsNeverRaise ReturnsWhereTrapped BytesDelivered
