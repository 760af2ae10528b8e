\* A counter of two bits, whose carry a program may meet while it reads.
CONSTANTS
  Sources = {1, 10, 11}
  Priorities = {0, 1, 2}
  Half = 2
  FifoSize = 2
  Arrivals = 4
  LevelLines = {11}
  Depth = 2
  Values <- MCValues
SPECIFICATION Spec
INVARIANT CyclesReadTrue
