\* Two ways of one set over three RAM lines and one unmapped line: every fill
\* of a full set evicts, and a failing fill finds both clean and dirty victims.
CONSTANTS
  SetCount = 1
  Ways = 2
  LineSize = 2
  LineCount = 4
  Kind <- RamKind
  Widths = {1}
  Values = {0, 1}
  Zero = 0
  Configs <- RamConfigs
  Bypassed = {}
SPECIFICATION CpuSpec
INVARIANTS TypeOK UniqueTag CleanMatchesMemory
PROPERTY RefinesFlatMemory
