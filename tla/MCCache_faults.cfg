\* One way in each of two sets; line 0 is read-only, line 1 plain RAM, lines 2
\* and 3 are RAM also written by a bus master and straddled by accesses, and
\* nothing answers at line 4.
CONSTANTS
  SetCount = 2
  Ways = 1
  LineSize = 2
  LineCount = 5
  Kind <- FaultKind
  Widths = {2}
  Values = {0, 1}
  Zero = 0
  Configs <- FaultConfigs
  Bypassed = {2, 3, 4}
SPECIFICATION Spec
PROPERTIES FlushMakesMemoryCurrent FailureKeepsView DirtyDataSurvives
