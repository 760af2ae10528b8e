\* Every hazard-free program of the family, with every prediction the five
\* predictors could make.
CONSTANTS
  RegCount = 3
  Modulus = 5
  Programs <- HazardFreePrograms
  Interrupts = FALSE
  Handler = 0
SPECIFICATION Spec
INVARIANT TypeOK
PROPERTIES RefinesIsa StallsLastOneCycle Progress
