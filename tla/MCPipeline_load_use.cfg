\* A load and its immediate user.
CONSTANTS
  RegCount = 3
  Modulus = 5
  Programs <- LoadUsePrograms
  Interrupts = FALSE
  Handler = 0
SPECIFICATION Spec
PROPERTY LoadSurvivesStall
