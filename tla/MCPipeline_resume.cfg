\* Main loops that are interrupted at any cycle with interrupts enabled.
CONSTANTS
  RegCount = 3
  Modulus = 8
  Programs <- TrapPrograms
  Interrupts = TRUE
  Handler = 4
SPECIFICATION Spec
PROPERTY ResumesWhereInterrupted
