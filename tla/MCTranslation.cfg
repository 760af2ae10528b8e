\* Two TLB entries for three pages of two address spaces.
CONSTANTS
  Index = {0, 1}
  Tables <- MCTables
  Asids = {0, 1}
  TlbSize = 2
  RomTables <- MCRom
  Satp <- MCSatp
  Pages <- MCPages
  Edits <- MCEdits
SPECIFICATION Spec
INVARIANTS TypeOK TranslationsJustified FaultsJustified UncachedUsesSeen
