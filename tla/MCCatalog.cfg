SPECIFICATION Spec
CONSTANTS
  n1 = n1
  n2 = n2
  red = red
  blue = blue
  Names = {n1, n2}
  Roms = {red, blue}
  Playable = {red, blue}
  RomSectors <- MCSectors
  Erased = Erased
  DataEnd = 6
  BankSectors = 1
  MaxRoms = 2
  GenMod = 4
  LegacyTables <- MCLegacy
INVARIANTS
  ReadyViewIsDurable
  DurableRomsIntact
  IInv
PROPERTY ImplementsAtomic
