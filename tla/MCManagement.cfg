SPECIFICATION FairSpec
CONSTANTS
  n1 = n1
  n2 = n2
  red = red
  blue = blue
  Names = {n1, n2}
  Roms = {red, blue}
  Playable = {red, blue}
  MaxRoms = 2
  GenMod = 4
  Preinstalled <- MCPreinstalled
  Browsers = {"b1"}
  StopMayFail = FALSE
  MaxEdition = 2
INVARIANTS
  TokensAreFresh
  AnswersHold
  PlayedGameIsListed
  PruneLeavesNoOrphan
PROPERTIES
  LiveSavesKept
  PruneEnds
  StopReturns
  UsesCatalog
