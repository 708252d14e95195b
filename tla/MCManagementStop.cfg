SPECIFICATION Spec
CONSTANTS
  n1 = n1
  n2 = n2
  red = red
  blue = blue
  Names = {n1, n2}
  Roms = {red, blue}
  Playable = {red}
  MaxRoms = 2
  GenMod = 4
  Preinstalled <- MCPair
  Browsers = {"b1"}
  StopMayFail = TRUE
  MaxEdition = 1
INVARIANT UploadsOutsideGames
