CONSTANTS
  k1 = k1
  k2 = k2
  Buttons <- MCButtons
  Capacity = 3
  MaxAge = 1
  MaxNow = 4
  MaxChanges = 6
SYMMETRY Keys
SPECIFICATION InputSpec
INVARIANTS
  InputIInv
PROPERTIES
  OnlyNewKeysInPlay
  NoSilentSkip
  NoGhostKeys
