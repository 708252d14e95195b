CONSTANTS
  d1 = d1
  d2 = d2
  d3 = d3
  Devices <- MCDevices
  Packets <- MCPackets
  Size = 2
  TTL = 2
  Wrap = 5
  MaxQuiet = 3
SYMMETRY MCSymmetry
SPECIFICATION Spec
INVARIANTS
  CacheTypeOK
  JudgedByWhatWasHeard
