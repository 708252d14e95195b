CONSTANTS
  p1 = p1
  p2 = p2
  p3 = p3
  Progress <- MCProgress
  Blank = Blank
  Unreadable = Unreadable
  SeqMod = 4
  HasRtc = FALSE
  ReadFaults = TRUE
SYMMETRY Contents
SPECIFICATION Spec
INVARIANT OverwritesOlder
