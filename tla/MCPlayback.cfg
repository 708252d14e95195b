CONSTANTS
  QueueLength = 3
  Prefill = 2
  Rows = 2
  Shades <- MCShades
SPECIFICATION Spec
INVARIANTS
  SoundOnlyInGame
  StopReachesTheTask
  DrawnIsShown
