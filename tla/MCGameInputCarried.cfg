CONSTANTS
  Buttons <- MCButtons
  Opposites = {}
  Capacity = 1
  MaxAge = 1
  Hold = 1
  Debounce = 1
  MaxNow = 2
  MaxChanges = 3
SPECIFICATION GameSpec
INVARIANT NoCarriedKeyInPlay
