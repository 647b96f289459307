SPECIFICATION Spec
CONSTANTS
  c = c d = d
  Conflict = {c}
  MaxCursor = 2 MaxStamp = 3 MaxCrashes = 0
CHECK_DEADLOCK FALSE
INVARIANTS ResolutionSticks
