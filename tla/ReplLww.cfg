SPECIFICATION Spec
CONSTANTS
  a = a b = b task = task conf = conf msg = msg
  Node = {a, b} Object = {task} Message = {}
  Writers <- TwoWriters
  Deletable = {} Restamped = {}
  EditsOverlap = FALSE MaxVersion = 3 MaxHandlers = 1 MaxCrashes = 0
CHECK_DEADLOCK FALSE
INVARIANTS LastWriterWins
