SPECIFICATION Spec
CONSTANTS
  a = a b = b task = task conf = conf msg = msg
  Node = {a, b} Object = {task, conf} Message = {}
  Writers <- TwoWriters
  Deletable = {task} Restamped = {conf}
  EditsOverlap = TRUE MaxVersion = 3 MaxHandlers = 2 MaxCrashes = 1
CHECK_DEADLOCK FALSE
SYMMETRY Peers
INVARIANTS HistoryAgrees
PROPERTIES LossIsRecorded ConfigNeverRollsBack
