SPECIFICATION ESpec
CONSTANTS
  a = a b = b task = task conf = conf msg = msg
  Node = {a, b} Object = {task} Message = {msg}
  Writers <- OneWriter
  Deletable = {} Restamped = {}
  EditsOverlap = FALSE MaxVersion = 3 MaxHandlers = 1 MaxCrashes = 1
  Daemons = {1, 2} Made <- TwoProofs Near <- OneDaemonEach Lag <- SecondLags
  ProofWindow = 1 ProofMaxAge = 1 WitnessTTL = 1 DayLength = 2
  FirstClock = 2 LastClock = 3 MaxDaemonStops = 1
  Nodes = {"p", "q"} Hosts = {"h1", "h2"} LANPeers = {"h1"}
  FirstRuns <- OneEachOnly Bootstrap <- SecondConfigured
  Nowhere = Nowhere Torn = Torn
  KnownGoodTTL = 1 KnownGoodRefresh = 1 KnownGoodMax = 1
  MaxEvents = 1
CHECK_DEADLOCK FALSE
INVARIANTS OneCopyPerHandler
PROPERTIES IsRegister EventuallyAgree CreditsSpread DiscoveryRecovers
