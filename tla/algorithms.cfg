SPECIFICATION AlgorithmsSpec
CONSTANTS
  N = 4
  MaxWeight = 2
  IntMax = 10
  User <- MCUser
  MaxClock = 2
  MaxLines = 2
  MaxAttempts = 1
  MaxPieces = 6
  Place = {1, 2}
  Away = Away
  Sensor = {"pose", "map"}
  MaxPaths = 2
  CntMax = 1
  CntStart = 2
  CntWrap = 3
  MaxVel = 3
  MaxBack = 2
  Acc = 2
  Deacc = 3
  MaxTheta = 1
  AccTheta = 1
  Samples = 3
  Target = 2
  MinObsDist = 1
  Caps <- MCCaps
  Station = {1, 2}
  MAX_NODES = 3
  SLOT_DURATION = 10
  TRANSMISSION_WINDOW = 8
  MaxSkew = 1
  MaxDrain = 1
  MaxTime = 22
  Body <- MCBody
  Noise = {10, 48}
  MaxFrames = 2
INVARIANTS RouteIsShortest   WatchdogFresh GoalOnPath StopsHold BestIsAllowed SlotsDisjoint WireFaithful
CHECK_DEADLOCK FALSE
