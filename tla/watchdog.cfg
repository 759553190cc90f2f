SPECIFICATION VhSpec
CONSTANTS
  Place = {1, 2}
  Away = Away
  Sensor = {"pose", "map"}
  MaxPaths = 2
  CntMax = 1
  CntStart = 2
  CntWrap = 3
INVARIANT WatchdogStops
