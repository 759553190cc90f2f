SPECIFICATION ServicesSpec
CONSTANTS
  MaxCommands = 3
  MaxPending = 2
  MaxAttempts = 3
  a = a  b = b  c = c  x = x  y = y
  Proc = {a, b}
  Pubs = {a}
  Subs = {a, b}
  Name = {x, y}
  NameOf <- OwnNames
  NoProc = NoProc
  Remote = Remote
  QueueSize = 3
  MaxPub = 2
  MaxRemote = 1
  MaxCrashes = 1
  
PROPERTIES BridgeProgress HonoursStop EndToEnd
CHECK_DEADLOCK FALSE
