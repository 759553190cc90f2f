\* Two publishers, one of them restarted under the same name, and a subscriber.
SPECIFICATION Spec
CONSTANTS
  a = a  b = b  c = c  x = x  y = y
  Proc = {a, b, c}
  Pubs = {a, c}
  Subs = {b}
  Name = {x, y}
  NameOf <- SharedName
  NoProc = NoProc
  Remote = Remote
  QueueSize = 1
  MaxPub = 2
  MaxRemote = 1
  MaxCrashes = 1
INVARIANTS TypeOK Counted InOrder  PopFindsMessage QueueBound
CHECK_DEADLOCK FALSE
