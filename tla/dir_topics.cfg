\* Two nodes of a host subscribe a topic and one of them goes; nothing fails.
SPECIFICATION Spec
CONSTANTS
  h1 = h1  h2 = h2  n1 = n1  n2 = n2  t1 = t1
  Host = {h1, h2}
  WithNodes = {h1, h2}
  Node = {n1, n2}
  Topic = {t1}
  NoTopic = NoTopic
  MaxOps = 5
  MaxFaults = 0
INVARIANT EveryHostOfTopic
CHECK_DEADLOCK FALSE
