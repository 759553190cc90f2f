\* A broken connection or a restart of either master, requests read together.
SPECIFICATION FairSpec
CONSTANTS
  h1 = h1  h2 = h2  n1 = n1  n2 = n2  t1 = t1
  Host = {h1, h2}
  WithNodes = {h1}
  Node = {n1}
  Topic = {t1}
  NoTopic = NoTopic
  MaxOps = 3
  MaxFaults = 1
INVARIANTS TypeOK CopyAgrees NoStrayHost
PROPERTY EventuallyAgree
CHECK_DEADLOCK FALSE
