SPECIFICATION FairSpec
CONSTANTS
  Node = {1, 3}
  MaxNodes = 3
  MaxSeq = 2
  MaxRetries = 1
  AckTimeout = 4
  Broadcast = 255
  Msg = {"a13", "b13"}
  Src <- MCSrc
  Dst <- MCDst
  Oversize = {}
  NoMsg = NoMsg
  Prompt = TRUE
  MaxSends = 2
  MaxBeats = 0
  MaxFaults = 2
INVARIANTS TypeOK SuccessMeansDelivered
PROPERTIES PromiseSpec EveryRequestResolved
