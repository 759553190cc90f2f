SPECIFICATION Spec
CONSTANTS
  Node = {1, 3}
  MaxNodes = 3
  MaxSeq = 1
  MaxRetries = 3
  AckTimeout = 4
  Broadcast = 255
  Msg = {"a13"}
  Src <- MCSrc
  Dst <- MCDst
  Oversize = {}
  NoMsg = NoMsg
  Prompt = TRUE
  MaxSends = 1
  MaxBeats = 1
  MaxFaults = 0
INVARIANTS AtMostOnceDelivery
