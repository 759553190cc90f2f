SPECIFICATION Spec
CONSTANTS
  Node = {1, 3}
  MaxNodes = 3
  MaxSeq = 3
  MaxRetries = 1
  AckTimeout = 4
  Broadcast = 255
  Msg = {"a13", "c1x", "d31"}
  Src <- MCSrc
  Dst <- MCDst
  Oversize = {"d31"}
  NoMsg = NoMsg
  Prompt = FALSE
  MaxSends = 3
  MaxBeats = 1
  MaxFaults = 1
INVARIANTS CallbackOnce LinkInv BoundedDuplication
