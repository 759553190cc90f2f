SPECIFICATION Spec
CONSTANTS
  NumExec = 2
  Name = {"n"}
  NameOf <- SameName
  None = None
  Null = Null
  MaxCrash = 1
INVARIANTS KeepsItsName NoStaleName ExitLeavesNoChild
PROPERTY RestartsTheDead
CHECK_DEADLOCK FALSE
