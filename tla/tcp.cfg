\* Three requests, two connections; an attempt to connect may stay unanswered.
SPECIFICATION FairSpec
CONSTANTS
  MaxSends = 3
  MaxConns = 2
  MaxFired = 2
INVARIANTS TypeOK LinkInv LossIsRepaired
PROPERTIES LinkSpec NeverHangs
