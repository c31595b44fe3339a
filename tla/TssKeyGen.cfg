\* A key generation of three parties over three rounds, with one fault.
SPECIFICATION FairSpec
CONSTANTS
  Party = {0, 1, 2}
  LastRound = 2
  Attempt = {1, 2}
  NoKey = NoKey
  MaxFaults = 1
INVARIANTS TypeOK SameMessages SameKey
PROPERTIES ImplementsLockstep KeyGenEnds
CHECK_DEADLOCK FALSE
