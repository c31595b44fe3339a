\* Two of three parties sign, over two rounds, with one fault.
SPECIFICATION FairSpec
CONSTANTS
  Party = {0, 1, 2}
  M = 2
  Encrypted = {1}
  LastRound = 1
  Attempt = {1, 2}
  NoSignature = NoSignature
  MaxFaults = 1
INVARIANTS TypeOK SameMessages OneSignature
PROPERTIES ImplementsLockstep SigningEnds
CHECK_DEADLOCK FALSE
