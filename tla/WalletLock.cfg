\* Three requests, one of which gives up; one lock expires too early.
SPECIFICATION LockFairSpec
CONSTANTS
  r1 = r1  r2 = r2  r3 = r3
  Req = {r1, r2, r3}
  Impatient = {r3}
  MaxOverruns = 1
  MaxLateClears = 1
  MaxDeaths = 2
INVARIANTS Exclusive
PROPERTIES ImplementsMutex NeverStuck
