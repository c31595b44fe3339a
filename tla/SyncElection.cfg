\* Two processes, two ticks they do not keep up with, one stop or crash.
SPECIFICATION FairSpec
CONSTANTS
    Process = {a, b}
    Nobody = Nobody
    Gone = Gone
    Expiry = 2
    MaxTurns = 1
    MaxStalls = 2
    MaxFaults = 1
INVARIANTS TypeOK OnePrimary OneImporter
PROPERTIES Renewed TakesOver
