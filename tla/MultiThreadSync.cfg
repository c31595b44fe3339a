\* Three threads over batches of four headers, two faults.
SPECIFICATION FairSpec
CONSTANTS
    Thread = {t1, t2, t3}
    NoThread = NoThread
    FirstTip = 1
    MaxHeaders = 4
    MaxHeight = 6
    MaxFaults = 2
INVARIANTS TypeOK InOrder Accounted
PROPERTIES BatchEnds CatchesUp
CHECK_DEADLOCK FALSE
