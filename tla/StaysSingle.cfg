\* A block announced while the initial sync ends, without faults.
SPECIFICATION Spec
CONSTANTS
    Thread = {t1, t2}
    NoThread = NoThread
    FirstTip = 1
    MaxHeaders = 2
    MaxHeight = 4
    MaxFaults = 0
PROPERTIES StaysSingle
CHECK_DEADLOCK FALSE
