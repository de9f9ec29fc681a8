SPECIFICATION FairSpec
CONSTANTS
    MaxTasks = 3
    MaxPid = 3
    MaxFrames = 1
    MaxSleep = 1
    Signals <- JobSignals
    Sendable = {9, 17, 19}
    Catchable = {}
    MaskSets = {{}}

 
PROPERTIES StopHolds ReadyRuns SleepEnds KilledDies
