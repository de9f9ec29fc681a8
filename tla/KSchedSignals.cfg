SPECIFICATION Spec
CONSTANTS
    MaxTasks = 3
    MaxPid = 2
    MaxFrames = 1
    MaxSleep = 0
    Signals <- JobAndIntSignals
    Sendable = {2, 9}
    Catchable = {2, 17}
    MaskSets = {{}, {2, 17}}
INVARIANTS TypeOK NoSleepThroughSignal
PROPERTY ZombieStays
