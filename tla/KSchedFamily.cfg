SPECIFICATION Spec
CONSTANTS
    MaxTasks = 4
    MaxPid = 3
    MaxFrames = 1
    MaxSleep = 0
    Signals <- JobSignals
    Sendable = {}
    Catchable = {20}
    MaskSets = {{}}
INVARIANTS OneRunner AlwaysATask OrphansAdopted WaiterWoken

