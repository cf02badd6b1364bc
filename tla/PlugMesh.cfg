SPECIFICATION Spec
CONSTANTS
    Tasks <- MCTasks
    None = None
    Interval <- MCInterval
    Times <- MCTimes
    Notes <- MCNotes
    Msgs = {m1}
    Empty = Empty
    MissTimeout = 2
    MaxTicks = 2
    MaxEvents = 3
    Modes <- MCModes
INVARIANTS TypeOK ReconnectComing NestedOnce SlotDelivers StaleBounded
PROPERTIES SendallEnds LonelyRestarts
