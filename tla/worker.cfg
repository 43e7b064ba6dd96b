SPECIFICATION FairSpec
CONSTANTS
    w1 = w1  w2 = w2
    Processes = {w1, w2}
    Things = {"tier", "key"}
    Forms = {"varchar", "enum", "fk"}
    Migration <- TwoFiles
    MaxCrashes = 1
    Orders = {1, 2}
    BatchSize = 2
    MaxFaults = 2
CHECK_DEADLOCK FALSE
INVARIANTS ProcessingIsHeld SchemaInOrder
PROPERTIES OnlyReportsRevise QueuedIsDecided AllStartUp
