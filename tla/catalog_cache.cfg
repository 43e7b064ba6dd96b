SPECIFICATION Spec
CONSTANTS
    r1 = r1
    r2 = r2
    None = None
    Readers <- MCReaders
    MaxAttempts = 1
    MaxEdits = 1
    MaxInvalidations = 1
    MaxRequests = 3
    MaxFaults = 1
INVARIANTS FreshMenu FreshContext NoRequestStuck
SYMMETRY Handlers
VIEW Shown
CHECK_DEADLOCK FALSE
