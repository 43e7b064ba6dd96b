SPECIFICATION KeysSpec
CONSTANTS
    h1 = h1  h2 = h2  k1 = k1  k2 = k2
    Handlers = {h1, h2}
    Kids = {k1, k2}
    Tokens <- MCTokens
    Ages = {0, 3}
    Hour = 2
    Timeout = 1
    Skew = 1
    MaxTime = 5
PROPERTIES AcceptedIsRecent PublishedIsAccepted
SYMMETRY Alike
CHECK_DEADLOCK FALSE
