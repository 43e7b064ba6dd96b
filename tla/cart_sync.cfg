SPECIFICATION FairSpec
CONSTANTS
    my = my  th = th  s1 = s1  s2 = s2  latte = latte  mocha = mocha
    Countries = {my, th}
    HomeCountry = my
    Stores = {s1, s2}
    HomeStore = s1
    Lines = {latte, mocha}
    Plain = {latte}
    Closed = Closed
    MaxCalls = 2
    MaxEvents = 4
    MaxHurries = 1
    MaxQuantity = 2
    MaxLost = 1
CHECK_DEADLOCK FALSE
INVARIANTS QuietAgrees LinesDistinct
PROPERTY EventuallyAgreesOrEmpty
