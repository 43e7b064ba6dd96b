SPECIFICATION Spec
CONSTANTS
    o1 = o1  o2 = o2  o3 = o3  o4 = o4  u1 = u1  u2 = u2  v1 = v1  v2 = v2
    Orders = {o1, o2, o3, o4}
    Users = {u1, u2}
    Vouchers = {v1, v2}
    UserOf <- Buyers
    Applied <- Stacks
    Rank <- V1First
    Id <- V2Older
    Limited = {v1, v2}
    LimitedPerUser = {v1}
    MaxRedemptions <- V1TwiceV2Once
    MaxPerUser <- OnceEach
    Revived = {o2}
    None = None
CHECK_DEADLOCK FALSE
INVARIANTS CapturesHaveRoom 
PROPERTY ImplementsLedger
