SPECIFICATION Spec
CONSTANTS
    r1 = r1  r2 = r2  r3 = r3  r4 = r4  t1 = t1
    u1 = u1  u2 = u2  k1 = k1  v1 = v1  v2 = v2
    Requests = {r1, r2, r3, r4}
    IntentOnly = {r1}
    TopUps = {t1}
    Users = {u1, u2}
    Keys = {k1}
    Vouchers = {v1, v2}
    Limited = {v1}
    LimitedPerUser = {}
    MaxRedemptions <- OnceEach
    MaxPerUser <- OnceEach
    Rank <- V1First
    Cart <- RivalCart
    TopUp <- OneTopUp
    Events <- EventIds
    Callbacks <- AnyReports
    None = None
PROPERTY DuplicatesLeaveOrders
