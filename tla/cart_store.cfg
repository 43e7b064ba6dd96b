SPECIFICATION Spec
CONSTANTS
    r1 = r1  r2 = r2  r3 = r3  r4 = r4  r5 = r5  r6 = r6  u1 = u1  u2 = u2
    latte = latte  mocha = mocha
    Requests = {r1, r2, r3, r4, r5, r6}
    Op <- Mixed
    Users = {u1, u2}
    Lines = {latte, mocha}
    Plain = {mocha}
    Quantities = {1, 2, 3}
    Initial <- OneRowEach
    FirstId = 3
CHECK_DEADLOCK FALSE
INVARIANT CartConsistent
PROPERTY ImplementsCart
