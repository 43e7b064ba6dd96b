SPECIFICATION Spec
CONSTANTS
    z1 = z1  z2 = z2  b1 = b1  b2 = b2
    hot = hot  cold = cold  other = other
    tea = tea  juice = juice  pearl = pearl  jelly = jelly
    size = size  topping = topping
    small = small  large = large  pearls = pearls  jellies = jellies
    Store <- MCStore
    Category <- MCCategory
    Item <- MCItem
    Group <- MCGroup
    Option <- MCOption
    Carts <- MCCarts
    InitialMenu <- AllOfIt
    Amounts = {9}
    MaxEdits = 2
    MaxOrders = 2
    MaxChanges = 3
    None = None
INVARIANTS AvailabilityAgrees OffersAreHonoured ReordersAreHonoured PagesAddUp
CHECK_DEADLOCK FALSE
