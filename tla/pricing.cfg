SPECIFICATION PricingSpec
CONSTANTS
    None = None
    MaxInt = 1000000
    MaxQuantity = 2
    Item <- MCItem
    Option <- MCOption
    Group <- MCGroup
    Voucher <- MCVoucher
    Methods = {"card", "wallet"}
    Requests <- MCRequests
INVARIANTS CodesInAnyOrder FewerVouchersNeverCheaper DiscountsWithinSubtotal WithinACent ArithmeticExact 
CHECK_DEADLOCK FALSE
