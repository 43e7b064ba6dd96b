--------------------------- MODULE CheckoutPricingMC ---------------------------
(* Two items, one priced with tax and one without, and every request of up to  *)
(* two lines and three codes over vouchers of each kind; prices are small, so  *)
(* that rounding, caps and a remaining subtotal of nothing all occur.          *)
EXTENDS CheckoutPricing

MCItem ==
    [tea  |-> [base |-> 37, inclusive |-> TRUE,  promo |-> FALSE],
     cake |-> [base |-> 5,  inclusive |-> FALSE, promo |-> TRUE]]

MCOption ==
    [large |-> [item |-> "tea",  group |-> "size", adjustment |-> 13, inclusive |-> TRUE],
     small |-> [item |-> "tea",  group |-> "size", adjustment |-> 0,  inclusive |-> TRUE],
     oats  |-> [item |-> "tea",  group |-> "milk", adjustment |-> 3,  inclusive |-> FALSE],
     cream |-> [item |-> "cake", group |-> "top",  adjustment |-> 1,  inclusive |-> TRUE]]

MCGroup ==
    [size |-> [item |-> "tea",  single |-> TRUE,  min |-> 0, required |-> TRUE,  max |-> 0],
     milk |-> [item |-> "tea",  single |-> FALSE, min |-> 0, required |-> FALSE, max |-> 1],
     top  |-> [item |-> "cake", single |-> FALSE, min |-> 0, required |-> FALSE, max |-> 2]]

V(percent, value, cap, items, group, priority, combinable) ==
    [percent |-> percent, value |-> value, cap |-> cap, minSpend |-> 10, items |-> items,
     promo |-> group # "brand", group |-> group, priority |-> priority, exclusive |-> FALSE,
     combinable |-> combinable, methods |-> {}, usable |-> TRUE]

All == {"tea", "cake"}

MCVoucher ==
    <<V(TRUE, 10, None, All, "cart", 2, {}),
      V(TRUE, 50, 20, {"tea"}, "brand", 1, {"cart", "item"}),
      V(FALSE, 30, None, All, "item", 2, {"item", "cart", "brand"}),
      [V(FALSE, 45, None, {"tea"}, "item", 1, {"item", "cart", "brand"}) EXCEPT !.methods = {"card"}],
      V(TRUE, 100, None, All, "cart", 3, {"cart", "item"}),
      [V(FALSE, 5, None, All, "gift", 1, {}) EXCEPT !.exclusive = TRUE],
      [V(FALSE, 5, None, All, "late", 1, {}) EXCEPT !.usable = FALSE],
      V(TRUE, 1, None, All, "last", 9, {"cart", "item"})>>

Entry(item, options, quantity) == [item |-> item, options |-> options, quantity |-> quantity]

Carts ==
    LET teas  == {Entry("tea", o, 1) : o \in {<<"large">>, <<"small", "oats">>, <<"oats">>,
                                              <<"small", "large">>, <<"small", "small">>}}
        cakes == {Entry("cake", o, q) : o \in {<<>>, <<"cream">>}, q \in 1..3}
        more  == {Entry("tea", <<"small">>, q) : q \in {0, 2}} \cup {Entry("cake", <<"oats">>, 1)}
    IN  {<<>>} \cup {<<e>> : e \in teas \cup cakes \cup more} \cup {<<t, c>> : t \in teas, c \in cakes}

Packaging == [amount |-> 11, taxable |-> TRUE, inclusive |-> TRUE, waiver |-> 60]
Service == [amount |-> 9, taxable |-> TRUE, inclusive |-> FALSE, waiver |-> None]
Handling == [amount |-> 2, taxable |-> FALSE, inclusive |-> FALSE, waiver |-> None]
Dormant == [amount |-> 0, taxable |-> TRUE, inclusive |-> FALSE, waiver |-> None]

\* Code 9 is no voucher.
Codes == BoundedSeq(1..9, 2) \cup {<<4, 3, 5>>, <<1, 3, 2>>, <<5, 4, 2>>, <<8, 3, 5>>}

MCRequests ==
    [what : {"order"}, items : Carts, codes : Codes,
     method : {"card"}, rate : {0, 800}, charges : {<<>>, <<Packaging, Service, Handling, Dormant>>}]
    \cup [what : {"order"}, items : Carts, codes : Codes, method : {"wallet", None}, rate : {0},
          charges : {<<>>}]
    \cup [what : {"preview"}, items : Carts, codes : Codes, method : {"card", None}, rate : {0},
          charges : {<<>>}]
    \cup [what : {"arithmetic"}, a : -8..7, b : -8..7, max : {7}]
=============================================================================
