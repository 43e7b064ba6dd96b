----------------------------- MODULE StorefrontMC -----------------------------
(* Two stores of one brand in two zones, two drinks, one of them in another *)
(* brand's category, and two add-ons, one of another brand; carts with and  *)
(* without options, with an add-on that is not sold at the store, and with  *)
(* an add-on in place of a drink.                                           *)
EXTENDS Storefront

CONSTANTS z1, z2, b1, b2, hot, cold, other, tea, juice, pearl, jelly,
          size, topping, small, large, pearls, jellies

MCStore == <<[zone |-> z1, brand |-> b1], [zone |-> z2, brand |-> b1]>>

MCCategory == hot :> b1 @@ cold :> b1 @@ other :> b2

MCItem ==
    tea   :> [kind |-> "MAIN",  brand |-> b1, category |-> hot]
 @@ juice :> [kind |-> "MAIN",  brand |-> b1, category |-> other]
 @@ pearl :> [kind |-> "ADDON", brand |-> b1, category |-> cold]
 @@ jelly :> [kind |-> "ADDON", brand |-> b2, category |-> other]

MCGroup ==
    size    :> [item |-> tea, single |-> TRUE,  min |-> 0, required |-> TRUE,  max |-> 0]
 @@ topping :> [item |-> tea, single |-> FALSE, min |-> 0, required |-> FALSE, max |-> 1]

Choice(group, link, adjustment) ==
    [item |-> tea, group |-> group, link |-> link, adjustment |-> adjustment]

MCOption ==
    small   :> Choice(size, None, 0)
 @@ large   :> Choice(size, None, 13)
 @@ pearls  :> Choice(topping, pearl, 2)
 @@ jellies :> Choice(topping, jelly, 0)

AllOfIt ==
    [stores |-> {1, 2}, open |-> {1, 2}, categories |-> {hot, cold, other},
     items |-> {tea, juice, pearl, jelly}, unlisted |-> {}, soldOut |-> {},
     price |-> [x \in {tea, juice, pearl, jelly} \X {z1, z2} |->
                   CASE x = <<tea, z1>> -> 37 [] x = <<tea, z2>> -> 41
                     [] x[1] = juice -> 20    [] x = <<pearl, z2>> -> None
                     [] OTHER -> 3]]

Entry(item, options, quantity) == [item |-> item, options |-> options, quantity |-> quantity]
At(store, items) == [store |-> store, items |-> items]

MCCarts ==
    {At(1, <<Entry(tea, <<small, pearls>>, 2)>>),
     At(1, <<Entry(tea, <<pearls, large>>, 1), Entry(juice, <<>>, 3)>>),
     At(2, <<Entry(tea, <<pearls, small>>, 1)>>),
     At(1, <<Entry(tea, <<small, jellies>>, 1)>>),
     At(1, <<Entry(pearl, <<>>, 1)>>)}
===============================================================================
