--------------------------------- MODULE Cart ---------------------------------
(***************************************************************************)
(* What a cart is to its user: for every line (store, menu item, selected  *)
(* options) a quantity, 0 when the line is not in the cart; and the four   *)
(* things a request does to it.                                            *)
(***************************************************************************)
EXTENDS Naturals

CONSTANTS Users, Lines, Quantities

VARIABLE cart    \* cart[u][l]: the quantity user u has of line l

CartInit == cart \in [Users -> [Lines -> Quantities \cup {0}]]

Put(u, l, q) == cart' = [cart EXCEPT ![u][l] = q]

\* Line l becomes line m, merged with what is already there.
Replace(u, l, m, q) ==
    /\ cart[u][l] > 0
    /\ cart' = [cart EXCEPT ![u] = [@ EXCEPT ![l] = 0, ![m] = q]]

Drop(u, l) == cart' = [cart EXCEPT ![u][l] = 0]

Empty(u) == cart' = [cart EXCEPT ![u] = [l \in Lines |-> 0]]
=============================================================================
