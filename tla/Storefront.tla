------------------------------ MODULE Storefront ------------------------------
(***************************************************************************)
(* A customer between menu, cart, checkout and order history while the     *)
(* menu is edited (backend/internal/checkout/service.go: Checkout as far   *)
(* as it reads the menu, populateItemsBatch, ListOrders, ListReorderItems).*)
(*                                                                         *)
(* Checkout reads in three queries, between which the menu may change; a   *)
(* page that is only shown is read in one step.  Vouchers, tax, payment    *)
(* and the limits of a cart are in CheckoutPricing and OrderPayments.      *)
(***************************************************************************)
EXTENDS Menu

CONSTANTS
    Carts,      \* store, items: what the customer may have in the cart
    InitialMenu,
    MaxOrders,  \* bound
    MaxChanges  \* bound: orders and edits together

CartEntry == [item : Items, options : Seq(DOMAIN Option), quantity : Nat]
CartType == [store : Stores, items : Seq(CartEntry)]

\* What the order history and the list for ordering again show.
StatusEntry ==
    [item : Items, quantity : Nat, price : Nat,
     options : UNION {[S -> Int] : S \in SUBSET DOMAIN Option}]
ReorderView ==
    [store : Stores, entry : CartEntry, available : BOOLEAN, price : Nat, options : OptionViews]

ASSUME StorefrontAssumption ==
    /\ InitialMenu \in MenuType /\ Carts \subseteq CartType
    /\ None \notin CartType \cup Seq(Seq(StatusEntry)) \cup ReorderView

VARIABLES
    orders,     \* order_intents, in the order of their creation
    checkout    \* the checkout under way: cart, priced items, began; or None

vars == <<db, edits, orders, checkout>>

Init ==
    /\ db = InitialMenu /\ edits = 0
    /\ orders = <<>> /\ checkout = None

-----------------------------------------------------------------------------
(* Checkout *)

MayChange == edits + Len(orders) + Cardinality({checkout} \ {None}) < MaxChanges

ItemIDs(items) == {e.item : e \in ToSet(items)}
OptionIDs(items) == UNION {ToSet(e.options) : e \in ToSet(items)}
Sum(amounts) == FoldFunction(+, 0, amounts)

\* One line of the cart at the prices of its item and options.
LineTotal(entry, price, adjustment) ==
    (price + Sum([n \in DOMAIN entry.options |-> adjustment[entry.options[n]]])) * entry.quantity

CartTotal(items, priced, prices) ==
    Sum([n \in DOMAIN items |-> LineTotal(items[n], priced[items[n].item], prices)])

BeginCheckout(cart) ==
    /\ checkout = None /\ Len(orders) < MaxOrders /\ MayChange
    /\ GetStore(db, cart.store) /\ cart.store \in db.open
    /\ checkout' = [cart |-> cart, priced |-> None, began |-> edits]
    /\ UNCHANGED <<db, edits, orders>>

ReadItems ==
    /\ checkout # None /\ checkout.priced = None
    /\ LET items  == ItemIDs(checkout.cart.items)
           priced == GetPricedItems(db, checkout.cart.store, items)
       IN  checkout' = IF DOMAIN priced # items THEN None ELSE [checkout EXCEPT !.priced = priced]
    /\ UNCHANGED <<db, edits, orders>>

\* GetOptionPrices, validateCustomizations and the insertion: what they need of the
\* groups does not change, and nothing looks at the menu again.
PlaceOrder ==
    /\ checkout # None /\ checkout.priced # None
    /\ LET cart    == checkout.cart
           options == OptionIDs(cart.items)
           prices  == GetOptionPrices(db, cart.store, options)
       IN  orders' = IF DOMAIN prices # options \/ \E e \in ToSet(cart.items) : ~ValidCustomizations(e)
                     THEN orders
                     ELSE Append(orders, [store |-> cart.store, items |-> cart.items,
                                          status |-> "PAYMENT_PENDING", began |-> checkout.began,
                                          subtotal |-> CartTotal(cart.items, checkout.priced, prices)])
    /\ checkout' = None
    /\ UNCHANGED <<db, edits>>

\* The payment is captured.
Release(n) ==
    /\ orders[n].status = "PAYMENT_PENDING"
    /\ orders' = [orders EXCEPT ![n].status = "READY_TO_COLLECT"]
    /\ UNCHANGED <<db, edits, checkout>>

-----------------------------------------------------------------------------
(* The customer's orders *)

\* What is not sold any more counts as 0.
buildOrderStatusItems(items, priced, prices) ==
    [n \in DOMAIN items |->
        [item     |-> items[n].item,
         quantity |-> items[n].quantity,
         price    |-> IF items[n].item \in DOMAIN priced THEN priced[items[n].item] ELSE 0,
         options  |-> [o \in ToSet(items[n].options) |->
                          IF o \in DOMAIN prices THEN prices[o] ELSE 0]]]

\* Slip: all orders of the page are priced at the first one's store.
populateItemsAtFirst(d, rows) ==
    LET options == UNION {OptionIDs(r.items) : r \in ToSet(rows)}
        items   == UNION {ItemIDs(r.items) : r \in ToSet(rows)}
    IN  IF \E r \in ToSet(rows) : ~GetStore(d, r.store) THEN None
        ELSE [n \in DOMAIN rows |->
                 buildOrderStatusItems(rows[n].items, GetPricedItems(d, rows[1].store, items),
                                       GetOptionPrices(d, rows[1].store, options))]

\* None is an error: one store that is not active any more suffices.
populateItemsBatch(d, rows) ==
    LET options == UNION {OptionIDs(r.items) : r \in ToSet(rows)}
        items(s) == UNION {ItemIDs(r.items) : r \in {r \in ToSet(rows) : r.store = s}}
        priced == [s \in Stores |-> GetPricedItems(d, s, items(s))]
        prices == [s \in Stores |-> GetOptionPrices(d, s, options)]
    IN  IF \E r \in ToSet(rows) : ~GetStore(d, r.store) THEN None
        ELSE [n \in DOMAIN rows |->
                 buildOrderStatusItems(rows[n].items, priced[rows[n].store], prices[rows[n].store])]

\* One order, looked up alone.
GetStatus(d, row) == populateItemsBatch(d, <<row>>)

\* The newest orders come first; no filter is all of them.
ListStatusesByUser(rows, statuses) ==
    Reverse(Where(rows, {r \in ToSet(rows) : statuses = {} \/ r.status \in statuses}))

ListOrders(d, rows, statuses, page, limit) ==
    LET cut == Page(ListStatusesByUser(rows, statuses), NormalizePage(page),
                    NormalizeLimit(limit, 20, 50))
    IN  [rows |-> cut.items, views |-> populateItemsBatch(d, cut.items)]

Joined(lists) == FoldLeft(LAMBDA all, list : all \o list, <<>>, lists)

\* The lines of the last orders that were ready, newest order first, as far as
\* their item is on the menu of the store they came from.
ListReorderProductRows(d, rows, orderLimit, rowLimit) ==
    LET done   == Where(Reverse(rows),
                        {r \in ToSet(rows) : r.status \in {"READY_TO_COLLECT", "COMPLETED"}})
        recent == Slice(done, 0, orderLimit)
        lines  == Joined([n \in DOMAIN recent |->
                      [l \in DOMAIN recent[n].items |->
                          [store |-> recent[n].store, entry |-> recent[n].items[l]]]])
        Sold(l) == /\ l.entry.item \in d.items /\ Item[l.entry.item].kind = "MAIN"
                   /\ Item[l.entry.item].category \in d.categories
                   /\ Priced(d, l.store, l.entry.item) /\ Listed(d, l.store, l.entry.item)
    IN  Slice(Where(lines, {l \in ToSet(lines) : Sold(l)}), 0, rowLimit)

\* Slip: an option that is not sold any more is still shown as available.
ReorderOptionKnown(prices, o) ==
    [available |-> TRUE, adjustment |-> IF o \in DOMAIN prices THEN prices[o] ELSE 0]

ReorderOption(prices, o) ==
    [available |-> o \in DOMAIN prices, adjustment |-> IF o \in DOMAIN prices THEN prices[o] ELSE 0]

\* Of lines with the same item and options the first one stands for all.
Distinct(lines) ==
    LET SameAs(l, k) == l.entry.item = k.entry.item /\ ToSet(l.entry.options) = ToSet(k.entry.options)
    IN  FoldLeft(LAMBDA seen, l : IF \E k \in ToSet(seen) : SameAs(l, k) THEN seen ELSE Append(seen, l),
                 <<>>, lines)

\* Each with the price and the availability of the store it comes from.
ListReorderItems(d, rows, limit) ==
    LET most == NormalizeLimit(limit, 8, 20)
        selected == Slice(Distinct(ListReorderProductRows(d, rows, most, 4 * most)), 0, most)
        options  == UNION {ToSet(l.entry.options) : l \in ToSet(selected)}
    IN  [n \in DOMAIN selected |->
            LET l == selected[n] IN
            [store     |-> l.store,
             entry     |-> l.entry,
             available |-> InStock(d, l.store, l.entry.item),
             price     |-> d.price[<<l.entry.item, Zone(l.store)>>],
             options   |-> [o \in ToSet(l.entry.options) |->
                               ReorderOption(GetOptionPrices(d, l.store, options), o)]]]

-----------------------------------------------------------------------------
Next ==
    \/ Edit /\ MayChange /\ UNCHANGED <<orders, checkout>>
    \/ \E c \in Carts : BeginCheckout(c)
    \/ ReadItems
    \/ PlaceOrder
    \/ \E n \in DOMAIN orders : Release(n)

Spec == Init /\ [][Next]_vars

-----------------------------------------------------------------------------
(* Properties *)

\* What Checkout charges for a cart if nothing changes meanwhile; None if it refuses.
Charged(d, cart) ==
    LET priced == GetPricedItems(d, cart.store, ItemIDs(cart.items))
        prices == GetOptionPrices(d, cart.store, OptionIDs(cart.items))
    IN  IF /\ GetStore(d, cart.store) /\ cart.store \in d.open
           /\ DOMAIN priced = ItemIDs(cart.items) /\ DOMAIN prices = OptionIDs(cart.items)
           /\ \A e \in ToSet(cart.items) : ValidCustomizations(e)
        THEN CartTotal(cart.items, priced, prices) ELSE None

\* The same as far as a view of its lines tells: they are all available, with all
\* their options, and add up to that.  The store is open, the selection complete.
Promised(d, cart, views) ==
    LET Adjust(v) == [o \in DOMAIN v.options |-> v.options[o].adjustment]
        Offered(e, v) == /\ v # None /\ v.available
                         /\ \A o \in ToSet(e.options) : o \in DOMAIN v.options /\ v.options[o].available
    IN  IF /\ cart.store \in d.stores \cap d.open
           /\ \A n \in DOMAIN cart.items :
                 Offered(cart.items[n], views[n]) /\ ValidCustomizations(cart.items[n])
        THEN Sum([n \in DOMAIN views |-> LineTotal(cart.items[n], views[n].price, Adjust(views[n]))])
        ELSE None

\* Menu, category page, item page and availability check, each with its own query,
\* tell the same of every item, whether the request names the store or not; and
\* whoever follows the pages of the store list finds the stores that take orders.
\* An item that another brand's category holds is not on the menu, which lists the
\* store's brand's categories, although the three others show it.
AvailabilityAgrees ==
    /\ \A s \in Stores : GetStore(db, s)
          <=> \E p \in Stores : s \in ToSet(ListStores(db, TRUE, p, 1).items)
    /\ \A p \in Stores : ListStores(db, TRUE, p, 1).more <=> ListStores(db, TRUE, p + 1, 1).items # <<>>
    /\ \A s \in Stores \cup {None} :
          LET menu == ListCategories(db, s, None)
              page == [c \in DOMAIN Category |-> ListCategoryItems(db, s, None, c)]
          IN  \A i \in Items :
                 LET c     == Item[i].category
                     item  == GetItem(db, s, i)
                     check == GetItemAvailability(db, s, i)
                 IN  IF item = None
                     THEN /\ menu # None => c \notin DOMAIN menu \/ i \notin DOMAIN menu[c]
                          /\ page[c] # None => i \notin DOMAIN page[c]
                          /\ check # None => ~check.available
                     ELSE /\ IF Category[c] = Item[i].brand
                             THEN c \in DOMAIN menu /\ i \in DOMAIN menu[c] /\ menu[c][i] = item
                             ELSE c \notin DOMAIN menu
                          /\ i \in DOMAIN page[c] /\ page[c][i] = item
                          /\ check.available = item.available
                          /\ check.options = [o \in DOMAIN item.options |-> item.options[o].available]

\* What item pages and the cart show as available is what checkout sells, and for
\* that price.  Of the item pages this is so as long as categories are active and
\* add-ons of the store's brand, of the cart as long as its items are products
\* with a price in the store's zone: the exceptions are in the README.
OffersAreHonoured ==
    \A c \in Carts :
        LET pages == [n \in DOMAIN c.items |-> GetItem(db, c.store, c.items[n].item)]
            Own(o) == Option[o].link # None => Item[Option[o].link].brand = Store[c.store].brand
            Usual  == /\ \A i \in ItemIDs(c.items) : Item[i].category \in db.categories
                      /\ \A o \in OptionIDs(c.items) : Own(o)
            Sound  == \A i \in ItemIDs(c.items) : Item[i].kind = "MAIN" /\ Priced(db, c.store, i)
        IN  /\ Usual => Promised(db, c, pages) = Charged(db, c)
            /\ Sound => Promised(db, c, GetCart(db, c.store, c.items)) = Charged(db, c)

\* What is offered for ordering again can be had, for that price, at the store of
\* the newest order it comes from, if that one is open.
ReordersAreHonoured ==
    \A l \in 1..2 : LET again == ListReorderItems(db, orders, l) IN
        \A n \in DOMAIN again :
            LET cart == [store |-> again[n].store, items |-> <<again[n].entry>>]
            IN  Promised(db, cart, <<again[n]>>) = Charged(db, cart)

\* A page of orders, of whatever stores and with or without a filter, is put together
\* from today's prices; yet each order on it looks as it does alone, and adds up to the
\* subtotal that was charged, unless the menu was edited during or after its checkout.
PagesAddUp ==
    \A statuses \in {{}, {"READY_TO_COLLECT"}}, l \in 1..2, p \in 1..2 :
        LET list == ListOrders(db, orders, statuses, p, l)
            Shown(n) == Sum([k \in DOMAIN list.views[n] |->
                                LineTotal(list.rows[n].items[k], list.views[n][k].price,
                                          list.views[n][k].options)])
        IN  IF list.views = None
            THEN \E r \in ToSet(list.rows) : GetStatus(db, r) = None
            ELSE /\ Len(list.views) = Len(list.rows)
                 /\ \A n \in DOMAIN list.rows :
                       /\ GetStatus(db, list.rows[n]) = <<list.views[n]>>
                       /\ list.rows[n].began = edits => Shown(n) = list.rows[n].subtotal
===============================================================================
