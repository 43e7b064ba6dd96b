--------------------------------- MODULE Menu ---------------------------------
(***************************************************************************)
(* The menu in the database and every query that reads it: the catalog     *)
(* (backend/internal/catalog), the cart (backend/internal/cart) and        *)
(* checkout (backend/internal/checkout) each have their own SQL, with      *)
(* conditions of their own.                                                *)
(*                                                                         *)
(* A row the queries COALESCE away and a row that is there with the        *)
(* default are the same; an item is in db.items if it is active and not    *)
(* deleted.  Names, pictures and display order are left out, and so is the *)
(* country of a store: there is one.  An item has a kind, a brand and a    *)
(* category, which may be another brand's (menu_items.brand_id is a column *)
(* of its own), an option a linked item and an adjustment of the price.    *)
(***************************************************************************)
EXTENDS Customizations

CONSTANTS
    Store,     \* 1..n -> zone, brand
    Category,  \* category -> brand
    Amounts,   \* the prices an item may be given
    MaxEdits   \* bound: edits of the menu

Stores == DOMAIN Store
Items == DOMAIN Item
Zones == {Store[s].zone : s \in Stores}
Kinds == {"MAIN", "ADDON"}

MenuType ==
    [stores : SUBSET Stores, open : SUBSET Stores, categories : SUBSET DOMAIN Category,
     items : SUBSET Items, unlisted : SUBSET (Stores \X Items), soldOut : SUBSET (Stores \X Items),
     price : [Items \X Zones -> Nat \cup {None}]]

\* What is shown of an item and of its options.
OptionViews == UNION {[S -> [available : BOOLEAN, adjustment : Int]] : S \in SUBSET DOMAIN Option}
ItemView == [available : BOOLEAN, price : Nat, options : OptionViews]

ASSUME MenuAssumption ==
    /\ Len(Store) \in Nat /\ Stores = 1..Len(Store)
    /\ \A i \in Items : Item[i].kind \in Kinds /\ Item[i].category \in DOMAIN Category
    /\ \A o \in DOMAIN Option :
          /\ Option[o].group \in DOMAIN Group /\ Option[o].item = Group[Option[o].group].item
          /\ Option[o].link \in Items \cup {None} /\ Option[o].adjustment \in Int
    /\ Amounts \subseteq Nat
    /\ None \notin Int \cup ItemView

VARIABLES
    db,     \* stores, categories, items: the active ones; open: the stores that are;
            \* unlisted, soldOut: pairs of store_menu_item_status; price: per item and zone
    edits   \* how often the menu was edited

-----------------------------------------------------------------------------
(* Edits, which nothing in the repository makes: the back office is elsewhere. *)

Flags ==
    [stores |-> Stores, open |-> Stores, categories |-> DOMAIN Category, items |-> Items,
     unlisted |-> Stores \X Items, soldOut |-> Stores \X Items]

Edit ==
    /\ edits < MaxEdits /\ edits' = edits + 1
    /\ \/ \E f \in DOMAIN Flags : \E x \in Flags[f] :
             db' = [db EXCEPT ![f] = SymDiff(@, {x})]
       \/ \E i \in Items, z \in Zones, amount \in Amounts \cup {None} :
             amount # db.price[<<i, z>>] /\ db' = [db EXCEPT !.price[<<i, z>>] = amount]

-----------------------------------------------------------------------------
(* Rows and joins *)

Zone(s) == Store[s].zone
Listed(d, s, i) == <<s, i>> \notin d.unlisted
InStock(d, s, i) == <<s, i>> \notin d.soldOut
Priced(d, s, i) == d.price[<<i, Zone(s)>>] # None
Coalesce(value, default) == IF value = None THEN default ELSE value

\* price_adjustment + COALESCE(base_price of the linked item in the zone, 0)
Adjustment(d, s, o) ==
    LET link == Option[o].link
    IN  Option[o].adjustment + IF link = None THEN 0 ELSE Coalesce(d.price[<<link, Zone(s)>>], 0)

-----------------------------------------------------------------------------
(* Lists come in pages; one row more is read, to tell whether there is more. *)

\* A request without a limit, or with a nonsensical one, gets the usual one.
NormalizeLimit(limit, usual, most) ==
    CASE limit < 1 -> usual
      [] limit > most -> most
      [] OTHER -> limit

NormalizePage(page) == IF page < 1 THEN 1 ELSE page

\* ORDER BY id
ById(ids) == CHOOSE s \in SetToSeqs(ids) : \A i, j \in DOMAIN s : i < j => s[i] < s[j]

\* WHERE, which keeps the order of the rows
Where(rows, matching) ==
    FoldLeft(LAMBDA kept, row : IF row \in matching THEN Append(kept, row) ELSE kept, <<>>, rows)

\* LIMIT n OFFSET offset
Slice(rows, offset, n) ==
    SubSeq(rows, offset + 1, IF offset + n < Len(rows) THEN offset + n ELSE Len(rows))

Page(rows, page, limit) ==
    LET read == Slice(rows, (page - 1) * limit, limit + 1)
    IN  [items |-> Slice(read, 0, limit), more |-> Len(read) > limit]

-----------------------------------------------------------------------------
(* The catalog *)

\* None is ErrNotFound; a request that names no store gets the first active one.
ResolveStoreContext(d, s) ==
    CASE s = None /\ d.stores # {} -> Min(d.stores)
      [] s \in d.stores -> s
      [] OTHER -> None

ListCategoryRows(d, brand) == {c \in d.categories : Category[c] = brand}

ListProducts(d, s, brand) ==
    {i \in d.items : /\ Item[i].kind = "MAIN"
                     /\ Item[i].category \in d.categories
                     /\ Item[i].brand = brand
                     /\ Priced(d, s, i) /\ Listed(d, s, i)}

\* Slip: the item page forgets that a store may not list the item.
GetProductUnlisted(d, s, brand, i) ==
    /\ i \in d.items /\ Item[i].kind = "MAIN" /\ Item[i].brand = brand
    /\ Item[i].category \in d.categories
    /\ Priced(d, s, i)

GetProductByID(d, s, brand, i) ==
    /\ i \in d.items /\ Item[i].kind = "MAIN" /\ Item[i].brand = brand
    /\ Item[i].category \in d.categories
    /\ Priced(d, s, i) /\ Listed(d, s, i)

ListCustomizationGroups(items) == {g \in DOMAIN Group : Group[g].item \in items}

\* An add-on of another brand counts here, although it does not at checkout.
ListCustomizationOptions(d, s, groups) ==
    LET Shown(link) == link \in d.items /\ Item[link].kind = "ADDON" /\ Listed(d, s, link)
        shown == {o \in DOMAIN Option : /\ Option[o].group \in groups
                                        /\ Option[o].link = None \/ Shown(Option[o].link)}
    IN  [o \in shown |->
            [available  |-> Option[o].link = None \/ InStock(d, s, Option[o].link),
             adjustment |-> Adjustment(d, s, o)]]

buildProduct(d, s, i, options) ==
    LET own == {o \in DOMAIN options : Group[Option[o].group].item = i}
    IN  [available |-> InStock(d, s, i),
         price     |-> d.price[<<i, Zone(s)>>],
         options   |-> [o \in own |-> options[o]]]

buildProducts(d, s, products) ==
    LET options == ListCustomizationOptions(d, s, ListCustomizationGroups(products))
    IN  [i \in products |-> buildProduct(d, s, i, options)]

\* The brand of a request is the store's unless it names one.
ListCategories(d, store, brand) ==
    LET s == ResolveStoreContext(d, store)
        b == Coalesce(brand, Store[s].brand)
        products == buildProducts(d, s, ListProducts(d, s, b))
        Of(c) == {i \in DOMAIN products : Item[i].category = c}
    IN  IF s = None THEN None
        ELSE [c \in {c \in ListCategoryRows(d, b) : Of(c) # {}} |-> Restrict(products, Of(c))]

ListCategoryItems(d, store, brand, c) ==
    LET s == ResolveStoreContext(d, store)
        b == Coalesce(brand, Store[s].brand)
    IN  IF s = None THEN None
        ELSE buildProducts(d, s, {i \in ListProducts(d, s, b) : Item[i].category = c})

GetItem(d, store, i) ==
    LET s == ResolveStoreContext(d, store)
    IN  IF s = None \/ ~GetProductByID(d, s, Store[s].brand, i) THEN None
        ELSE buildProducts(d, s, {i})[i]

\* An item that is not found is merely unavailable.
GetItemAvailability(d, store, i) ==
    LET s == ResolveStoreContext(d, store)
        options == ListCustomizationOptions(d, s, ListCustomizationGroups({i}))
    IN  CASE s = None -> None
          [] s # None /\ ~GetProductByID(d, s, Store[s].brand, i) ->
                [available |-> FALSE, options |-> <<>>]
          [] OTHER ->
                [available |-> InStock(d, s, i),
                 options   |-> [o \in DOMAIN options |-> options[o].available]]

ListStores(d, activeOnly, page, limit) ==
    LET rows == ById(IF activeOnly THEN d.stores ELSE Stores)
    IN  Page(rows, NormalizePage(page), NormalizeLimit(limit, 50, 100))

-----------------------------------------------------------------------------
(* Checkout and the cart *)

GetStore(d, s) == s \in d.stores

\* The item's category need not be active.
GetPricedItems(d, s, items) ==
    [i \in {i \in items : /\ i \in d.items /\ Item[i].kind = "MAIN"
                          /\ Item[i].brand = Store[s].brand
                          /\ Listed(d, s, i) /\ InStock(d, s, i) /\ Priced(d, s, i)}
        |-> d.price[<<i, Zone(s)>>]]

GetOptionPrices(d, s, options) ==
    LET Sold(link) == /\ link \in d.items /\ Item[link].kind = "ADDON"
                      /\ Item[link].brand = Store[s].brand
                      /\ Listed(d, s, link) /\ InStock(d, s, link)
    IN  [o \in {o \in options : Option[o].link = None \/ Sold(Option[o].link)}
            |-> Adjustment(d, s, o)]

getSelectedOptions(d, s, options) ==
    LET Sold(link) == /\ link \in d.items /\ Item[link].kind = "ADDON"
                      /\ Item[link].brand = Store[s].brand
                      /\ Listed(d, s, link) /\ InStock(d, s, link)
    IN  [o \in options |->
            [available  |-> Option[o].link = None \/ Sold(Option[o].link),
             adjustment |-> Adjustment(d, s, o)]]

\* Slip: only whether the item is sold out is asked.
CartLineInStock(d, s, entry) ==
    [available |-> InStock(d, s, entry.item),
     price     |-> Coalesce(d.price[<<entry.item, Zone(s)>>], 0),
     options   |-> getSelectedOptions(d, s, ToSet(entry.options))]

\* A line of GetCart, for the row's own store or the one the request names.
\* Neither the kind of the item nor whether it has a price is asked.
CartLine(d, s, entry) ==
    [available |-> /\ entry.item \in d.items
                   /\ Item[entry.item].brand = Store[s].brand
                   /\ Listed(d, s, entry.item) /\ InStock(d, s, entry.item),
     price     |-> Coalesce(d.price[<<entry.item, Zone(s)>>], 0),
     options   |-> getSelectedOptions(d, s, ToSet(entry.options))]

GetCart(d, s, entries) == [n \in DOMAIN entries |-> CartLine(d, s, entries[n])]
===============================================================================
