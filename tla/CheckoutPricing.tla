---------------------------- MODULE CheckoutPricing ----------------------------
(***************************************************************************)
(* What an order costs (backend/internal/checkout/service.go): Checkout's  *)
(* pricing of the cart, calculateVoucherStack, calculateCharges and        *)
(* calculateItemTotals, and the checked arithmetic below them.             *)
(*                                                                         *)
(* A pricing has no steps of its own: one action answers one request.      *)
(* Amounts are cents, rates are basis points.  Voucher codes are numbered  *)
(* in alphabetical order.  A voucher's brand, category and item scopes are *)
(* the set of items they leave; the rules that do not look at the cart     *)
(* (dates, store, zone, wallet status, limits, new users) are its field    *)
(* usable; methods are the payment methods it is for, if it is for some    *)
(* only.  An item has base, inclusive, promo; an option adjustment,        *)
(* inclusive.                                                              *)
(***************************************************************************)
EXTENDS Customizations

CONSTANTS
    Voucher,   \* code -> percent, value, cap, minSpend, items, promo, group,
               \*         priority, exclusive, combinable, methods, usable
    Methods,   \* the payment methods in service
    Requests,  \* records with what = "order", "preview" or "arithmetic"
    MaxInt, MaxQuantity

\* None is what is not on the menu.
EntryType ==
    [item : DOMAIN Item \cup {None}, options : Seq(DOMAIN Option \cup {None}), quantity : Int]

ChargeType ==
    [amount : Int, taxable : BOOLEAN, inclusive : BOOLEAN, waiver : Int \cup {None}]

RequestType ==
    [what : {"order", "preview"}, items : Seq(EntryType), codes : Seq(Nat),
     method : Methods \cup {None}, rate : Nat, charges : Seq(ChargeType)]

AppliedType == [code : Nat, eligible : Int, amount : Int]

OrderType ==
    [subtotal : Int, applied : Seq(AppliedType), discount : Int, charged : Int,
     tax : Int, total : Int]

ASSUME PricingAssumption ==
    /\ None \notin Methods \cup Int \cup Seq(AppliedType) \cup OrderType
    /\ MaxInt \in Nat /\ MaxQuantity \in Nat \ {0}
    /\ \A i \in DOMAIN Item : Item[i].base \in Nat /\ Item[i].inclusive \in BOOLEAN
    /\ \A o \in DOMAIN Option : Option[o].adjustment \in Nat /\ Option[o].inclusive \in BOOLEAN
    /\ \A c \in DOMAIN Voucher :
          /\ c \in Nat /\ Voucher[c].priority \in Int /\ Voucher[c].minSpend \in Int
          /\ Voucher[c].value \in Nat \ {0} /\ Voucher[c].cap \in Nat \cup {None}
    /\ \A r \in Requests :
          \/ r \in RequestType
          \/ /\ r \in [what : {"arithmetic"}, a : Int, b : Int, max : Nat]
             /\ {r.a, r.b} \subseteq (-r.max - 1)..r.max

VARIABLES request, outcome

pricingVars == <<request, outcome>>

-----------------------------------------------------------------------------
(* Arithmetic *)

\* Go's division truncates.
Quotient(a, b) ==
    LET Abs(n) == IF n < 0 THEN -n ELSE n
        q == Abs(a) \div Abs(b)
    IN  IF (a < 0) = (b < 0) THEN q ELSE -q

\* None is Go's second result false, which every caller passes on.
SafeAdd(a, b, max) ==
    LET min == -max - 1 IN
    IF \/ None \in {a, b}
       \/ b > 0 /\ a > max - b
       \/ b < 0 /\ a < min - b
    THEN None ELSE a + b

\* Slip: the case of two negative numbers is forgotten.
SafeMulPositive(a, b, max) ==
    IF \/ None \in {a, b}
       \/ a > 0 /\ b > 0 /\ a > Quotient(max, b)
       \/ a > 0 /\ b < 0 /\ b < Quotient(-max - 1, a)
       \/ a < 0 /\ b > 0 /\ a < Quotient(-max - 1, b)
    THEN None ELSE a * b

SafeMul(a, b, max) ==
    LET min == -max - 1 IN
    IF \/ None \in {a, b}
       \/ a > 0 /\ b > 0 /\ a > Quotient(max, b)
       \/ a > 0 /\ b < 0 /\ b < Quotient(min, a)
       \/ a < 0 /\ b > 0 /\ a < Quotient(min, b)
       \/ a < 0 /\ b < 0 /\ a < Quotient(max, b)
    THEN None ELSE a * b

\* Rounds half up.  The product is not checked: no cart comes near its width.
ProrateAmount(amount, numerator, denominator) ==
    IF amount <= 0 \/ numerator <= 0 \/ denominator <= 0 THEN 0
    ELSE (amount * numerator + denominator \div 2) \div denominator

TaxFromNet(amount, rate) ==
    IF amount <= 0 \/ rate <= 0 THEN 0 ELSE (amount * rate + 5000) \div 10000

NetFromTaxInclusive(gross, rate) ==
    IF gross <= 0 \/ rate <= 0 THEN gross
    ELSE (gross * 10000 + (10000 + rate) \div 2) \div (10000 + rate)

Total(amounts) == FoldLeft(+, 0, amounts)

SafeTotal(first, amounts) == FoldLeft(LAMBDA sum, x : SafeAdd(sum, x, MaxInt), first, amounts)

-----------------------------------------------------------------------------
(* The cart *)

\* The entry's share of the kinds of prices, with and without tax.
EntryTotal(entry, kinds) ==
    LET Share(row, amount) == IF row.inclusive \in kinds THEN amount ELSE 0
        base == Share(Item[entry.item], Item[entry.item].base)
        adjustments == [n \in DOMAIN entry.options |->
                           Share(Option[entry.options[n]], Option[entry.options[n]].adjustment)]
    IN  SafeMul(SafeTotal(base, adjustments), entry.quantity, MaxInt)

Line(entry) ==
    [item      |-> entry.item,
     subtotal  |-> EntryTotal(entry, BOOLEAN),
     inclusive |-> EntryTotal(entry, {TRUE}),
     exclusive |-> EntryTotal(entry, {FALSE})]

Lines(items) == [i \in DOMAIN items |-> Line(items[i])]

Subtotal(lines) == SafeTotal(0, [i \in DOMAIN lines |-> lines[i].subtotal])

ValidCart(items) ==
    /\ items # <<>>
    /\ \A i \in DOMAIN items :
          /\ items[i].item \in DOMAIN Item
          /\ items[i].quantity \in 1..MaxQuantity
          /\ ToSet(items[i].options) \subseteq DOMAIN Option
          /\ ValidCustomizations(items[i])
    /\ None \notin {Subtotal(Lines(items))} \cup
                   UNION {{l.inclusive, l.exclusive} : l \in ToSet(Lines(items))}

-----------------------------------------------------------------------------
(* Vouchers *)

NormalizeVoucherCodes(codes) ==
    FoldLeft(LAMBDA seen, c : IF c \in ToSet(seen) THEN seen ELSE Append(seen, c), <<>>, codes)

EligibleSubtotal(v, lines) ==
    LET Applies(l) == l.item \in v.items /\ (v.promo \/ ~Item[l.item].promo)
    IN  Total([i \in DOMAIN lines |-> IF Applies(lines[i]) THEN lines[i].subtotal ELSE 0])

\* A request that names no payment method is not asked for one here.
Accepts(v, method) == v.methods # {} /\ method # None => method \in v.methods

Eligible(v, lines, method) ==
    /\ EligibleSubtotal(v, lines) > 0
    /\ EligibleSubtotal(v, lines) >= v.minSpend
    /\ v.usable /\ Accepts(v, method)

\* validateVoucherStackPolicy
StackPolicy(vs) ==
    Len(vs) > 1 =>
        /\ \A i \in DOMAIN vs : ~vs[i].exclusive
        /\ \A i \in DOMAIN vs : \A j \in 1..(i - 1) :
              vs[i].group = vs[j].group => vs[i].group \in vs[i].combinable \cap vs[j].combinable
        /\ \A i \in DOMAIN vs : \A j \in DOMAIN vs \ {i} :
              vs[i].combinable # {} => vs[j].group \in vs[i].combinable

VoucherDiscount(v, base) ==
    LET percentage == (base * v.value + 50) \div 100
        capped == IF v.cap = None THEN percentage ELSE Min({percentage, v.cap})
    IN  IF base <= 0 THEN 0 ELSE Min({IF v.percent THEN capped ELSE v.value, base})

\* Slip: vouchers are applied in the order of the request.
UnsortedCodes(codes) == codes

\* By priority, then by code.
SortedCodes(codes) ==
    LET Before(c, d) == \/ Voucher[c].priority < Voucher[d].priority
                        \/ Voucher[c].priority = Voucher[d].priority /\ c < d
    IN  CHOOSE s \in SetToSeqs(ToSet(codes)) :
            \A i, j \in DOMAIN s : i < j => Before(s[i], s[j])

\* Slip: a voucher is applied to all that remains, whatever it is eligible for.
RemainingBase(eligible, remaining, subtotal) == remaining

DiscountBase(eligible, remaining, subtotal) == ProrateAmount(eligible, remaining, subtotal)

TakesSomething(amount) == amount > 0

\* Slip: each voucher's discount replaces the one before.
LastDiscount(applied) == IF applied = <<>> THEN 0 ELSE Last(applied).amount

TotalDiscount(applied) == Total([i \in DOMAIN applied |-> applied[i].amount])

\* One round of the loop of calculateVoucherStack; it stops when nothing remains,
\* and the vouchers left are not applied.
ApplyVoucher(applied, c, lines, subtotal) ==
    LET eligible  == EligibleSubtotal(Voucher[c], lines)
        remaining == subtotal - TotalDiscount(applied)
        base      == DiscountBase(eligible, remaining, subtotal)
        amount    == Min({VoucherDiscount(Voucher[c], base), base})
    IN  IF subtotal <= 0 \/ eligible <= 0 THEN None
        ELSE IF remaining <= 0 THEN applied
        ELSE IF ~TakesSomething(amount) THEN None
        ELSE Append(applied, [code |-> c, eligible |-> eligible,
                              amount |-> Min({amount, remaining})])

ApplyVouchers(codes, lines, subtotal) ==
    FoldLeft(LAMBDA applied, c : IF applied = None THEN None
                                 ELSE ApplyVoucher(applied, c, lines, subtotal),
             <<>>, codes)

VoucherStack(codes, lines, method) ==
    LET wanted == NormalizeVoucherCodes(codes)
    IN  IF /\ ToSet(wanted) \subseteq DOMAIN Voucher
           /\ \A c \in ToSet(wanted) : Eligible(Voucher[c], lines, method)
           /\ StackPolicy([i \in DOMAIN wanted |-> Voucher[wanted[i]]])
        THEN ApplyVouchers(SortedCodes(wanted), lines, Subtotal(lines))
        ELSE None

-----------------------------------------------------------------------------
(* Charges and totals *)

NoCharge == [tax |-> 0, total |-> 0]

ChargeLine(d, subtotal, rate) ==
    LET tax == IF d.inclusive THEN d.amount - NetFromTaxInclusive(d.amount, rate)
                              ELSE TaxFromNet(d.amount, rate)
        waived == d.waiver # None /\ subtotal >= d.waiver
    IN  IF d.amount <= 0 \/ waived THEN NoCharge
        ELSE IF ~d.taxable THEN [tax |-> 0, total |-> d.amount]
        ELSE [tax |-> tax, total |-> d.amount + IF d.inclusive THEN 0 ELSE tax]

Inclusive(lines) == Total([i \in DOMAIN lines |-> lines[i].inclusive])
Exclusive(lines) == Total([i \in DOMAIN lines |-> lines[i].exclusive])

\* Slip: the discount is taken off the prices without tax alone.
ItemTotalsOffNet(lines, discount, rate) ==
    LET gross == Inclusive(lines)
        net   == Max({Exclusive(lines) - discount, 0})
        tax   == TaxFromNet(net, rate)
    IN  [tax |-> gross - NetFromTaxInclusive(gross, rate) + tax, total |-> gross + net + tax]

ItemTotals(lines, discount, rate) ==
    LET subtotal   == Subtotal(lines)
        discounted == Max({subtotal - discount, 0})
        gross      == ProrateAmount(Inclusive(lines), discounted, subtotal)
        net        == Max({discounted - gross, 0})
        tax        == TaxFromNet(net, rate)
    IN  IF subtotal <= 0 THEN NoCharge
        ELSE [tax |-> gross - NetFromTaxInclusive(gross, rate) + tax, total |-> gross + net + tax]

\* Without a payment method there is no order: ValidateMethod finds none.
Order(r) ==
    LET lines    == Lines(r.items)
        applied  == VoucherStack(r.codes, lines, r.method)
        discount == TotalDiscount(applied)
        charges  == [i \in DOMAIN r.charges |-> ChargeLine(r.charges[i], Subtotal(lines), r.rate)]
        totals   == Append(charges, ItemTotals(lines, discount, r.rate))
    IN  IF ~ValidCart(r.items) \/ applied = None \/ r.method = None THEN None
        ELSE [subtotal |-> Subtotal(lines), applied |-> applied, discount |-> discount,
              charged  |-> Total([i \in DOMAIN charges |-> charges[i].total]),
              tax      |-> Total([i \in DOMAIN totals |-> totals[i].tax]),
              total    |-> Total([i \in DOMAIN totals |-> totals[i].total])]

-----------------------------------------------------------------------------
(* The preview of a voucher in the cart, ValidateVoucher *)

\* Slip: the options are left out.
PreviewBaseLine(entry) ==
    [item |-> entry.item, subtotal |-> Item[entry.item].base * entry.quantity]

\* A second pricing of the cart, with arithmetic that is not checked.
PreviewLine(entry) ==
    [item     |-> entry.item,
     subtotal |-> (Item[entry.item].base + Total([n \in DOMAIN entry.options |->
                                                     Option[entry.options[n]].adjustment]))
                      * entry.quantity]

\* Neither the customization rules nor MaxQuantity are looked at.
PreviewableCart(items) ==
    /\ items # <<>>
    /\ \A i \in DOMAIN items :
          /\ items[i].item \in DOMAIN Item
          /\ items[i].quantity > 0
          /\ \A o \in ToSet(items[i].options) : o \in DOMAIN Option /\ Option[o].item = items[i].item

ValidateVoucher(r) ==
    LET lines   == [i \in DOMAIN r.items |-> PreviewLine(r.items[i])]
        applied == VoucherStack(r.codes, lines, r.method)
    IN  IF NormalizeVoucherCodes(r.codes) = <<>> \/ ~PreviewableCart(r.items) THEN None
        ELSE [valid    |-> applied # None,
              vouchers |-> IF applied = None THEN <<>> ELSE applied,
              discount |-> IF applied = None THEN 0 ELSE TotalDiscount(applied)]

Arithmetic(r) == [sum |-> SafeAdd(r.a, r.b, r.max), product |-> SafeMul(r.a, r.b, r.max)]

-----------------------------------------------------------------------------
(* Specification *)

Reply(r) ==
    CASE r.what = "order"      -> Order(r)
      [] r.what = "preview"    -> ValidateVoucher(r)
      [] r.what = "arithmetic" -> Arithmetic(r)

\* A request whose outcome is <<>> has not been answered.
PricingInit == request \in Requests /\ outcome = <<>>

Answer == /\ outcome = <<>>
          /\ outcome' = <<Reply(request)>>
          /\ UNCHANGED request

PricingSpec == PricingInit /\ [][Answer]_pricingVars

Ordered == request.what = "order" /\ outcome \notin {<<>>, <<None>>}

\* The answer; of an order, if it was accepted.
order == outcome[1]

TypeOK ==
    Ordered => /\ \A f \in {"subtotal", "discount", "charged", "tax", "total"} : order[f] \in Nat
               /\ ToSet(order.applied) \subseteq
                     [code : ToSet(request.codes), eligible : Nat \ {0}, amount : Nat \ {0}]

-----------------------------------------------------------------------------
(* Properties *)

\* The order in which the client names the vouchers decides nothing: neither
\* whether the stack is accepted nor what each voucher takes off.
CodesInAnyOrder ==
    request.what = "order" /\ outcome # <<>> =>
        \A p \in SetToSeqs(DOMAIN request.codes) :
            Order([request EXCEPT !.codes = [i \in DOMAIN p |-> request.codes[p[i]]]]) = order

\* Leaving a voucher out of an accepted order never makes it cheaper: no voucher
\* works against another, rounding and caps included.  (It may have the order
\* refused, when a voucher that found nothing left then takes off nothing.)
FewerVouchersNeverCheaper ==
    Ordered => \A c \in ToSet(request.codes) :
        \A codes \in SetToSeqs(ToSet(request.codes) \ {c}) :
            LET fewer == Order([request EXCEPT !.codes = codes])
            IN  fewer # None => fewer.total >= order.total

\* A stack takes off no more than the subtotal, and no voucher more than what it
\* is eligible for.  (And TypeOK.)
DiscountsWithinSubtotal ==
    Ordered => /\ TypeOK /\ order.discount <= order.subtotal
               /\ \A a \in ToSet(order.applied) : a.amount <= a.eligible

\* However the discount falls on prices with and without tax, the total is within
\* a cent of the exact one: what is left of the subtotal, the tax on its share of
\* prices without tax, and the charges.  (Scaled by 10000 times the subtotal.)
WithinACent ==
    Ordered =>
        LET net   == Exclusive(Lines(request.items))
            left  == order.subtotal - order.discount
            exact == left * (10000 * order.subtotal + net * request.rate)
            off   == (order.total - order.charged) * 10000 * order.subtotal - exact
        IN  off \in (-10000 * order.subtotal)..(10000 * order.subtotal)

\* What the cart page says of the vouchers is what the order gets: whatever can be
\* ordered was shown as valid with the same stack and the same discount, and what was
\* shown as valid can be ordered, unless the page named no payment method yet and a
\* voucher is not for the one that the order names.
PreviewIsHonoured ==
    request.what = "preview" /\ outcome # <<>> /\ request.codes # <<>> /\ ValidCart(request.items) =>
        \A method \in Methods : request.method \in {method, None} =>
            LET placed == Order([request EXCEPT !.method = method])
            IN  IF placed = None
                THEN order.valid => /\ request.method = None
                                    /\ \E c \in ToSet(request.codes) : ~Accepts(Voucher[c], method)
                ELSE /\ order.valid
                     /\ order.vouchers = placed.applied /\ order.discount = placed.discount

\* SafeAdd and SafeMul give the exact result, or none if it has no place.
ArithmeticExact ==
    request.what = "arithmetic" /\ outcome # <<>> =>
        LET Place(n) == IF n \in (-request.max - 1)..request.max THEN n ELSE None
        IN  /\ order.sum = Place(request.a + request.b)
            /\ order.product = Place(request.a * request.b)
================================================================================
