---------------------------- MODULE OrderPayments ----------------------------
(***************************************************************************)
(* Checkout, payment callbacks, wallet, loyalty and voucher redemption of  *)
(* the Loob backend: backend/internal/{checkout,payments,vouchers} over    *)
(* the MySQL tables order_intents, payment_transactions, payment_events,   *)
(* wallet_*, loyalty_*, vouchers and user_vouchers.                        *)
(*                                                                         *)
(* One action is one database transaction, or one read the service makes   *)
(* outside a transaction, so that everything two handlers can interleave   *)
(* is interleaved here.  The checkout transaction is two steps, since      *)
(* others may commit between them: it locks the voucher rows of its stack  *)
(* up to the first with a limit and opens its snapshot with the count for  *)
(* that voucher; then it counts the others in that snapshot and commits.   *)
(* VoucherReservation has its single statements.                           *)
(*                                                                         *)
(* A checkout request mints one tracking id and one payment id             *)
(* (platform.NewTrackingID, NewPaymentID); both are named by the request.  *)
(* An error rolls the whole transaction back, which is a stuttering step.  *)
(***************************************************************************)
EXTENDS Integers, Sequences, FiniteSets

CONSTANTS
    Requests,        \* checkout requests, also the ids of the orders they create
    IntentOnly,      \* the requests stored by CreateIntent, without a payment row
    TopUps,          \* wallet top-up requests, also the ids of their payments
    Users,
    Keys,            \* idempotency keys clients choose
    Vouchers,
    Limited,         \* vouchers whose max_redemptions is not NULL
    LimitedPerUser,  \* vouchers whose max_redemptions_per_user is not NULL
    MaxRedemptions,  \* [Vouchers -> Nat], meaningful on Limited
    MaxPerUser,      \* [Vouchers -> Nat], meaningful on LimitedPerUser
    Rank,            \* the order by (stacking_priority, code)
    Cart,            \* Cart[r]: what request r asks for, priced
    TopUp,           \* TopUp[t]: who tops up, and how much
    Events,          \* gateway event ids, the default "txn:status" ids among them
    Callbacks,       \* the reports the gateway may deliver, any number of times
    None             \* SQL NULL

Payments == Requests \cup TopUps

CartType ==
    [user : Users, key : Keys, method : {"EWALLET", "CARD"}, total : Nat,
     vouchers : SUBSET Vouchers]

CallbackType ==
    [txn : Payments, event : Events,
     status : {"CAPTURED", "AUTHORIZED", "FAILED", "CANCELLED"}]

ASSUME ConstantsAssumption ==
    /\ IntentOnly \subseteq Requests
    /\ Requests \cap TopUps = {}
    /\ None \notin Payments
    /\ Limited \subseteq Vouchers
    /\ LimitedPerUser \subseteq Vouchers
    /\ MaxRedemptions \in [Vouchers -> Nat]
    /\ MaxPerUser \in [Vouchers -> Nat]
    /\ Rank \in [Vouchers -> Nat]
    /\ \A v, w \in Vouchers : Rank[v] = Rank[w] => v = w
    /\ Cart \in [Requests -> CartType]
    /\ TopUp \in [TopUps -> [user : Users, amount : Nat \ {0}]]
    /\ Callbacks \subseteq CallbackType

VARIABLES
    pc,           \* where each checkout request is in Service.Checkout
    reply,        \* the order the request answers with, or has just looked up
    seen,         \* the unpaid orders in the snapshot of the request's transaction
    intent,       \* order_intents.status, "NONE" when there is no row
    payment,      \* payment_transactions.status, "NONE" when there is no row
    orderOf,      \* payment_transactions.order_tracking_id
    events,       \* payment_events.gateway_event_id, unique in the table
    wallet,       \* wallet_accounts.balance
    walletRows,   \* wallet_transactions of a user, in insertion order
    points,       \* loyalty_accounts.points
    loyaltyRows,  \* loyalty_transactions of a user, in insertion order
    redeemed,     \* vouchers.redemption_count
    userRedeemed, \* voucher_user_redemption_counters.redemption_count
    assigned      \* user_vouchers.status, "NONE" when there is no row

requestVars == <<pc, reply, seen>>
orderVars == <<intent, payment, orderOf>>
moneyVars == <<wallet, walletRows, points, loyaltyRows>>
voucherVars == <<redeemed, userRedeemed>>
vars == <<requestVars, orderVars, events, moneyVars, voucherVars, assigned>>

OrderStatus ==
    {"NONE", "PAYMENT_PENDING", "READY_TO_COLLECT", "COMPLETED", "PAYMENT_FAILED"}
PaymentStatus ==
    {"NONE", "PENDING", "AUTHORIZED", "CAPTURED", "FAILED", "CANCELLED"}
RowType ==
    [type : {"TOPUP", "SPEND", "EARN"}, payment : Payments, amount : Int,
     balance_after : Nat]

TypeOK ==
    /\ pc \in [Requests -> {"idle", "priced", "counting", "failed", "unpaid", "answered",
                            "rejected"}]
    /\ reply \in [Requests -> Requests \cup {None}]
    /\ seen \in [Requests -> SUBSET Requests]
    /\ intent \in [Requests -> OrderStatus]
    /\ payment \in [Payments -> PaymentStatus]
    /\ orderOf \in [Payments -> Requests \cup {None}]
    /\ events \subseteq Events
    /\ wallet \in [Users -> Nat]
    /\ walletRows \in [Users -> Seq(RowType)]
    /\ points \in [Users -> Nat]
    /\ loyaltyRows \in [Users -> Seq(RowType)]
    /\ redeemed \in [Vouchers -> Nat]
    /\ userRedeemed \in [Vouchers -> [Users -> Nat]]
    /\ assigned \in [Users -> [Vouchers -> {"NONE", "AVAILABLE", "USED"}]]

Init ==
    /\ pc = [r \in Requests |-> "idle"]
    /\ reply = [r \in Requests |-> None]
    /\ seen = [r \in Requests |-> {}]
    /\ intent = [r \in Requests |-> "NONE"]
    /\ payment = [p \in Payments |-> "NONE"]
    /\ orderOf = [p \in Payments |-> None]
    /\ events = {}
    /\ wallet = [u \in Users |-> 0]
    /\ walletRows = [u \in Users |-> <<>>]
    /\ points = [u \in Users |-> 0]
    /\ loyaltyRows = [u \in Users |-> <<>>]
    /\ redeemed = [v \in Vouchers |-> 0]
    /\ userRedeemed = [v \in Vouchers |-> [u \in Users |-> 0]]
    /\ assigned = [u \in Users |-> [v \in Vouchers |-> "NONE"]]

-----------------------------------------------------------------------------
(* Checkout *)

FindIntentByIdempotency(r) ==
    {o \in Requests : /\ intent[o] # "NONE"
                      /\ Cart[o].user = Cart[r].user
                      /\ Cart[o].key = Cart[r].key}

PaymentsOfOrder(o) == {p \in Requests : payment[p] # "NONE" /\ orderOf[p] = o}

Unpaid == {o \in Requests : intent[o] = "PAYMENT_PENDING"}

Using(v, orders) == {o \in orders : v \in Cart[o].vouchers}

\* Unpaid orders that use voucher v hold one of its redemptions each.
PendingOrders(v) == Using(v, Unpaid)

\* The test GetVoucher/validateVoucherEligibility make of a voucher with the orders
\* that are unpaid, and enforceVoucherRedemptionLimits with those its snapshot shows.
WithinLimits(v, u, pending) ==
    /\ v \in Limited =>
         redeemed[v] + Cardinality(Using(v, pending)) < MaxRedemptions[v]
    /\ v \in LimitedPerUser =>
         userRedeemed[v][u]
           + Cardinality({o \in Using(v, pending) : Cart[o].user = u}) < MaxPerUser[v]

VoucherEligible(v, u) == assigned[u][v] # "USED" /\ WithinLimits(v, u, Unpaid)

\* Answer request r with the order already stored under its key, or go on to
\* createMissingPayment when that order has no payment.
AnswerWithExisting(r) ==
    \E o \in FindIntentByIdempotency(r) :
        /\ reply' = [reply EXCEPT ![r] = o]
        /\ pc' = [pc EXCEPT ![r] = IF PaymentsOfOrder(o) = {} THEN "unpaid" ELSE "answered"]

Begin(r) ==
    /\ pc[r] = "idle"
    /\ \/ AnswerWithExisting(r)
       \/ /\ FindIntentByIdempotency(r) = {}
          /\ pc' = [pc EXCEPT ![r] =
                IF \A v \in Cart[r].vouchers : VoucherEligible(v, Cart[r].user)
                THEN "priced" ELSE "rejected"]
          /\ UNCHANGED reply
    /\ UNCHANGED <<seen, orderVars, events, moneyVars, voucherVars, assigned>>

Capped == Limited \cup LimitedPerUser

\* The vouchers that are counted no later than any other of r's stack.
CountedFirstBy(r) ==
    {v \in Cart[r].vouchers : \A w \in Cart[r].vouchers \cap Capped : Rank[v] <= Rank[w]}

\* The voucher rows r's transaction has locked when it opens its snapshot.
Held(r) == IF pc[r] = "counting" THEN CountedFirstBy(r) ELSE {}

\* Slip: a plain SELECT of the voucher row.
NobodyWaits(vouchers, r) == TRUE

\* No transaction but r's holds the row of one of these vouchers.
Free(vouchers, r) == \A q \in Requests \ {r} : Held(q) \cap vouchers = {}

\* FOR UPDATE on the rows up to the first voucher with a limit, and the plain SELECT
\* that counts its unpaid orders.
OpenSnapshot(r) ==
    /\ pc[r] = "priced"
    /\ Free(CountedFirstBy(r), r)
    /\ seen' = [seen EXCEPT ![r] = Unpaid]
    /\ pc' = [pc EXCEPT ![r] = "counting"]
    /\ UNCHANGED <<reply, orderVars, events, moneyVars, voucherVars, assigned>>

\* Slip: trusting the first lookup instead of the unique key.
CanCreateUnkeyed(r) ==
    \A v \in Cart[r].vouchers : WithinLimits(v, Cart[r].user, seen[r])

\* What the transaction of CreateIntentWithPayment needs in order to commit: the
\* limits again, with the counters as they are and the orders as the snapshot has
\* them, and the unique key on (country, user, idempotency key).
CanCreate(r) ==
    /\ \A v \in Cart[r].vouchers : WithinLimits(v, Cart[r].user, seen[r])
    /\ FindIntentByIdempotency(r) = {}

CreateIntentWithPayment(r) ==
    /\ pc[r] = "counting"
    /\ Free(Cart[r].vouchers, r)
    /\ CanCreate(r)
    /\ intent' = [intent EXCEPT ![r] = "PAYMENT_PENDING"]
    /\ IF r \in IntentOnly
       THEN UNCHANGED <<payment, orderOf>>
       ELSE /\ payment' = [payment EXCEPT ![r] = "PENDING"]
            /\ orderOf' = [orderOf EXCEPT ![r] = r]
    /\ reply' = [reply EXCEPT ![r] = r]
    /\ seen' = [seen EXCEPT ![r] = {}]
    /\ pc' = [pc EXCEPT ![r] = "answered"]
    /\ UNCHANGED <<events, moneyVars, voucherVars, assigned>>

\* A limit, the unique key, a deadlock, a lock wait timeout, a lost connection:
\* whatever the error, the transaction is rolled back.
CreateIntentFails(r) ==
    /\ pc[r] \in {"priced", "counting"}
    /\ seen' = [seen EXCEPT ![r] = {}]
    /\ pc' = [pc EXCEPT ![r] = "failed"]
    /\ UNCHANGED <<reply, orderVars, events, moneyVars, voucherVars, assigned>>

\* The second lookup, after the transaction failed.
LookUpAgain(r) ==
    /\ pc[r] = "failed"
    /\ \/ AnswerWithExisting(r)
       \/ /\ FindIntentByIdempotency(r) = {}
          /\ pc' = [pc EXCEPT ![r] = "rejected"]
          /\ UNCHANGED reply
    /\ UNCHANGED <<seen, orderVars, events, moneyVars, voucherVars, assigned>>

\* Slip: inserting the missing payment without looking for it again.
CreatePaymentUnchecked(r) ==
    /\ pc[r] = "unpaid"
    /\ payment' = [payment EXCEPT ![r] = "PENDING"]
    /\ orderOf' = [orderOf EXCEPT ![r] = reply[r]]
    /\ pc' = [pc EXCEPT ![r] = "answered"]
    /\ UNCHANGED <<reply, seen, intent, events, moneyVars, voucherVars, assigned>>

CreatePaymentIfMissing(r) ==
    /\ pc[r] = "unpaid"
    /\ IF PaymentsOfOrder(reply[r]) = {}
       THEN /\ payment' = [payment EXCEPT ![r] = "PENDING"]
            /\ orderOf' = [orderOf EXCEPT ![r] = reply[r]]
       ELSE UNCHANGED <<payment, orderOf>>
    /\ pc' = [pc EXCEPT ![r] = "answered"]
    /\ UNCHANGED <<reply, seen, intent, events, moneyVars, voucherVars, assigned>>

\* users.Service.TopUpWallet: a payment without an order.
StartPayment(t) ==
    /\ payment[t] = "NONE"
    /\ payment' = [payment EXCEPT ![t] = "PENDING"]
    /\ UNCHANGED <<requestVars, intent, orderOf, events, moneyVars, voucherVars, assigned>>

MarkOrderCollected(o) ==
    /\ intent[o] = "READY_TO_COLLECT"
    /\ intent' = [intent EXCEPT ![o] = "COMPLETED"]
    /\ UNCHANGED <<requestVars, payment, orderOf, events, moneyVars, voucherVars, assigned>>

\* Listing the voucher wallet gives the user every active voucher once.
AssignActiveVouchers(u) ==
    /\ \E v \in Vouchers : assigned[u][v] = "NONE"
    /\ assigned' = [assigned EXCEPT ![u] =
          [v \in Vouchers |-> IF @[v] = "NONE" THEN "AVAILABLE" ELSE @[v]]]
    /\ UNCHANGED <<requestVars, orderVars, events, moneyVars, voucherVars>>

-----------------------------------------------------------------------------
(* The effects of a captured payment *)

Payer(p) == IF p \in TopUps THEN TopUp[p].user ELSE Cart[p].user

Amount(p) == IF p \in TopUps THEN TopUp[p].amount ELSE Cart[orderOf[p]].total

\* Slip: no unique key, no look for an earlier row of the payment.
HasNoRow(rows, type, p) == FALSE

\* Rows are unique per (user, country, type, reference).
HasRow(rows, type, p) ==
    \E i \in DOMAIN rows : rows[i].type = type /\ rows[i].payment = p

Row(type, p, amount, balance) ==
    [type |-> type, payment |-> p, amount |-> amount, balance_after |-> balance]

\* Slip: the history row carries the balance read before the update.
MoveWalletStaleRow(p, type, amount) ==
    /\ wallet' = [wallet EXCEPT ![Payer(p)] = @ + amount]
    /\ walletRows' = [walletRows EXCEPT ![Payer(p)] =
          Append(@, Row(type, p, amount, wallet[Payer(p)]))]

MoveWallet(p, type, amount) ==
    LET u == Payer(p)
        balance == wallet[u] + amount
    IN  /\ wallet' = [wallet EXCEPT ![u] = balance]
        /\ walletRows' = [walletRows EXCEPT ![u] = Append(@, Row(type, p, amount, balance))]

CreditTopUp(p) ==
    /\ ~HasRow(walletRows[Payer(p)], "TOPUP", p)
    /\ MoveWallet(p, "TOPUP", Amount(p))

\* Slip: an insufficient balance skips the charge instead of rolling back.
SpendWalletIfFunded(p) ==
    IF \/ Cart[p].method # "EWALLET"
       \/ HasRow(walletRows[Payer(p)], "SPEND", p)
       \/ wallet[Payer(p)] < Amount(p)
    THEN UNCHANGED <<wallet, walletRows>>
    ELSE MoveWallet(p, "SPEND", -Amount(p))

SpendWallet(p) ==
    IF Cart[p].method # "EWALLET" \/ HasRow(walletRows[Payer(p)], "SPEND", p)
    THEN UNCHANGED <<wallet, walletRows>>
    ELSE /\ wallet[Payer(p)] >= Amount(p)
         /\ MoveWallet(p, "SPEND", -Amount(p))

\* The guards of the two increments of a voucher's counters.
MayRedeem(v, u) ==
    /\ v \in Limited => redeemed[v] < MaxRedemptions[v]
    /\ v \in LimitedPerUser => userRedeemed[v][u] < MaxPerUser[v]

\* Slip: only the vouchers the user holds in the wallet are counted.
RedeemHeldOnly(p) ==
    LET u == Payer(p)
        used == {v \in Cart[orderOf[p]].vouchers : assigned[u][v] = "AVAILABLE"}
    IN  /\ Free(used, orderOf[p])
        /\ \A v \in used : MayRedeem(v, u)
        /\ redeemed' = [v \in Vouchers |-> IF v \in used THEN redeemed[v] + 1 ELSE redeemed[v]]
        /\ userRedeemed' = [v \in Vouchers |->
              IF v \in used THEN [userRedeemed[v] EXCEPT ![u] = @ + 1] ELSE userRedeemed[v]]
        /\ assigned' = [assigned EXCEPT ![u] =
              [v \in Vouchers |-> IF v \in used THEN "USED" ELSE @[v]]]

applyVoucherRedemptions(p) ==
    LET used == Cart[orderOf[p]].vouchers
        u == Payer(p)
    IN  /\ Free(used, orderOf[p])
        /\ \A v \in used : MayRedeem(v, u)
        /\ redeemed' = [v \in Vouchers |-> IF v \in used THEN redeemed[v] + 1 ELSE redeemed[v]]
        /\ userRedeemed' = [v \in Vouchers |->
              IF v \in used THEN [userRedeemed[v] EXCEPT ![u] = @ + 1] ELSE userRedeemed[v]]
        /\ assigned' = [assigned EXCEPT ![u] =
              [v \in Vouchers |-> IF v \in used /\ @[v] = "AVAILABLE" THEN "USED" ELSE @[v]]]

PointsFor(amount) == IF amount > 0 /\ amount \div 100 = 0 THEN 1 ELSE amount \div 100

EarnPoints(p) ==
    LET u == Payer(p)
        balance == points[u] + PointsFor(Amount(p))
    IN  IF PointsFor(Amount(p)) = 0 \/ HasRow(loyaltyRows[u], "EARN", p)
        THEN UNCHANGED <<points, loyaltyRows>>
        ELSE /\ points' = [points EXCEPT ![u] = balance]
             /\ loyaltyRows' = [loyaltyRows EXCEPT ![u] =
                   Append(@, Row("EARN", p, PointsFor(Amount(p)), balance))]

applyCapturedPaymentEffects(p) ==
    IF orderOf[p] = None
    THEN CreditTopUp(p) /\ UNCHANGED <<points, loyaltyRows, voucherVars, assigned>>
    ELSE SpendWallet(p) /\ applyVoucherRedemptions(p) /\ EarnPoints(p)

\* Slip: an authorized payment already releases the order.
ReleaseOnAuthorized(status) ==
    IF status \in {"FAILED", "CANCELLED"} THEN "PAYMENT_FAILED" ELSE "READY_TO_COLLECT"

OrderStatusFor(status) ==
    CASE status = "CAPTURED" -> "READY_TO_COLLECT"
      [] status = "AUTHORIZED" -> "PAYMENT_PENDING"
      [] status \in {"FAILED", "CANCELLED"} -> "PAYMENT_FAILED"

\* Slip: charging as soon as the payment is authorized.
TakesEffectEarly(c) == c.status \in {"AUTHORIZED", "CAPTURED"} /\ c.event \notin events

TakesEffect(c) == c.status = "CAPTURED" /\ c.event \notin events

\* A gateway report c.  The statuses are overwritten whatever they were; the
\* effects are applied when the payment is captured by an event not seen before.
ApplyCallback(c) ==
    /\ payment[c.txn] # "NONE"
    /\ events' = events \cup {c.event}
    /\ payment' = [payment EXCEPT ![c.txn] = c.status]
    /\ intent' = IF orderOf[c.txn] = None THEN intent
                 ELSE [intent EXCEPT ![orderOf[c.txn]] = OrderStatusFor(c.status)]
    /\ IF TakesEffect(c)
       THEN applyCapturedPaymentEffects(c.txn)
       ELSE UNCHANGED <<moneyVars, voucherVars, assigned>>
    /\ UNCHANGED <<requestVars, orderOf>>

-----------------------------------------------------------------------------
Next ==
    \/ \E r \in Requests :
          \/ Begin(r)
          \/ OpenSnapshot(r)
          \/ CreateIntentWithPayment(r)
          \/ CreateIntentFails(r)
          \/ LookUpAgain(r)
          \/ CreatePaymentIfMissing(r)
          \/ MarkOrderCollected(r)
    \/ \E t \in TopUps : StartPayment(t)
    \/ \E u \in Users : AssignActiveVouchers(u)
    \/ \E c \in Callbacks : ApplyCallback(c)

Spec == Init /\ [][Next]_vars

-----------------------------------------------------------------------------
(* Properties *)

\* Two requests racing under one idempotency key never store two orders:
\* the lookups of Service.Checkout and the unique key of order_intents.
OneOrderPerKey ==
    \A o1, o2 \in Requests :
        /\ intent[o1] # "NONE" /\ intent[o2] # "NONE"
        /\ Cart[o1].user = Cart[o2].user /\ Cart[o1].key = Cart[o2].key
        => o1 = o2

\* Whatever the interleaving, requests under one key are all answered with the
\* same order, one of their user, and an answered order has exactly one payment to be paid with
\* (a request stored by CreateIntent excepted: it returns before any payment).
AnswersAgree ==
    \A r1, r2 \in Requests :
        pc[r1] = "answered" =>
            /\ intent[reply[r1]] # "NONE"
            /\ Cart[reply[r1]].user = Cart[r1].user /\ Cart[reply[r1]].key = Cart[r1].key
            /\ r1 \notin IntentOnly => \E p \in Requests : PaymentsOfOrder(reply[r1]) = {p}
            /\ /\ pc[r2] = "answered"
               /\ Cart[r1].user = Cart[r2].user /\ Cart[r1].key = Cart[r2].key
               => reply[r1] = reply[r2]

\* ApplyCallback moves the payment and its order together: an order is up for
\* collection (or collected) exactly while its payment is captured, awaits
\* payment exactly while the payment is undecided.
StatusesAgree ==
    \A p \in Payments :
        payment[p] # "NONE" /\ orderOf[p] # None =>
            LET status == intent[orderOf[p]]
            IN  /\ payment[p] = "CAPTURED" <=> status \in {"READY_TO_COLLECT", "COMPLETED"}
                /\ payment[p] \in {"PENDING", "AUTHORIZED"} <=> status = "PAYMENT_PENDING"

\* A balance column and the rows that explain it: every row's balance_after is
\* the previous one plus its amount, and the account holds the last one.
Explains(rows, balance) ==
    /\ \A i \in DOMAIN rows :
          rows[i].balance_after =
              rows[i].amount + (IF i = 1 THEN 0 ELSE rows[i - 1].balance_after)
    /\ balance = IF rows = <<>> THEN 0 ELSE rows[Len(rows)].balance_after

\* Wallet and loyalty balances are always the sum of their history, across
\* every interleaving of top-ups, wallet payments, duplicates and rollbacks.
BalancesExplained ==
    \A u \in Users :
        Explains(walletRows[u], wallet[u]) /\ Explains(loyaltyRows[u], points[u])

\* No payment credits, debits or earns twice, however many CAPTURED events the
\* gateway sends for it.
OneRowPerPayment ==
    \A u \in Users : \A rows \in {walletRows[u], loyaltyRows[u]} :
        \A i, j \in DOMAIN rows :
            rows[i].type = rows[j].type /\ rows[i].payment = rows[j].payment => i = j

\* The effects applyCapturedPaymentEffects leaves for payment p: the top-up is
\* credited; the wallet order is charged, its points are earned, its vouchers
\* are counted.
Settled(p) ==
    IF orderOf[p] = None
    THEN HasRow(walletRows[Payer(p)], "TOPUP", p)
    ELSE /\ Cart[p].method = "EWALLET" => HasRow(walletRows[Payer(p)], "SPEND", p)
         /\ PointsFor(Amount(p)) > 0 => HasRow(loyaltyRows[Payer(p)], "EARN", p)
         /\ \A v \in Cart[orderOf[p]].vouchers :
               redeemed[v] > 0 /\ userRedeemed[v][Payer(p)] > 0

\* A payment that stands as captured has had all its effects, although a report
\* whose event is already recorded sets the status and skips them.
CapturedIsSettled == \A p \in Payments : payment[p] = "CAPTURED" => Settled(p)

Recorded(p) == {c \in Callbacks : c.txn = p /\ c.event \in events}

RedeemingOrders(v, u) ==
    {o \in Requests : /\ v \in Cart[o].vouchers
                      /\ Cart[o].user = u
                      /\ \E p \in PaymentsOfOrder(o) : \E c \in Recorded(p) : c.status = "CAPTURED"}

\* The gateway may report a capture under a second event id (Recaptured), or
\* give a payment a second verdict; the code takes no notice of either.
Recaptured ==
    \E p \in Payments : \E c, d \in Recorded(p) :
        c.status = "CAPTURED" /\ d.status = "CAPTURED" /\ c.event # d.event
DecidedOnce == \A p \in Payments : \A c, d \in Recorded(p) : c.event = d.event

\* The two redemption counters count the same thing, each captured order once,
\* as long as the gateway has one CAPTURED event per payment.
RedemptionsCounted ==
    ~Recaptured =>
    \A v \in Vouchers :
        /\ \A u \in Users : userRedeemed[v][u] = Cardinality(RedeemingOrders(v, u))
        /\ redeemed[v] = Cardinality(UNION {RedeemingOrders(v, u) : u \in Users})

\* A limited voucher is never redeemed past its limits, even when late
\* captures arrive after their reservation was given to somebody else.
RedemptionsWithinLimits ==
    \A v \in Vouchers :
        /\ v \in Limited => redeemed[v] <= MaxRedemptions[v]
        /\ v \in LimitedPerUser => \A u \in Users : userRedeemed[v][u] <= MaxPerUser[v]

\* The vouchers that every request counts before any other, in the snapshot it opens
\* for them.  Of later ones it may miss an order (VoucherReservation!ReservedAtomically).
CountedFirst ==
    {v \in Vouchers : \A r \in Requests : v \in Cart[r].vouchers => v \in CountedFirstBy(r)}

\* The orders awaiting payment hold real reservations of the vouchers counted first:
\* all of them could still be captured within the limit, as long as the gateway
\* decides each payment once; a late or reordered report breaks it (see README).
ReservationsWithinLimits ==
    DecidedOnce =>
    \A v \in Limited \cap CountedFirst :
        redeemed[v] + Cardinality(PendingOrders(v)) <= MaxRedemptions[v]

\* Money leaves a wallet only in the step that makes the order it pays for
\* ready to collect, and then by that order's total.
ChargesAreCaptures ==
    [][\A u \in Users : wallet'[u] < wallet[u] =>
          \E p \in Requests :
              /\ payment'[p] = "CAPTURED"
              /\ intent'[orderOf[p]] = "READY_TO_COLLECT"
              /\ Cart[orderOf[p]].user = u
              /\ wallet[u] - wallet'[u] = Cart[orderOf[p]].total]_vars

\* BACKEND_ARCHITECTURE.md, failure modes: "Ignore duplicated gateway event
\* effects and return the current transaction state" -- so a report whose event
\* is already recorded changes no order.
DuplicatesLeaveOrders ==
    [][\A c \in Callbacks :
          c.event \in events /\ ApplyCallback(c) => UNCHANGED <<intent, payment>>]_vars

=============================================================================
