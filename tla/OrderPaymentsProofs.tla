------------------------- MODULE OrderPaymentsProofs -------------------------
(***************************************************************************)
(* Proofs about OrderPayments, for every set of requests, top-ups, users,  *)
(* vouchers and gateway reports: statuses first, then the money, which is  *)
(* wallet and loyalty rows, voucher counters and captured payments.        *)
(***************************************************************************)
EXTENDS OrderPayments, FiniteSetTheorems, TLAPS

-----------------------------------------------------------------------------
(* The inductive invariant behind every theorem below *)

\* A payment row belongs to an order row of the same user, and is only made by
\* the last step of its request; top-ups have no order.
Linked ==
    /\ \A t \in TopUps : orderOf[t] = None
    /\ \A r \in Requests :
          payment[r] # "NONE" =>
              /\ orderOf[r] \in Requests
              /\ intent[orderOf[r]] # "NONE"
              /\ Cart[orderOf[r]].user = Cart[r].user
              /\ pc[r] = "answered"

\* What a request answers with is an order stored under its own key.
Replied ==
    \A r \in Requests :
        pc[r] \in {"unpaid", "answered"} => reply[r] \in FindIntentByIdempotency(r)

LinkInv == TypeOK /\ Linked /\ Replied

-----------------------------------------------------------------------------
(* Types of what the effects are computed from *)

LEMMA CartTypes ==
    ASSUME NEW r \in Requests
    PROVE  /\ Cart[r].user \in Users
           /\ Cart[r].total \in Nat
           /\ Cart[r].vouchers \subseteq Vouchers
  BY ConstantsAssumption DEF CartType

LEMMA PayerType ==
    ASSUME NEW p \in Payments
    PROVE  Payer(p) \in Users
  BY CartTypes, ConstantsAssumption DEF Payer, Payments

LEMMA AmountType ==
    ASSUME LinkInv, NEW p \in Payments, payment[p] # "NONE"
    PROVE  Amount(p) \in Nat
<1>1. CASE p \in TopUps
  BY <1>1, ConstantsAssumption DEF Amount
<1>2. CASE p \notin TopUps
  <2>1. p \in Requests
    BY <1>2 DEF Payments
  <2>2. orderOf[p] \in Requests
    BY <2>1 DEF LinkInv, Linked
  <2> QED
    BY <1>2, <2>2, CartTypes DEF Amount
<1> QED
  BY <1>1, <1>2

LEMMA PointsType ==
    ASSUME NEW n \in Nat
    PROVE  PointsFor(n) \in Nat
  BY DEF PointsFor

LEMMA RowTyped ==
    ASSUME NEW type \in {"TOPUP", "SPEND", "EARN"}, NEW p \in Payments,
           NEW amount \in Int, NEW balance \in Nat
    PROVE  Row(type, p, amount, balance) \in RowType
  BY DEF Row, RowType

\* Moving a wallet by an amount it can bear keeps the wallet columns typed.
LEMMA MoveWalletType ==
    ASSUME LinkInv, NEW p \in Payments, NEW type \in {"TOPUP", "SPEND"},
           NEW amount \in Int, wallet[Payer(p)] + amount >= 0,
           MoveWallet(p, type, amount)
    PROVE  wallet' \in [Users -> Nat] /\ walletRows' \in [Users -> Seq(RowType)]
<1> DEFINE balance == wallet[Payer(p)] + amount
<1>1. Payer(p) \in Users /\ wallet[Payer(p)] \in Nat
  BY PayerType DEF LinkInv, TypeOK
<1>2. balance \in Nat
  BY <1>1
<1>3. Row(type, p, amount, balance) \in RowType
  BY <1>2, RowTyped
<1>4. wallet' = [wallet EXCEPT ![Payer(p)] = balance]
  BY DEF MoveWallet
<1>5. walletRows' = [walletRows EXCEPT ![Payer(p)] =
                        Append(@, Row(type, p, amount, balance))]
  BY DEF MoveWallet
<1> HIDE DEF balance
<1>6. wallet' \in [Users -> Nat]
  BY <1>1, <1>2, <1>4 DEF LinkInv, TypeOK
<1>7. walletRows' \in [Users -> Seq(RowType)]
  BY <1>1, <1>3, <1>5 DEF LinkInv, TypeOK
<1> QED
  BY <1>6, <1>7

LEMMA EarnPointsType ==
    ASSUME LinkInv, NEW p \in Payments, payment[p] # "NONE", EarnPoints(p)
    PROVE  points' \in [Users -> Nat] /\ loyaltyRows' \in [Users -> Seq(RowType)]
<1> DEFINE earned == PointsFor(Amount(p))
           balance == points[Payer(p)] + earned
<1>1. Payer(p) \in Users /\ points[Payer(p)] \in Nat
  BY PayerType DEF LinkInv, TypeOK
<1>2. earned \in Nat /\ balance \in Nat
  BY <1>1, AmountType, PointsType
<1>3. Row("EARN", p, earned, balance) \in RowType
  BY <1>2, RowTyped
<1>4. CASE UNCHANGED <<points, loyaltyRows>>
  BY <1>4 DEF LinkInv, TypeOK
<1>5. CASE ~UNCHANGED <<points, loyaltyRows>>
  <2>1. /\ points' = [points EXCEPT ![Payer(p)] = balance]
        /\ loyaltyRows' = [loyaltyRows EXCEPT ![Payer(p)] =
                              Append(@, Row("EARN", p, earned, balance))]
    BY <1>5 DEF EarnPoints
  <2> HIDE DEF earned, balance
  <2>2. points' \in [Users -> Nat]
    BY <1>1, <1>2, <2>1 DEF LinkInv, TypeOK
  <2>3. loyaltyRows' \in [Users -> Seq(RowType)]
    BY <1>1, <1>3, <2>1 DEF LinkInv, TypeOK
  <2> QED
    BY <2>2, <2>3
<1> QED
  BY <1>4, <1>5

LEMMA RedeemType ==
    ASSUME LinkInv, NEW p \in Payments, applyVoucherRedemptions(p)
    PROVE  /\ redeemed' \in [Vouchers -> Nat]
           /\ userRedeemed' \in [Vouchers -> [Users -> Nat]]
           /\ assigned' \in [Users -> [Vouchers -> {"NONE", "AVAILABLE", "USED"}]]
<1> DEFINE used == Cart[orderOf[p]].vouchers
<1>1. Payer(p) \in Users
  BY PayerType
<1>2. redeemed' \in [Vouchers -> Nat]
  BY DEF applyVoucherRedemptions, LinkInv, TypeOK
<1>3. userRedeemed' \in [Vouchers -> [Users -> Nat]]
  <2>1. \A v \in Vouchers : [userRedeemed[v] EXCEPT ![Payer(p)] = @ + 1] \in [Users -> Nat]
    BY <1>1 DEF LinkInv, TypeOK
  <2>2. \A v \in Vouchers : userRedeemed[v] \in [Users -> Nat]
    BY DEF LinkInv, TypeOK
  <2> QED
    BY <2>1, <2>2 DEF applyVoucherRedemptions
<1>4. assigned' \in [Users -> [Vouchers -> {"NONE", "AVAILABLE", "USED"}]]
  <2> DEFINE after == [v \in Vouchers |->
                IF v \in used /\ assigned[Payer(p)][v] = "AVAILABLE"
                THEN "USED" ELSE assigned[Payer(p)][v]]
  <2>1. after \in [Vouchers -> {"NONE", "AVAILABLE", "USED"}]
    BY <1>1 DEF LinkInv, TypeOK
  <2>2. assigned' = [assigned EXCEPT ![Payer(p)] = after]
    BY DEF applyVoucherRedemptions
  <2> QED
    BY <1>1, <2>1, <2>2 DEF LinkInv, TypeOK
<1> QED
  BY <1>2, <1>3, <1>4

\* The effects of a captured payment keep every column they touch typed.
LEMMA EffectsType ==
    ASSUME LinkInv, NEW p \in Payments, payment[p] # "NONE",
           applyCapturedPaymentEffects(p)
    PROVE  /\ wallet' \in [Users -> Nat] /\ walletRows' \in [Users -> Seq(RowType)]
           /\ points' \in [Users -> Nat] /\ loyaltyRows' \in [Users -> Seq(RowType)]
           /\ redeemed' \in [Vouchers -> Nat]
           /\ userRedeemed' \in [Vouchers -> [Users -> Nat]]
           /\ assigned' \in [Users -> [Vouchers -> {"NONE", "AVAILABLE", "USED"}]]
<1>1. wallet[Payer(p)] \in Nat /\ Amount(p) \in Nat
  BY PayerType, AmountType DEF LinkInv, TypeOK
<1>2. CASE orderOf[p] = None
  <2>1. MoveWallet(p, "TOPUP", Amount(p))
    BY <1>2 DEF applyCapturedPaymentEffects, CreditTopUp
  <2>2. wallet' \in [Users -> Nat] /\ walletRows' \in [Users -> Seq(RowType)]
    BY <1>1, <2>1, MoveWalletType
  <2>3. UNCHANGED <<points, loyaltyRows, voucherVars, assigned>>
    BY <1>2 DEF applyCapturedPaymentEffects
  <2> QED
    BY <2>2, <2>3 DEF voucherVars, LinkInv, TypeOK
<1>3. CASE orderOf[p] # None
  <2>1. SpendWallet(p) /\ applyVoucherRedemptions(p) /\ EarnPoints(p)
    BY <1>3 DEF applyCapturedPaymentEffects
  <2>2. wallet' \in [Users -> Nat] /\ walletRows' \in [Users -> Seq(RowType)]
    <3>1. CASE UNCHANGED <<wallet, walletRows>>
      BY <3>1 DEF LinkInv, TypeOK
    <3>2. CASE ~UNCHANGED <<wallet, walletRows>>
      <4>1. wallet[Payer(p)] >= Amount(p) /\ MoveWallet(p, "SPEND", -Amount(p))
        BY <2>1, <3>2 DEF SpendWallet
      <4> QED
        BY <1>1, <4>1, MoveWalletType
    <3> QED
      BY <3>1, <3>2
  <2> QED
    BY <2>1, <2>2, EarnPointsType, RedeemType
<1> QED
  BY <1>2, <1>3

-----------------------------------------------------------------------------
(* Type correctness *)

LEMMA InitLinkInv ==
    Init => LinkInv
<1> SUFFICES ASSUME Init PROVE LinkInv
  OBVIOUS
<1>1. \A u \in Users : <<>> \in Seq(RowType)
  OBVIOUS
<1>2. TypeOK
  BY <1>1 DEF Init, TypeOK, OrderStatus, PaymentStatus
<1>3. Linked /\ Replied
  BY ConstantsAssumption DEF Init, Linked, Replied, Payments
<1> QED
  BY <1>2, <1>3 DEF LinkInv

\* The order rows only ever grow, so what was found under a key is found again.
LEMMA StillFound ==
    ASSUME NEW r \in Requests, \A o \in Requests : intent[o] # "NONE" => intent'[o] # "NONE"
    PROVE  FindIntentByIdempotency(r) \subseteq FindIntentByIdempotency(r)'
  BY DEF FindIntentByIdempotency

LEMMA BeginLinkInv ==
    ASSUME LinkInv, NEW r \in Requests, Begin(r) \/ LookUpAgain(r) \/ OpenSnapshot(r) \/ CreateIntentFails(r)
    PROVE  LinkInv'
<1>1. UNCHANGED <<orderVars, events, moneyVars, voucherVars, assigned>>
  BY DEF Begin, LookUpAgain, OpenSnapshot, CreateIntentFails
<1>2. pc[r] \in {"idle", "priced", "counting", "failed"}
  BY DEF Begin, LookUpAgain, OpenSnapshot, CreateIntentFails
<1>3. \E s \in {"priced", "counting", "failed", "unpaid", "answered", "rejected"} :
         pc' = [pc EXCEPT ![r] = s]
  BY DEF Begin, LookUpAgain, OpenSnapshot, CreateIntentFails, AnswerWithExisting
<1>4. \/ /\ UNCHANGED reply
         /\ \E s \in {"priced", "counting", "failed", "rejected"} : pc' = [pc EXCEPT ![r] = s]
      \/ \E o \in FindIntentByIdempotency(r) : reply' = [reply EXCEPT ![r] = o]
  BY DEF Begin, LookUpAgain, OpenSnapshot, CreateIntentFails, AnswerWithExisting
<1>5. FindIntentByIdempotency(r) \subseteq Requests
  BY DEF FindIntentByIdempotency
<1>6. TypeOK'
  <2>1. seen' \in [Requests -> SUBSET Requests]
    BY DEF Begin, LookUpAgain, OpenSnapshot, CreateIntentFails, Unpaid, LinkInv, TypeOK
  <2> QED
    BY <1>1, <1>3, <1>4, <1>5, <2>1 DEF LinkInv, TypeOK, orderVars, moneyVars, voucherVars
<1>7. Linked'
  BY <1>1, <1>2, <1>3 DEF LinkInv, TypeOK, Linked, orderVars
<1>8. Replied'
  BY <1>1, <1>3, <1>4 DEF LinkInv, TypeOK, Replied, FindIntentByIdempotency, orderVars
<1> QED
  BY <1>6, <1>7, <1>8 DEF LinkInv

LEMMA CreateLinkInv ==
    ASSUME LinkInv, NEW r \in Requests, CreateIntentWithPayment(r)
    PROVE  LinkInv'
<1>1. /\ intent' = [intent EXCEPT ![r] = "PAYMENT_PENDING"]
      /\ reply' = [reply EXCEPT ![r] = r]
      /\ seen' = [seen EXCEPT ![r] = {}]
      /\ pc' = [pc EXCEPT ![r] = "answered"]
      /\ UNCHANGED <<events, moneyVars, voucherVars, assigned>>
  BY DEF CreateIntentWithPayment
<1>2. \/ UNCHANGED <<payment, orderOf>>
      \/ /\ payment' = [payment EXCEPT ![r] = "PENDING"]
         /\ orderOf' = [orderOf EXCEPT ![r] = r]
  BY DEF CreateIntentWithPayment
<1>3. r \in Payments /\ r \notin TopUps
  BY ConstantsAssumption DEF Payments
<1>4. TypeOK'
  <2>1. /\ payment' \in [Payments -> PaymentStatus]
        /\ orderOf' \in [Payments -> Requests \cup {None}]
    BY <1>2, <1>3 DEF LinkInv, TypeOK, PaymentStatus
  <2>2. /\ pc' \in [Requests -> {"idle", "priced", "counting", "failed", "unpaid",
                               "answered", "rejected"}]
        /\ reply' \in [Requests -> Requests \cup {None}]
        /\ seen' \in [Requests -> SUBSET Requests]
        /\ intent' \in [Requests -> OrderStatus]
    BY <1>1 DEF LinkInv, TypeOK, OrderStatus
  <2> QED
    BY <1>1, <2>1, <2>2 DEF LinkInv, TypeOK, moneyVars, voucherVars
<1>5. Linked'
  BY <1>1, <1>2, <1>3, ConstantsAssumption DEF LinkInv, TypeOK, Linked, Payments
<1>6. Replied'
  BY <1>1, <1>2 DEF LinkInv, TypeOK, Replied, FindIntentByIdempotency
<1> QED
  BY <1>4, <1>5, <1>6 DEF LinkInv

LEMMA PayLinkInv ==
    ASSUME LinkInv, NEW r \in Requests, CreatePaymentIfMissing(r)
    PROVE  LinkInv'
<1>1. /\ pc[r] = "unpaid"
      /\ pc' = [pc EXCEPT ![r] = "answered"]
      /\ UNCHANGED <<reply, seen, intent, events, moneyVars, voucherVars, assigned>>
  BY DEF CreatePaymentIfMissing
<1>2. \/ UNCHANGED <<payment, orderOf>>
      \/ /\ payment' = [payment EXCEPT ![r] = "PENDING"]
         /\ orderOf' = [orderOf EXCEPT ![r] = reply[r]]
  BY DEF CreatePaymentIfMissing
<1>3. r \in Payments /\ r \notin TopUps
  BY ConstantsAssumption DEF Payments
<1>4. reply[r] \in Requests /\ intent[reply[r]] # "NONE" /\ Cart[reply[r]].user = Cart[r].user
  BY <1>1 DEF LinkInv, Replied, FindIntentByIdempotency
<1>5. TypeOK'
  BY <1>1, <1>2, <1>3, <1>4 DEF LinkInv, TypeOK, PaymentStatus, moneyVars, voucherVars
<1>6. Linked'
  BY <1>1, <1>2, <1>3, <1>4, ConstantsAssumption DEF LinkInv, TypeOK, Linked, Payments
<1>7. Replied'
  BY <1>1 DEF LinkInv, TypeOK, Replied, FindIntentByIdempotency
<1> QED
  BY <1>5, <1>6, <1>7 DEF LinkInv

LEMMA CallbackLinkInv ==
    ASSUME LinkInv, NEW c \in Callbacks, ApplyCallback(c)
    PROVE  LinkInv'
<1>1. /\ c.txn \in Payments /\ c.event \in Events
      /\ c.status \in {"CAPTURED", "AUTHORIZED", "FAILED", "CANCELLED"}
  BY ConstantsAssumption DEF CallbackType
<1>2. /\ payment[c.txn] # "NONE"
      /\ events' = events \cup {c.event}
      /\ payment' = [payment EXCEPT ![c.txn] = c.status]
      /\ UNCHANGED <<pc, reply, seen, orderOf>>
  BY DEF ApplyCallback, requestVars
<1>3. intent' = IF orderOf[c.txn] = None THEN intent
                ELSE [intent EXCEPT ![orderOf[c.txn]] = OrderStatusFor(c.status)]
  BY DEF ApplyCallback
<1>4. OrderStatusFor(c.status) \in OrderStatus \ {"NONE"}
  BY <1>1 DEF OrderStatusFor, OrderStatus
<1>5. /\ intent' \in [Requests -> OrderStatus]
      /\ \A o \in Requests : intent[o] # "NONE" => intent'[o] # "NONE"
  BY <1>1, <1>3, <1>4 DEF LinkInv, TypeOK
<1>6. /\ wallet' \in [Users -> Nat] /\ walletRows' \in [Users -> Seq(RowType)]
      /\ points' \in [Users -> Nat] /\ loyaltyRows' \in [Users -> Seq(RowType)]
      /\ redeemed' \in [Vouchers -> Nat]
      /\ userRedeemed' \in [Vouchers -> [Users -> Nat]]
      /\ assigned' \in [Users -> [Vouchers -> {"NONE", "AVAILABLE", "USED"}]]
  <2>1. CASE TakesEffect(c)
    <3>1. applyCapturedPaymentEffects(c.txn)
      BY <2>1 DEF ApplyCallback
    <3> QED
      BY <1>1, <1>2, <3>1, EffectsType
  <2>2. CASE ~TakesEffect(c)
    <3>1. UNCHANGED <<moneyVars, voucherVars, assigned>>
      BY <2>2 DEF ApplyCallback
    <3> QED
      BY <3>1 DEF moneyVars, voucherVars, LinkInv, TypeOK
  <2> QED
    BY <2>1, <2>2
<1>7. TypeOK'
  BY <1>1, <1>2, <1>5, <1>6 DEF LinkInv, TypeOK, PaymentStatus
<1>8. Linked'
  BY <1>1, <1>2, <1>5 DEF LinkInv, TypeOK, Linked, Payments
<1>9. Replied'
  BY <1>2, <1>5 DEF LinkInv, Replied, FindIntentByIdempotency
<1> QED
  BY <1>7, <1>8, <1>9 DEF LinkInv

LEMMA NextLinkInv ==
    LinkInv /\ [Next]_vars => LinkInv'
<1> SUFFICES ASSUME LinkInv, [Next]_vars PROVE LinkInv'
  OBVIOUS
<1>1. ASSUME NEW r \in Requests, Begin(r) \/ LookUpAgain(r) \/ OpenSnapshot(r) \/ CreateIntentFails(r)
      PROVE  LinkInv'
  BY <1>1, BeginLinkInv
<1>2. ASSUME NEW r \in Requests, CreateIntentWithPayment(r) PROVE LinkInv'
  BY <1>2, CreateLinkInv
<1>3. ASSUME NEW r \in Requests, CreatePaymentIfMissing(r) PROVE LinkInv'
  BY <1>3, PayLinkInv
<1>4. ASSUME NEW o \in Requests, MarkOrderCollected(o) PROVE LinkInv'
  BY <1>4 DEF MarkOrderCollected, LinkInv, TypeOK, OrderStatus, Linked, Replied,
              FindIntentByIdempotency, requestVars, moneyVars, voucherVars
<1>5. ASSUME NEW t \in TopUps, StartPayment(t) PROVE LinkInv'
  BY <1>5, ConstantsAssumption
     DEF StartPayment, LinkInv, TypeOK, PaymentStatus, Linked, Replied, Payments,
         FindIntentByIdempotency, requestVars, moneyVars, voucherVars
<1>6. ASSUME NEW u \in Users, AssignActiveVouchers(u) PROVE LinkInv'
  <2>1. [v \in Vouchers |-> IF assigned[u][v] = "NONE" THEN "AVAILABLE" ELSE assigned[u][v]]
          \in [Vouchers -> {"NONE", "AVAILABLE", "USED"}]
    BY DEF LinkInv, TypeOK
  <2>2. assigned' \in [Users -> [Vouchers -> {"NONE", "AVAILABLE", "USED"}]]
    BY <1>6, <2>1 DEF AssignActiveVouchers, LinkInv, TypeOK
  <2> QED
    BY <1>6, <2>2 DEF AssignActiveVouchers, LinkInv, TypeOK, Linked, Replied,
              FindIntentByIdempotency, requestVars, orderVars, moneyVars, voucherVars
<1>7. ASSUME NEW c \in Callbacks, ApplyCallback(c) PROVE LinkInv'
  BY <1>7, CallbackLinkInv
<1>8. CASE UNCHANGED vars
  BY <1>8 DEF vars, LinkInv, TypeOK, Linked, Replied, FindIntentByIdempotency,
              requestVars, orderVars, moneyVars, voucherVars
<1> QED
  BY <1>1, <1>2, <1>3, <1>4, <1>5, <1>6, <1>7, <1>8 DEF Next

\* Every variable of the database keeps its type; in particular no interleaving
\* of charges and credits drives a wallet below zero (the guarded UPDATE of
\* applyCapturedPaymentEffects).
THEOREM TypeCorrect == Spec => []TypeOK
<1>1. LinkInv => TypeOK
  BY DEF LinkInv
<1> QED
  BY <1>1, InitLinkInv, NextLinkInv, PTL DEF Spec

-----------------------------------------------------------------------------
(* Orders and their payments *)

\* An order row is written by the step that answers its request.
Created == \A r \in Requests : intent[r] # "NONE" => pc[r] = "answered"

OnePaymentPerOrder ==
    \A p, q \in Requests :
        payment[p] # "NONE" /\ payment[q] # "NONE" /\ orderOf[p] = orderOf[q] => p = q

\* A client has a payment to make for the order it was answered with.
Payable ==
    \A r \in Requests :
        pc[r] = "answered" /\ r \notin IntentOnly => PaymentsOfOrder(reply[r]) # {}

\* Only a report on its payment takes an order away from PAYMENT_PENDING.
Undecided ==
    \A o \in Requests :
        intent[o] \notin {"NONE", "PAYMENT_PENDING"} => PaymentsOfOrder(o) # {}

OrderInv ==
    /\ LinkInv /\ Created /\ OneOrderPerKey
    /\ OnePaymentPerOrder /\ Payable /\ Undecided /\ StatusesAgree

LEMMA InitOrderInv ==
    Init => OrderInv
<1> SUFFICES ASSUME Init PROVE OrderInv
  OBVIOUS
<1>1. LinkInv
  BY InitLinkInv
<1> QED
  BY <1>1 DEF Init, OrderInv, Created, OneOrderPerKey, OnePaymentPerOrder, Payable,
              Undecided, StatusesAgree, Payments

\* Steps that write neither table only have to answer with payable orders.
LEMMA LookupOrderInv ==
    ASSUME OrderInv, LinkInv', NEW r \in Requests,
           Begin(r) \/ LookUpAgain(r) \/ OpenSnapshot(r) \/ CreateIntentFails(r)
    PROVE  OrderInv'
<1>1. UNCHANGED <<intent, payment, orderOf>> /\ pc[r] # "answered"
  BY DEF Begin, LookUpAgain, OpenSnapshot, CreateIntentFails, orderVars
<1>2. \/ \E s \in {"priced", "counting", "failed", "unpaid", "rejected"} :
             pc' = [pc EXCEPT ![r] = s]
      \/ /\ pc' = [pc EXCEPT ![r] = "answered"]
         /\ PaymentsOfOrder(reply'[r]) # {}
  BY DEF Begin, LookUpAgain, OpenSnapshot, CreateIntentFails, AnswerWithExisting, OrderInv, LinkInv, TypeOK
<1>3. /\ pc \in [Requests -> {"idle", "priced", "counting", "failed", "unpaid", "answered",
                          "rejected"}]
      /\ \A q \in Requests \ {r} : reply'[q] = reply[q]
  BY DEF Begin, LookUpAgain, OpenSnapshot, CreateIntentFails, AnswerWithExisting, OrderInv, LinkInv, TypeOK
<1>4. Created' /\ Payable'
  BY <1>1, <1>2, <1>3 DEF OrderInv, Created, Payable, PaymentsOfOrder
<1>5. OneOrderPerKey' /\ OnePaymentPerOrder' /\ Undecided' /\ StatusesAgree'
  BY <1>1 DEF OrderInv, OneOrderPerKey, OnePaymentPerOrder, Undecided, StatusesAgree,
              PaymentsOfOrder
<1> QED
  BY <1>4, <1>5 DEF OrderInv

LEMMA CreateOrderInv ==
    ASSUME OrderInv, LinkInv', NEW r \in Requests, CreateIntentWithPayment(r)
    PROVE  OrderInv'
<1>1. /\ pc[r] = "counting" /\ FindIntentByIdempotency(r) = {}
      /\ intent' = [intent EXCEPT ![r] = "PAYMENT_PENDING"]
      /\ reply' = [reply EXCEPT ![r] = r]
      /\ pc' = [pc EXCEPT ![r] = "answered"]
  BY DEF CreateIntentWithPayment, CanCreate
<1>2. \/ r \in IntentOnly /\ UNCHANGED <<payment, orderOf>>
      \/ /\ payment' = [payment EXCEPT ![r] = "PENDING"]
         /\ orderOf' = [orderOf EXCEPT ![r] = r]
  BY DEF CreateIntentWithPayment
<1>3. /\ pc \in [Requests -> {"idle", "priced", "counting", "failed", "unpaid", "answered",
                          "rejected"}]
      /\ reply \in [Requests -> Requests \cup {None}]
      /\ intent \in [Requests -> OrderStatus]
      /\ payment \in [Payments -> PaymentStatus]
      /\ orderOf \in [Payments -> Requests \cup {None}]
  BY DEF OrderInv, LinkInv, TypeOK
<1>4. intent[r] = "NONE" /\ payment[r] = "NONE"
  BY <1>1 DEF OrderInv, LinkInv, Linked, Created
<1>5. \A p \in Requests : payment[p] # "NONE" => orderOf[p] # r /\ p # r
  BY <1>4 DEF OrderInv, LinkInv, Linked
<1>6. r \in Payments /\ r \notin TopUps /\ Requests \subseteq Payments
  BY ConstantsAssumption DEF Payments
<1>7. Created'
  BY <1>1, <1>3 DEF OrderInv, Created
<1>8. OneOrderPerKey'
  BY <1>1, <1>3 DEF OrderInv, OneOrderPerKey, FindIntentByIdempotency
<1>9. OnePaymentPerOrder'
  BY <1>2, <1>3, <1>5, <1>6 DEF OrderInv, OnePaymentPerOrder
<1>10. Payable'
  <2>1. \A o \in Requests : PaymentsOfOrder(o) \subseteq PaymentsOfOrder(o)'
    BY <1>2, <1>3, <1>5, <1>6 DEF PaymentsOfOrder
  <2>2. \A q \in Requests \ {r} :
           pc[q] = "answered" /\ q \notin IntentOnly => PaymentsOfOrder(reply[q])' # {}
    <3> SUFFICES ASSUME NEW q \in Requests \ {r}, pc[q] = "answered", q \notin IntentOnly
                 PROVE  PaymentsOfOrder(reply[q])' # {}
      OBVIOUS
    <3>1. reply[q] \in Requests /\ reply'[q] = reply[q]
      BY <1>1, <1>3 DEF OrderInv, LinkInv, Replied, FindIntentByIdempotency
    <3> QED
      BY <2>1, <3>1 DEF OrderInv, Payable, PaymentsOfOrder
  <2>3. r \notin IntentOnly => r \in PaymentsOfOrder(r)'
    BY <1>2, <1>3, <1>6 DEF PaymentsOfOrder
  <2> QED
    BY <1>1, <1>3, <2>2, <2>3 DEF Payable, PaymentsOfOrder
<1>11. Undecided'
  BY <1>1, <1>2, <1>3, <1>5, <1>6 DEF OrderInv, Undecided, PaymentsOfOrder
<1>12. StatusesAgree'
  <2> SUFFICES ASSUME NEW p \in Payments, payment'[p] # "NONE", orderOf'[p] # None
               PROVE  /\ payment'[p] = "CAPTURED" <=>
                             intent'[orderOf'[p]] \in {"READY_TO_COLLECT", "COMPLETED"}
                      /\ payment'[p] \in {"PENDING", "AUTHORIZED"} <=>
                             intent'[orderOf'[p]] = "PAYMENT_PENDING"
    BY DEF StatusesAgree
  <2>1. p \in Requests
    BY DEF OrderInv, LinkInv, Linked, Payments
  <2>2. CASE p = r /\ ~UNCHANGED <<payment, orderOf>>
    BY <1>1, <1>2, <1>3, <1>6, <2>2
  <2>3. CASE p # r \/ UNCHANGED <<payment, orderOf>>
    <3>1. payment'[p] = payment[p] /\ orderOf'[p] = orderOf[p] /\ orderOf[p] # r
      BY <1>2, <1>3, <1>5, <2>1, <2>3
    <3>2. intent'[orderOf[p]] = intent[orderOf[p]]
      BY <1>1, <1>3, <3>1
    <3> QED
      BY <3>1, <3>2 DEF OrderInv, StatusesAgree
  <2> QED
    BY <2>2, <2>3
<1> QED
  BY <1>7, <1>8, <1>9, <1>10, <1>11, <1>12 DEF OrderInv

LEMMA PayOrderInv ==
    ASSUME OrderInv, LinkInv', NEW r \in Requests, CreatePaymentIfMissing(r)
    PROVE  OrderInv'
<1>1. /\ pc[r] = "unpaid"
      /\ pc' = [pc EXCEPT ![r] = "answered"]
      /\ UNCHANGED <<reply, intent>>
  BY DEF CreatePaymentIfMissing
<1>2. CASE PaymentsOfOrder(reply[r]) # {}
  <2>1. UNCHANGED <<payment, orderOf>>
    BY <1>2 DEF CreatePaymentIfMissing
  <2>2. \A q \in Requests : pc'[q] = IF q = r THEN "answered" ELSE pc[q]
    BY <1>1 DEF OrderInv, LinkInv, TypeOK
  <2>3. Created' /\ Payable'
    BY <1>1, <1>2, <2>1, <2>2 DEF OrderInv, Created, Payable, PaymentsOfOrder
  <2>4. OneOrderPerKey' /\ OnePaymentPerOrder' /\ Undecided' /\ StatusesAgree'
    BY <1>1, <2>1
       DEF OrderInv, OneOrderPerKey, OnePaymentPerOrder, Undecided, StatusesAgree, PaymentsOfOrder
  <2> QED
    BY <2>3, <2>4 DEF OrderInv
<1>3. CASE PaymentsOfOrder(reply[r]) = {}
  <2>1. /\ payment' = [payment EXCEPT ![r] = "PENDING"]
        /\ orderOf' = [orderOf EXCEPT ![r] = reply[r]]
    BY <1>3 DEF CreatePaymentIfMissing
  <2>2. /\ pc \in [Requests -> {"idle", "priced", "counting", "failed", "unpaid", "answered",
                          "rejected"}]
        /\ payment \in [Payments -> PaymentStatus]
        /\ orderOf \in [Payments -> Requests \cup {None}]
        /\ r \in Payments /\ r \notin TopUps /\ Requests \subseteq Payments
    BY ConstantsAssumption DEF OrderInv, LinkInv, TypeOK, Payments
  <2>3. reply[r] \in Requests /\ intent[reply[r]] = "PAYMENT_PENDING"
    BY <1>1, <1>3 DEF OrderInv, LinkInv, Replied, FindIntentByIdempotency, Undecided
  <2>4. payment[r] = "NONE"
    BY <1>1 DEF OrderInv, LinkInv, Linked
  <2>5. \A p \in Requests : payment[p] # "NONE" => orderOf[p] # reply[r] /\ p # r
    BY <1>3, <2>4 DEF PaymentsOfOrder
  <2>6. \A o \in Requests : PaymentsOfOrder(o) \subseteq PaymentsOfOrder(o)'
    BY <2>1, <2>2, <2>5 DEF PaymentsOfOrder
  <2>7. r \in PaymentsOfOrder(reply[r])'
    BY <1>1, <2>1, <2>2 DEF PaymentsOfOrder
  <2>8. Created' /\ OneOrderPerKey'
    BY <1>1, <2>2 DEF OrderInv, Created, OneOrderPerKey
  <2>9. OnePaymentPerOrder'
    BY <2>1, <2>2, <2>5 DEF OrderInv, OnePaymentPerOrder
  <2>10. Payable'
    <3> SUFFICES ASSUME NEW q \in Requests, pc'[q] = "answered", q \notin IntentOnly
                 PROVE  PaymentsOfOrder(reply[q])' # {}
      BY <1>1 DEF Payable, PaymentsOfOrder
    <3>1. CASE q = r
      BY <2>7, <3>1
    <3>2. CASE q # r
      <4>1. pc[q] = "answered"
        BY <1>1, <2>2, <3>2
      <4>2. reply[q] \in Requests
        BY <4>1 DEF OrderInv, LinkInv, Replied, FindIntentByIdempotency
      <4> QED
        BY <1>1, <2>6, <4>1, <4>2 DEF OrderInv, Payable, PaymentsOfOrder
    <3> QED
      BY <3>1, <3>2
  <2>11. Undecided'
    BY <1>1, <2>6 DEF OrderInv, Undecided, PaymentsOfOrder
  <2>12. StatusesAgree'
    BY <1>1, <2>1, <2>2, <2>3 DEF OrderInv, StatusesAgree
  <2> QED
    BY <2>8, <2>9, <2>10, <2>11, <2>12 DEF OrderInv
<1> QED
  BY <1>2, <1>3

LEMMA CallbackOrderInv ==
    ASSUME OrderInv, LinkInv', NEW c \in Callbacks, ApplyCallback(c)
    PROVE  OrderInv'
<1> DEFINE p == c.txn
           o == orderOf[c.txn]
<1>1. p \in Payments /\ c.status \in {"CAPTURED", "AUTHORIZED", "FAILED", "CANCELLED"}
  BY ConstantsAssumption DEF CallbackType
<1>2. /\ payment[p] # "NONE"
      /\ payment' = [payment EXCEPT ![p] = c.status]
      /\ UNCHANGED <<pc, reply, orderOf>>
      /\ intent' = IF o = None THEN intent ELSE [intent EXCEPT ![o] = OrderStatusFor(c.status)]
  BY DEF ApplyCallback, requestVars
<1>3. /\ OrderStatusFor(c.status) \in {"READY_TO_COLLECT", "PAYMENT_PENDING", "PAYMENT_FAILED"}
      /\ c.status = "CAPTURED" <=> OrderStatusFor(c.status) \in {"READY_TO_COLLECT", "COMPLETED"}
      /\ c.status \in {"PENDING", "AUTHORIZED"} <=> OrderStatusFor(c.status) = "PAYMENT_PENDING"
  BY <1>1 DEF OrderStatusFor
<1>4. /\ intent \in [Requests -> OrderStatus]
      /\ payment \in [Payments -> PaymentStatus]
      /\ orderOf \in [Payments -> Requests \cup {None}]
      /\ Requests \subseteq Payments
  BY DEF OrderInv, LinkInv, TypeOK, Payments
<1>5. o # None => p \in Requests /\ o \in Requests /\ intent[o] # "NONE"
  BY <1>1, <1>2 DEF OrderInv, LinkInv, Linked, Payments
<1>6. \A q \in Requests : PaymentsOfOrder(q)' = PaymentsOfOrder(q)
  BY <1>1, <1>2, <1>4 DEF PaymentsOfOrder
<1>7. \A q \in Requests : intent'[q] # "NONE" <=> intent[q] # "NONE"
  BY <1>2, <1>3, <1>4, <1>5
<1>8. Created' /\ OneOrderPerKey'
  BY <1>2, <1>7 DEF OrderInv, Created, OneOrderPerKey
<1>9. OnePaymentPerOrder'
  BY <1>1, <1>2, <1>4 DEF OrderInv, OnePaymentPerOrder
<1>10. Payable'
  <2> SUFFICES ASSUME NEW q \in Requests, pc[q] = "answered", q \notin IntentOnly
               PROVE  PaymentsOfOrder(reply[q])' # {}
    BY <1>2 DEF Payable, PaymentsOfOrder
  <2>1. reply[q] \in Requests
    BY DEF OrderInv, LinkInv, Replied, FindIntentByIdempotency
  <2> QED
    BY <1>2, <1>6, <2>1 DEF OrderInv, Payable, PaymentsOfOrder
<1>11. Undecided'
  <2> SUFFICES ASSUME NEW q \in Requests, intent'[q] \notin {"NONE", "PAYMENT_PENDING"}
               PROVE  PaymentsOfOrder(q) # {}
    BY <1>6 DEF Undecided
  <2>1. CASE q = o
    BY <1>2, <1>5, <2>1, ConstantsAssumption DEF Payments, PaymentsOfOrder
  <2>2. CASE q # o
    BY <1>2, <1>4, <2>2 DEF OrderInv, Undecided
  <2> QED
    BY <2>1, <2>2
<1>12. StatusesAgree'
  <2> SUFFICES ASSUME NEW q \in Payments, payment'[q] # "NONE", orderOf[q] # None
               PROVE  /\ payment'[q] = "CAPTURED" <=>
                             intent'[orderOf[q]] \in {"READY_TO_COLLECT", "COMPLETED"}
                      /\ payment'[q] \in {"PENDING", "AUTHORIZED"} <=>
                             intent'[orderOf[q]] = "PAYMENT_PENDING"
    BY <1>2 DEF StatusesAgree
  <2>1. payment[q] # "NONE"
    BY <1>2, <1>4
  <2>2. q \in Requests /\ orderOf[q] \in Requests
    BY <2>1 DEF OrderInv, LinkInv, Linked, Payments
  <2>3. CASE q = p
    BY <1>1, <1>2, <1>3, <1>4, <1>5, <2>3
  <2>4. CASE q # p
    <3>1. o = None \/ orderOf[q] # o
      BY <1>2, <1>5, <2>1, <2>2, <2>4 DEF OrderInv, OnePaymentPerOrder
    <3>2. payment'[q] = payment[q] /\ intent'[orderOf[q]] = intent[orderOf[q]]
      BY <1>2, <1>4, <2>2, <2>4, <3>1
    <3> QED
      BY <2>1, <3>2 DEF OrderInv, StatusesAgree
  <2> QED
    BY <2>3, <2>4
<1> QED
  BY <1>8, <1>9, <1>10, <1>11, <1>12 DEF OrderInv

LEMMA NextOrderInv ==
    OrderInv /\ [Next]_vars => OrderInv'
<1> SUFFICES ASSUME OrderInv, [Next]_vars PROVE OrderInv'
  OBVIOUS
<1>0. LinkInv'
  BY NextLinkInv DEF OrderInv
<1> USE DEF OrderInv, Created, OneOrderPerKey, OnePaymentPerOrder, Payable, Undecided,
            StatusesAgree, PaymentsOfOrder
<1>4. ASSUME NEW o \in Requests, MarkOrderCollected(o) PROVE OrderInv'
  <2>1. intent[o] = "READY_TO_COLLECT" /\ intent' = [intent EXCEPT ![o] = "COMPLETED"]
    BY <1>4 DEF MarkOrderCollected
  <2>2. UNCHANGED <<pc, reply, payment, orderOf>>
    BY <1>4 DEF MarkOrderCollected, requestVars
  <2>3. intent \in [Requests -> OrderStatus]
    BY DEF LinkInv, TypeOK
  <2>4. StatusesAgree'
    <3>1. \A p \in Payments : payment[p] # "NONE" /\ orderOf[p] # None => orderOf[p] \in Requests
      BY DEF LinkInv, TypeOK
    <3> QED
      BY <2>1, <2>2, <2>3, <3>1
  <2> QED
    BY <1>0, <2>1, <2>2, <2>3, <2>4
<1>5. ASSUME NEW t \in TopUps, StartPayment(t) PROVE OrderInv'
  <2>1. payment' = [payment EXCEPT ![t] = "PENDING"] /\ UNCHANGED <<pc, reply, intent, orderOf>>
    BY <1>5 DEF StartPayment, requestVars
  <2>2. /\ payment \in [Payments -> PaymentStatus]
        /\ t \notin Requests /\ Requests \subseteq Payments /\ orderOf[t] = None
    BY ConstantsAssumption DEF LinkInv, TypeOK, Linked, Payments
  <2> QED
    BY <1>0, <2>1, <2>2
<1>6. ASSUME NEW u \in Users, AssignActiveVouchers(u) PROVE OrderInv'
  BY <1>0, <1>6 DEF AssignActiveVouchers, requestVars, orderVars
<1>8. CASE UNCHANGED vars
  BY <1>0, <1>8 DEF vars, requestVars, orderVars
<1> QED
  BY <1>0, <1>4, <1>5, <1>6, <1>8, LookupOrderInv, CreateOrderInv, PayOrderInv, CallbackOrderInv
     DEF Next

\* However checkout requests interleave, an idempotency key of a user never
\* has two orders (Service.Checkout and the unique key of order_intents).
THEOREM IdempotentOrders == Spec => []OneOrderPerKey
<1>1. OrderInv => OneOrderPerKey
  BY DEF OrderInv
<1> QED
  BY <1>1, InitOrderInv, NextOrderInv, PTL DEF Spec

\* Every request under one key is answered with the same order, which has
\* exactly one payment (createMissingPayment, CreatePaymentIfMissing).
THEOREM SameAnswer == Spec => []AnswersAgree
<1>1. OrderInv => AnswersAgree
  <2> SUFFICES ASSUME OrderInv, NEW r1 \in Requests, NEW r2 \in Requests, pc[r1] = "answered"
               PROVE  /\ intent[reply[r1]] # "NONE"
                      /\ Cart[reply[r1]].user = Cart[r1].user
                      /\ Cart[reply[r1]].key = Cart[r1].key
                      /\ r1 \notin IntentOnly =>
                            \E p \in Requests : PaymentsOfOrder(reply[r1]) = {p}
                      /\ /\ pc[r2] = "answered"
                         /\ Cart[r1].user = Cart[r2].user /\ Cart[r1].key = Cart[r2].key
                         => reply[r1] = reply[r2]
    BY DEF AnswersAgree
  <2>1. reply[r1] \in FindIntentByIdempotency(r1)
    BY DEF OrderInv, LinkInv, Replied
  <2>2. pc[r2] = "answered" => reply[r2] \in FindIntentByIdempotency(r2)
    BY DEF OrderInv, LinkInv, Replied
  <2>3. r1 \notin IntentOnly => \E p \in Requests : PaymentsOfOrder(reply[r1]) = {p}
    <3> SUFFICES ASSUME r1 \notin IntentOnly
                 PROVE  \E p \in Requests : PaymentsOfOrder(reply[r1]) = {p}
      OBVIOUS
    <3>1. PICK p \in Requests : p \in PaymentsOfOrder(reply[r1])
      BY DEF OrderInv, Payable, PaymentsOfOrder
    <3>2. PaymentsOfOrder(reply[r1]) = {p}
      BY <3>1 DEF OrderInv, OnePaymentPerOrder, PaymentsOfOrder
    <3> QED
      BY <3>2
  <2> QED
    BY <2>1, <2>2, <2>3 DEF FindIntentByIdempotency, OrderInv, OneOrderPerKey
<1> QED
  BY <1>1, InitOrderInv, NextOrderInv, PTL DEF Spec

\* Order and payment statuses never disagree, whatever reports arrive and in
\* whatever order (ApplyCallback updates both rows in one transaction).
THEOREM OrdersFollowPayments == Spec => []StatusesAgree
<1>1. OrderInv => StatusesAgree
  BY DEF OrderInv
<1> QED
  BY <1>1, InitOrderInv, NextOrderInv, PTL DEF Spec

-----------------------------------------------------------------------------
(* Rows that explain a balance *)

LEMMA AppendExplains ==
    ASSUME NEW rows \in Seq(RowType), NEW row \in RowType, NEW balance \in Nat,
           Explains(rows, balance), row.balance_after = balance + row.amount
    PROVE  Explains(Append(rows, row), row.balance_after)
<1> DEFINE all == Append(rows, row)
           n == Len(rows)
<1>1. /\ n \in Nat /\ Len(all) = n + 1 /\ all # <<>>
      /\ DOMAIN rows = 1..n /\ DOMAIN all = 1..(n + 1)
      /\ all[n + 1] = row
      /\ \A i \in 1..n : all[i] = rows[i]
  OBVIOUS
<1>2. /\ row.amount \in Int /\ row.balance_after \in Nat
  BY DEF RowType
<1>3. rows = <<>> => n = 0
  OBVIOUS
<1>4. n = 0 => rows = <<>>
  OBVIOUS
<1> HIDE DEF all, n
<1>5. balance = IF n = 0 THEN 0 ELSE rows[n].balance_after
  BY <1>3, <1>4 DEF Explains, n
<1>6. ASSUME NEW i \in 1..(n + 1)
      PROVE  all[i].balance_after =
                all[i].amount + (IF i = 1 THEN 0 ELSE all[i - 1].balance_after)
  <2>1. CASE i = n + 1
    <3>1. n # 0 => all[i - 1] = rows[n]
      BY <1>1, <2>1
    <3> QED
      BY <1>1, <1>2, <1>5, <2>1, <3>1
  <2>2. CASE i # n + 1
    <3>1. i \in 1..n /\ (i # 1 => i - 1 \in 1..n)
      BY <1>1, <2>2
    <3> QED
      BY <1>1, <3>1 DEF Explains
  <2> QED
    BY <2>1, <2>2
<1> QED
  BY <1>1, <1>6 DEF Explains, all

\* A balance column whose history is appended to by a step of its own balance.
LEMMA MoveWalletExplains ==
    ASSUME LinkInv, BalancesExplained, NEW p \in Payments, NEW type \in {"TOPUP", "SPEND"},
           NEW amount \in Int, wallet[Payer(p)] + amount >= 0,
           MoveWallet(p, type, amount)
    PROVE  \A u \in Users : Explains(walletRows'[u], wallet'[u])
<1> DEFINE balance == wallet[Payer(p)] + amount
           row == Row(type, p, amount, balance)
<1>1. Payer(p) \in Users /\ wallet[Payer(p)] \in Nat /\ balance \in Nat
  BY PayerType DEF LinkInv, TypeOK
<1>2. row \in RowType
  BY <1>1, RowTyped
<1>3. row.balance_after = balance /\ row.balance_after = wallet[Payer(p)] + row.amount
  BY DEF Row
<1>4. walletRows[Payer(p)] \in Seq(RowType)
  BY <1>1 DEF LinkInv, TypeOK
<1>5. Explains(walletRows[Payer(p)], wallet[Payer(p)])
  BY <1>1 DEF BalancesExplained
<1>6. Explains(Append(walletRows[Payer(p)], row), row.balance_after)
  BY <1>1, <1>2, <1>3, <1>4, <1>5, AppendExplains
<1>7. /\ wallet' = [wallet EXCEPT ![Payer(p)] = balance]
      /\ walletRows' = [walletRows EXCEPT ![Payer(p)] = Append(@, row)]
  BY DEF MoveWallet
<1> HIDE DEF balance, row
<1>8. ASSUME NEW u \in Users PROVE Explains(walletRows'[u], wallet'[u])
  <2>1. CASE u = Payer(p)
    BY <1>1, <1>3, <1>6, <1>7, <2>1 DEF LinkInv, TypeOK
  <2>2. CASE u # Payer(p)
    <3>1. walletRows'[u] = walletRows[u] /\ wallet'[u] = wallet[u]
      BY <1>7, <2>2 DEF LinkInv, TypeOK
    <3> QED
      BY <3>1 DEF BalancesExplained
  <2> QED
    BY <2>1, <2>2
<1> QED
  BY <1>8

LEMMA EarnPointsExplains ==
    ASSUME LinkInv, BalancesExplained, NEW p \in Payments, payment[p] # "NONE", EarnPoints(p)
    PROVE  \A u \in Users : Explains(loyaltyRows'[u], points'[u])
<1> DEFINE earned == PointsFor(Amount(p))
           balance == points[Payer(p)] + earned
           row == Row("EARN", p, earned, balance)
<1>1. CASE UNCHANGED <<points, loyaltyRows>>
  BY <1>1 DEF BalancesExplained
<1>2. CASE ~UNCHANGED <<points, loyaltyRows>>
  <2>1. /\ points' = [points EXCEPT ![Payer(p)] = balance]
        /\ loyaltyRows' = [loyaltyRows EXCEPT ![Payer(p)] = Append(@, row)]
    BY <1>2 DEF EarnPoints
  <2>2. /\ Payer(p) \in Users /\ points[Payer(p)] \in Nat /\ earned \in Nat
        /\ balance \in Nat
    <3>1. Payer(p) \in Users /\ points[Payer(p)] \in Nat
      BY PayerType DEF LinkInv, TypeOK
    <3>2. earned \in Nat
      BY AmountType, PointsType
    <3> QED
      BY <3>1, <3>2
  <2>3. /\ row \in RowType /\ loyaltyRows[Payer(p)] \in Seq(RowType)
        /\ Explains(loyaltyRows[Payer(p)], points[Payer(p)])
    BY <2>2, RowTyped DEF LinkInv, TypeOK, BalancesExplained
  <2>4. row.balance_after = balance /\ row.balance_after = points[Payer(p)] + row.amount
    BY DEF Row
  <2>5. Explains(Append(loyaltyRows[Payer(p)], row), row.balance_after)
    BY <2>2, <2>3, <2>4, AppendExplains
  <2> HIDE DEF earned, balance, row
  <2>6. ASSUME NEW u \in Users PROVE Explains(loyaltyRows'[u], points'[u])
    <3>1. CASE u = Payer(p)
      BY <2>1, <2>2, <2>4, <2>5, <3>1 DEF LinkInv, TypeOK
    <3>2. CASE u # Payer(p)
      <4>1. loyaltyRows'[u] = loyaltyRows[u] /\ points'[u] = points[u]
        BY <2>1, <3>2 DEF LinkInv, TypeOK
      <4> QED
        BY <4>1 DEF BalancesExplained
    <3> QED
      BY <3>1, <3>2
  <2> QED
    BY <2>6
<1> QED
  BY <1>1, <1>2

\* What a wallet can go through in one step.
LEMMA WalletMoves ==
    ASSUME LinkInv, NEW c \in Callbacks, ApplyCallback(c)
    PROVE  \/ UNCHANGED moneyVars
           \/ /\ TakesEffect(c) /\ orderOf[c.txn] = None /\ c.txn \in TopUps
              /\ CreditTopUp(c.txn) /\ UNCHANGED <<points, loyaltyRows>>
           \/ /\ TakesEffect(c) /\ orderOf[c.txn] # None
              /\ SpendWallet(c.txn) /\ EarnPoints(c.txn)
<1>1. c.txn \in Payments /\ payment[c.txn] # "NONE"
  BY ConstantsAssumption DEF CallbackType, ApplyCallback
<1>2. orderOf[c.txn] = None => c.txn \in TopUps
  BY <1>1, ConstantsAssumption DEF LinkInv, Linked, Payments
<1> QED
  BY <1>1, <1>2 DEF ApplyCallback, applyCapturedPaymentEffects

\* Only a gateway report moves money.
LEMMA OnlyCallbacksMoveMoney ==
    ASSUME [Next]_vars
    PROVE  UNCHANGED moneyVars \/ \E c \in Callbacks : ApplyCallback(c)
  BY DEF Next, vars, Begin, LookUpAgain, OpenSnapshot, CreateIntentFails, CreateIntentWithPayment,
         CreatePaymentIfMissing, MarkOrderCollected, StartPayment, AssignActiveVouchers

LEMMA SpendMoves ==
    ASSUME LinkInv, NEW p \in Payments, SpendWallet(p), ~UNCHANGED <<wallet, walletRows>>
    PROVE  /\ ~HasRow(walletRows[Payer(p)], "SPEND", p)
           /\ wallet[Payer(p)] >= Amount(p)
           /\ MoveWallet(p, "SPEND", -Amount(p))
  BY DEF SpendWallet

LEMMA NextExplained ==
    LinkInv /\ BalancesExplained /\ [Next]_vars => BalancesExplained'
<1> SUFFICES ASSUME LinkInv, BalancesExplained, [Next]_vars PROVE BalancesExplained'
  OBVIOUS
<1>1. CASE UNCHANGED moneyVars
  BY <1>1 DEF BalancesExplained, moneyVars
<1>2. ASSUME NEW c \in Callbacks, ApplyCallback(c), ~UNCHANGED moneyVars
      PROVE  BalancesExplained'
  <2> DEFINE p == c.txn
  <2>1. p \in Payments /\ payment[p] # "NONE"
    BY <1>2, ConstantsAssumption DEF CallbackType, ApplyCallback
  <2>2. Amount(p) \in Nat /\ wallet[Payer(p)] \in Nat
    BY <2>1, AmountType, PayerType DEF LinkInv, TypeOK
  <2>3. CASE CreditTopUp(p) /\ UNCHANGED <<points, loyaltyRows>>
    <3>1. MoveWallet(p, "TOPUP", Amount(p))
      BY <2>3 DEF CreditTopUp
    <3> QED
      BY <2>1, <2>2, <2>3, <3>1, MoveWalletExplains DEF BalancesExplained
  <2>4. CASE SpendWallet(p) /\ EarnPoints(p)
    <3>1. \A u \in Users : Explains(walletRows'[u], wallet'[u])
      <4>1. CASE UNCHANGED <<wallet, walletRows>>
        BY <4>1 DEF BalancesExplained
      <4>2. CASE ~UNCHANGED <<wallet, walletRows>>
        BY <2>1, <2>2, <2>4, <4>2, SpendMoves, MoveWalletExplains
      <4> QED
        BY <4>1, <4>2
    <3> QED
      BY <2>1, <2>4, <3>1, EarnPointsExplains DEF BalancesExplained
  <2> QED
    BY <1>2, <2>3, <2>4, WalletMoves
<1> QED
  BY <1>1, <1>2, OnlyCallbacksMoveMoney

LEMMA InitExplained ==
    Init => BalancesExplained
  BY DEF Init, BalancesExplained, Explains

\* Every wallet and loyalty balance is the balance_after of its last history
\* row, and each row continues the one before (applyCapturedPaymentEffects
\* reads the account FOR UPDATE, then inserts the row).
THEOREM BalancesFollowHistory == Spec => []BalancesExplained
  BY InitLinkInv, NextLinkInv, InitExplained, NextExplained, PTL DEF Spec

-----------------------------------------------------------------------------
(* One row per payment and kind *)

\* Two rows of one kind and payment are the same row.
OneRowEach(rows) ==
    \A i, j \in DOMAIN rows :
        rows[i].type = rows[j].type /\ rows[i].payment = rows[j].payment => i = j

LEMMA AppendOneRowEach ==
    ASSUME NEW rows \in Seq(RowType), NEW type \in {"TOPUP", "SPEND", "EARN"},
           NEW p \in Payments, NEW amount \in Int, NEW balance \in Nat,
           OneRowEach(rows), ~HasRow(rows, type, p)
    PROVE  OneRowEach(Append(rows, Row(type, p, amount, balance)))
<1> DEFINE row == Row(type, p, amount, balance)
           all == Append(rows, row)
           n == Len(rows)
<1>1. /\ n \in Nat
      /\ DOMAIN rows = 1..n /\ DOMAIN all = 1..(n + 1)
      /\ all[n + 1] = row
      /\ \A i \in 1..n : all[i] = rows[i]
  BY RowTyped
<1>2. row.type = type /\ row.payment = p
  BY DEF Row
<1>3. \A i \in 1..n : ~(rows[i].type = type /\ rows[i].payment = p)
  BY <1>1 DEF HasRow
<1> HIDE DEF row, all, n
<1>4. ASSUME NEW i \in 1..(n + 1), NEW j \in 1..(n + 1),
             all[i].type = all[j].type, all[i].payment = all[j].payment
      PROVE  i = j
  <2>1. CASE i \in 1..n /\ j \in 1..n
    <3>1. rows[i].type = rows[j].type /\ rows[i].payment = rows[j].payment
      BY <1>1, <1>4, <2>1
    <3> QED
      BY <1>1, <2>1, <3>1 DEF OneRowEach
  <2>2. CASE i \in 1..n /\ j \notin 1..n
    <3>1. j = n + 1 /\ all[j] = row /\ all[i] = rows[i]
      BY <1>1, <2>2
    <3> QED
      BY <1>2, <1>3, <1>4, <2>2, <3>1
  <2>3. CASE i \notin 1..n /\ j \in 1..n
    <3>1. i = n + 1 /\ all[i] = row /\ all[j] = rows[j]
      BY <1>1, <2>3
    <3> QED
      BY <1>2, <1>3, <1>4, <2>3, <3>1
  <2>4. CASE i \notin 1..n /\ j \notin 1..n
    BY <1>1, <2>4
  <2> QED
    BY <2>1, <2>2, <2>3, <2>4
<1>5. OneRowEach(all)
  BY <1>1, <1>4 DEF OneRowEach
<1> QED
  BY <1>5 DEF all, row

LEMMA NextOneRow ==
    LinkInv /\ OneRowPerPayment /\ [Next]_vars => OneRowPerPayment'
<1> SUFFICES ASSUME LinkInv, OneRowPerPayment, [Next]_vars PROVE OneRowPerPayment'
  OBVIOUS
<1>0. \A u \in Users : OneRowEach(walletRows[u]) /\ OneRowEach(loyaltyRows[u])
  BY DEF OneRowPerPayment, OneRowEach
<1> SUFFICES ASSUME NEW u \in Users
             PROVE  OneRowEach(walletRows'[u]) /\ OneRowEach(loyaltyRows'[u])
  BY DEF OneRowPerPayment, OneRowEach
<1>1. CASE UNCHANGED moneyVars
  BY <1>0, <1>1 DEF moneyVars
<1>2. ASSUME NEW c \in Callbacks, ApplyCallback(c), ~UNCHANGED moneyVars
      PROVE  OneRowEach(walletRows'[u]) /\ OneRowEach(loyaltyRows'[u])
  <2> DEFINE p == c.txn
  <2>1. /\ p \in Payments /\ payment[p] # "NONE"
    BY <1>2, ConstantsAssumption DEF CallbackType, ApplyCallback
  <2>2. /\ Payer(p) \in Users /\ Amount(p) \in Nat /\ PointsFor(Amount(p)) \in Nat
    BY <2>1, PayerType, AmountType, PointsType
  <2>3. /\ wallet[Payer(p)] \in Nat /\ points[Payer(p)] \in Nat
        /\ walletRows[Payer(p)] \in Seq(RowType) /\ loyaltyRows[Payer(p)] \in Seq(RowType)
    BY <2>2 DEF LinkInv, TypeOK
  <2>4. ASSUME NEW type \in {"TOPUP", "SPEND"}, NEW amount \in Int,
               ~HasRow(walletRows[Payer(p)], type, p), wallet[Payer(p)] + amount >= 0,
               MoveWallet(p, type, amount)
        PROVE  OneRowEach(walletRows'[u])
    <3> DEFINE balance == wallet[Payer(p)] + amount
    <3>1. walletRows' = [walletRows EXCEPT ![Payer(p)] =
                            Append(@, Row(type, p, amount, balance))]
      BY <2>4 DEF MoveWallet
    <3>2. balance \in Nat
      BY <2>3, <2>4
    <3> HIDE DEF balance
    <3>3. OneRowEach(Append(walletRows[Payer(p)], Row(type, p, amount, balance)))
      BY <1>0, <2>1, <2>2, <2>3, <2>4, <3>2, AppendOneRowEach
    <3>4. walletRows'[u] = IF u = Payer(p)
                           THEN Append(walletRows[Payer(p)], Row(type, p, amount, balance))
                           ELSE walletRows[u]
      BY <3>1 DEF LinkInv, TypeOK
    <3> QED
      BY <1>0, <3>3, <3>4
  <2>5. CASE CreditTopUp(p) /\ UNCHANGED <<points, loyaltyRows>>
    <3>1. OneRowEach(walletRows'[u])
      BY <2>2, <2>3, <2>4, <2>5 DEF CreditTopUp
    <3> QED
      BY <1>0, <2>5, <3>1
  <2>6. CASE SpendWallet(p) /\ EarnPoints(p)
    <3>1. OneRowEach(walletRows'[u])
      <4>1. CASE UNCHANGED <<wallet, walletRows>>
        BY <1>0, <4>1
      <4>2. CASE ~UNCHANGED <<wallet, walletRows>>
        <5>1. /\ ~HasRow(walletRows[Payer(p)], "SPEND", p)
              /\ wallet[Payer(p)] >= Amount(p)
              /\ MoveWallet(p, "SPEND", -Amount(p))
          BY <2>1, <2>6, <4>2, SpendMoves
        <5> QED
          BY <2>2, <2>3, <2>4, <5>1
      <4> QED
        BY <4>1, <4>2
    <3>2. OneRowEach(loyaltyRows'[u])
      <4>1. CASE UNCHANGED <<points, loyaltyRows>>
        BY <1>0, <4>1
      <4>2. CASE ~UNCHANGED <<points, loyaltyRows>>
        <5> DEFINE earned == PointsFor(Amount(p))
                   balance == points[Payer(p)] + earned
        <5>1. /\ ~HasRow(loyaltyRows[Payer(p)], "EARN", p)
              /\ loyaltyRows' = [loyaltyRows EXCEPT ![Payer(p)] =
                                    Append(@, Row("EARN", p, earned, balance))]
          BY <2>6, <4>2 DEF EarnPoints
        <5>2. earned \in Nat /\ balance \in Nat
          BY <2>2, <2>3
        <5> HIDE DEF earned, balance
        <5>3. OneRowEach(Append(loyaltyRows[Payer(p)], Row("EARN", p, earned, balance)))
          BY <1>0, <2>1, <2>2, <2>3, <5>1, <5>2, AppendOneRowEach
        <5>4. loyaltyRows'[u] = IF u = Payer(p)
                                THEN Append(loyaltyRows[Payer(p)], Row("EARN", p, earned, balance))
                                ELSE loyaltyRows[u]
          BY <5>1 DEF LinkInv, TypeOK
        <5> QED
          BY <1>0, <5>3, <5>4
      <4> QED
        BY <4>1, <4>2
    <3> QED
      BY <3>1, <3>2
  <2> QED
    BY <1>2, <2>5, <2>6, WalletMoves
<1> QED
  BY <1>1, <1>2, OnlyCallbacksMoveMoney

LEMMA InitOneRow ==
    Init => OneRowPerPayment
  BY DEF Init, OneRowPerPayment

\* However many capture events arrive for a payment, it credits, charges and
\* earns at most once (the unique references of wallet_transactions and
\* loyalty_transactions, and the reads before the inserts).
THEOREM EffectsAtMostOnce == Spec => []OneRowPerPayment
  BY InitLinkInv, NextLinkInv, InitOneRow, NextOneRow, PTL DEF Spec

-----------------------------------------------------------------------------
(* Voucher counters *)

LEMMA NextWithinLimits ==
    TypeOK /\ RedemptionsWithinLimits /\ [Next]_vars => RedemptionsWithinLimits'
<1> SUFFICES ASSUME TypeOK, RedemptionsWithinLimits, [Next]_vars
             PROVE  RedemptionsWithinLimits'
  OBVIOUS
<1>1. CASE UNCHANGED voucherVars
  BY <1>1 DEF RedemptionsWithinLimits, voucherVars
<1>2. ASSUME NEW p \in Payments, applyVoucherRedemptions(p) PROVE RedemptionsWithinLimits'
  <2> DEFINE used == Cart[orderOf[p]].vouchers
             u == Payer(p)
  <2> SUFFICES ASSUME NEW v \in Vouchers
               PROVE  /\ v \in Limited => redeemed'[v] <= MaxRedemptions[v]
                      /\ v \in LimitedPerUser =>
                            \A w \in Users : userRedeemed'[v][w] <= MaxPerUser[v]
    BY DEF RedemptionsWithinLimits
  <2>1. /\ redeemed'[v] = IF v \in used THEN redeemed[v] + 1 ELSE redeemed[v]
        /\ userRedeemed'[v] = IF v \in used THEN [userRedeemed[v] EXCEPT ![u] = @ + 1]
                              ELSE userRedeemed[v]
        /\ v \in used => MayRedeem(v, u)
    BY <1>2 DEF applyVoucherRedemptions
  <2>2. /\ redeemed[v] \in Nat /\ userRedeemed[v] \in [Users -> Nat]
        /\ MaxRedemptions[v] \in Nat /\ MaxPerUser[v] \in Nat
    BY ConstantsAssumption DEF TypeOK
  <2>3. \A w \in Users : userRedeemed'[v][w] =
            IF v \in used /\ w = u THEN userRedeemed[v][w] + 1 ELSE userRedeemed[v][w]
    BY <2>1, <2>2
  <2> HIDE DEF used, u
  <2>4. v \in Limited => redeemed'[v] <= MaxRedemptions[v]
    BY <2>1, <2>2 DEF RedemptionsWithinLimits, MayRedeem
  <2>5. ASSUME v \in LimitedPerUser, NEW w \in Users
        PROVE  userRedeemed'[v][w] <= MaxPerUser[v]
    BY <2>1, <2>2, <2>3, <2>5 DEF RedemptionsWithinLimits, MayRedeem
  <2> QED
    BY <2>4, <2>5
<1>3. ASSUME NEW c \in Callbacks, ApplyCallback(c), ~UNCHANGED voucherVars
      PROVE  RedemptionsWithinLimits'
  <2>1. c.txn \in Payments
    BY ConstantsAssumption DEF CallbackType
  <2>2. applyVoucherRedemptions(c.txn)
    BY <1>3 DEF ApplyCallback, applyCapturedPaymentEffects
  <2> QED
    BY <1>2, <2>1, <2>2
<1> QED
  BY <1>1, <1>3 DEF Next, vars, Begin, LookUpAgain, OpenSnapshot, CreateIntentFails, CreateIntentWithPayment,
     CreatePaymentIfMissing, MarkOrderCollected, StartPayment, AssignActiveVouchers

LEMMA InitWithinLimits ==
    Init => RedemptionsWithinLimits
  BY ConstantsAssumption DEF Init, RedemptionsWithinLimits

\* No sequence of captures, late and repeated ones included, redeems a voucher
\* past max_redemptions or max_redemptions_per_user (the guarded increments of
\* applyUserVoucherRedemption).
THEOREM LimitsHold == Spec => []RedemptionsWithinLimits
<1>1. LinkInv => TypeOK
  BY DEF LinkInv
<1> QED
  BY <1>1, InitLinkInv, NextLinkInv, InitWithinLimits, NextWithinLimits, PTL DEF Spec

-----------------------------------------------------------------------------
(* Charges *)

LEMMA StepCharges ==
    ASSUME LinkInv, [Next]_vars, NEW u \in Users, wallet'[u] < wallet[u]
    PROVE  \E p \in Requests :
              /\ payment'[p] = "CAPTURED"
              /\ intent'[orderOf[p]] = "READY_TO_COLLECT"
              /\ Cart[orderOf[p]].user = u
              /\ wallet[u] - wallet'[u] = Cart[orderOf[p]].total
<1>1. wallet[u] \in Nat
  BY DEF LinkInv, TypeOK
<1>2. PICK c \in Callbacks : ApplyCallback(c)
  BY <1>1, OnlyCallbacksMoveMoney DEF moneyVars
<1> DEFINE p == c.txn
<1>3. p \in Payments /\ payment[p] # "NONE"
  BY <1>2, ConstantsAssumption DEF CallbackType, ApplyCallback
<1>4. Payer(p) \in Users /\ Amount(p) \in Nat
  BY <1>3, PayerType, AmountType
<1>5. ~CreditTopUp(p)
  <2> SUFFICES ASSUME CreditTopUp(p) PROVE FALSE
    OBVIOUS
  <2>1. wallet' = [wallet EXCEPT ![Payer(p)] = wallet[Payer(p)] + Amount(p)]
    BY DEF CreditTopUp, MoveWallet
  <2>2. wallet'[u] = IF u = Payer(p) THEN wallet[u] + Amount(p) ELSE wallet[u]
    BY <2>1 DEF LinkInv, TypeOK
  <2> QED
    BY <1>1, <1>4, <2>2
<1>6. /\ TakesEffect(c) /\ orderOf[p] # None /\ SpendWallet(p)
      /\ ~UNCHANGED <<wallet, walletRows>>
  BY <1>1, <1>2, <1>5, WalletMoves DEF moneyVars
<1>7. p \in Requests /\ orderOf[p] \in Requests /\ Cart[orderOf[p]].user = Cart[p].user
  BY <1>3, <1>6 DEF LinkInv, Linked, Payments
<1>8. p \notin TopUps
  BY <1>7, ConstantsAssumption
<1>9. wallet' = [wallet EXCEPT ![Payer(p)] = wallet[Payer(p)] - Amount(p)]
  BY <1>3, <1>4, <1>6, SpendMoves DEF MoveWallet, LinkInv, TypeOK
<1>10. u = Payer(p) /\ wallet'[u] = wallet[u] - Amount(p)
  BY <1>1, <1>4, <1>9 DEF LinkInv, TypeOK
<1>11. Cart[orderOf[p]].user = u /\ wallet[u] - wallet'[u] = Cart[orderOf[p]].total
  BY <1>1, <1>4, <1>7, <1>8, <1>10 DEF Payer, Amount
<1>12. payment'[p] = "CAPTURED"
  BY <1>2, <1>3, <1>6 DEF ApplyCallback, TakesEffect, LinkInv, TypeOK
<1>13. intent'[orderOf[p]] = "READY_TO_COLLECT"
  BY <1>2, <1>6, <1>7 DEF ApplyCallback, TakesEffect, OrderStatusFor, LinkInv, TypeOK
<1> QED
  BY <1>7, <1>11, <1>12, <1>13

\* Money leaves a wallet only in the transaction that captures the payment and
\* releases the order it pays for, and by that order's total.
THEOREM ChargesRelease == Spec => ChargesAreCaptures
<1>1. LinkInv /\ [Next]_vars =>
        [\A u \in Users : wallet'[u] < wallet[u] =>
            \E p \in Requests :
                /\ payment'[p] = "CAPTURED"
                /\ intent'[orderOf[p]] = "READY_TO_COLLECT"
                /\ Cart[orderOf[p]].user = u
                /\ wallet[u] - wallet'[u] = Cart[orderOf[p]].total]_vars
  BY StepCharges
<1> QED
  BY <1>1, InitLinkInv, NextLinkInv, PTL DEF Spec, ChargesAreCaptures

-----------------------------------------------------------------------------
(* The effects of a capture *)

\* An event id belongs to one report: ApplyMockGatewayCallback makes it from the
\* transaction and its status unless the gateway names its events itself.
EventsIdentifyReports ==
    \A c, d \in Callbacks : c.event = d.event => c.txn = d.txn /\ c.status = d.status

\* What a recorded event of a capture stands for.
RecordedSettled ==
    \A c \in Callbacks :
        c.event \in events =>
            payment[c.txn] # "NONE" /\ (c.status = "CAPTURED" => Settled(c.txn))

SettledInv == LinkInv /\ CapturedIsSettled /\ RecordedSettled

\* History rows are only ever appended, and counters only ever grow.
LEMMA RowsGrow ==
    ASSUME LinkInv, [Next]_vars, NEW u \in Users, NEW type \in {"TOPUP", "SPEND", "EARN"},
           NEW p \in Payments
    PROVE  /\ HasRow(walletRows[u], type, p) => HasRow(walletRows'[u], type, p)
           /\ HasRow(loyaltyRows[u], type, p) => HasRow(loyaltyRows'[u], type, p)
<1>1. /\ walletRows \in [Users -> Seq(RowType)]
      /\ loyaltyRows \in [Users -> Seq(RowType)]
  BY DEF LinkInv, TypeOK
<1>2. ASSUME NEW rows \in Seq(RowType), NEW row, HasRow(rows, type, p)
      PROVE  HasRow(Append(rows, row), type, p)
  BY <1>2 DEF HasRow
<1>3. \/ walletRows'[u] = walletRows[u]
      \/ \E row : walletRows'[u] = Append(walletRows[u], row)
  BY <1>1, OnlyCallbacksMoveMoney, WalletMoves
     DEF CreditTopUp, SpendWallet, MoveWallet, moneyVars
<1>4. \/ loyaltyRows'[u] = loyaltyRows[u]
      \/ \E row : loyaltyRows'[u] = Append(loyaltyRows[u], row)
  BY <1>1, OnlyCallbacksMoveMoney, WalletMoves DEF EarnPoints, moneyVars
<1> QED
  BY <1>1, <1>2, <1>3, <1>4

LEMMA CountersGrow ==
    ASSUME LinkInv, [Next]_vars, NEW v \in Vouchers, NEW u \in Users
    PROVE  redeemed'[v] >= redeemed[v] /\ userRedeemed'[v][u] >= userRedeemed[v][u]
<1>1. redeemed[v] \in Nat /\ userRedeemed[v] \in [Users -> Nat] /\ userRedeemed[v][u] \in Nat
  BY DEF LinkInv, TypeOK
<1>2. UNCHANGED voucherVars \/ \E p \in Payments : applyVoucherRedemptions(p)
  <2>1. ASSUME NEW c \in Callbacks, ApplyCallback(c)
        PROVE  UNCHANGED voucherVars \/ applyVoucherRedemptions(c.txn)
    BY <2>1 DEF ApplyCallback, applyCapturedPaymentEffects
  <2>2. \A c \in Callbacks : c.txn \in Payments
    BY ConstantsAssumption DEF CallbackType
  <2> QED
    BY <2>1, <2>2 DEF Next, vars, Begin, LookUpAgain, OpenSnapshot, CreateIntentFails,
       CreateIntentWithPayment, CreatePaymentIfMissing, MarkOrderCollected, StartPayment,
       AssignActiveVouchers
<1>3. CASE UNCHANGED voucherVars
  BY <1>1, <1>3 DEF voucherVars
<1>4. ASSUME NEW p \in Payments, applyVoucherRedemptions(p)
      PROVE  redeemed'[v] >= redeemed[v] /\ userRedeemed'[v][u] >= userRedeemed[v][u]
  <2>1. redeemed'[v] \in {redeemed[v], redeemed[v] + 1}
    BY <1>4 DEF applyVoucherRedemptions
  <2>2. userRedeemed'[v] \in {userRedeemed[v], [userRedeemed[v] EXCEPT ![Payer(p)] = @ + 1]}
    BY <1>4 DEF applyVoucherRedemptions
  <2>3. userRedeemed'[v][u] \in {userRedeemed[v][u], userRedeemed[v][u] + 1}
    BY <1>1, <2>2
  <2> QED
    BY <1>1, <2>1, <2>3
<1> QED
  BY <1>2, <1>3, <1>4

LEMMA PaymentKeepsOrder ==
    ASSUME LinkInv, [Next]_vars, NEW p \in Payments, payment[p] # "NONE"
    PROVE  orderOf'[p] = orderOf[p] /\ payment'[p] # "NONE"
<1>1. /\ payment \in [Payments -> PaymentStatus]
      /\ orderOf \in [Payments -> Requests \cup {None}]
  BY DEF LinkInv, TypeOK
<1>2. ASSUME NEW r \in Requests, CreateIntentWithPayment(r) \/ CreatePaymentIfMissing(r)
      PROVE  orderOf'[p] = orderOf[p] /\ payment'[p] # "NONE"
  <2>1. payment[r] = "NONE"
    BY <1>2 DEF CreateIntentWithPayment, CreatePaymentIfMissing, LinkInv, Linked
  <2>2. \A q \in Payments \ {r} : orderOf'[q] = orderOf[q] /\ payment'[q] = payment[q]
    BY <1>1, <1>2 DEF CreateIntentWithPayment, CreatePaymentIfMissing
  <2> QED
    BY <2>1, <2>2
<1>3. ASSUME NEW t \in TopUps, StartPayment(t)
      PROVE  orderOf'[p] = orderOf[p] /\ payment'[p] # "NONE"
  BY <1>1, <1>3 DEF StartPayment
<1>4. ASSUME NEW c \in Callbacks, ApplyCallback(c)
      PROVE  orderOf'[p] = orderOf[p] /\ payment'[p] # "NONE"
  <2>1. c.status # "NONE"
    BY ConstantsAssumption DEF CallbackType
  <2> QED
    BY <1>1, <1>4, <2>1 DEF ApplyCallback
<1> QED
  BY <1>2, <1>3, <1>4
     DEF Next, vars, Begin, LookUpAgain, OpenSnapshot, CreateIntentFails, MarkOrderCollected,
         AssignActiveVouchers, orderVars

\* What a capture did stays done.
LEMMA SettledStays ==
    ASSUME LinkInv, [Next]_vars, NEW p \in Payments, payment[p] # "NONE", Settled(p)
    PROVE  Settled(p)'
<1>1. orderOf'[p] = orderOf[p]
  BY PaymentKeepsOrder
<1>2. Payer(p) \in Users
  BY PayerType
<1>3. CASE orderOf[p] = None
  BY <1>1, <1>2, <1>3, RowsGrow DEF Settled, Payer
<1>4. CASE orderOf[p] # None
  <2>1. p \in Requests /\ orderOf[p] \in Requests
    BY <1>4 DEF LinkInv, Linked, Payments
  <2>2. Cart[p].method = "EWALLET" => HasRow(walletRows'[Payer(p)], "SPEND", p)
    BY <1>2, <1>4, RowsGrow DEF Settled
  <2>3. PointsFor(Amount(p)) > 0 => HasRow(loyaltyRows'[Payer(p)], "EARN", p)
    BY <1>2, <1>4, RowsGrow DEF Settled
  <2>4. \A v \in Cart[orderOf[p]].vouchers :
           redeemed'[v] > 0 /\ userRedeemed'[v][Payer(p)] > 0
    <3> SUFFICES ASSUME NEW v \in Cart[orderOf[p]].vouchers
                 PROVE  redeemed'[v] > 0 /\ userRedeemed'[v][Payer(p)] > 0
      OBVIOUS
    <3>1. v \in Vouchers
      BY <2>1, CartTypes
    <3>2. redeemed[v] > 0 /\ userRedeemed[v][Payer(p)] > 0
      BY <1>4 DEF Settled
    <3>3. redeemed'[v] >= redeemed[v] /\ userRedeemed'[v][Payer(p)] >= userRedeemed[v][Payer(p)]
      BY <1>2, <3>1, CountersGrow
    <3>4. /\ redeemed[v] \in Nat /\ userRedeemed[v][Payer(p)] \in Nat
          /\ redeemed'[v] \in Nat /\ userRedeemed'[v][Payer(p)] \in Nat
      BY <1>2, <3>1, NextLinkInv DEF LinkInv, TypeOK
    <3> QED
      BY <3>2, <3>3, <3>4
  <2>5. Amount(p)' = Amount(p) /\ Payer(p)' = Payer(p)
    BY <1>1 DEF Amount, Payer
  <2> QED
    BY <1>1, <1>4, <2>2, <2>3, <2>4, <2>5 DEF Settled
<1> QED
  BY <1>3, <1>4

LEMMA EffectsSettle ==
    ASSUME LinkInv, LinkInv', NEW p \in Payments, payment[p] # "NONE", UNCHANGED orderOf,
           applyCapturedPaymentEffects(p)
    PROVE  Settled(p)'
<1>1. Payer(p) \in Users /\ Payer(p)' = Payer(p) /\ Amount(p)' = Amount(p)
  BY PayerType DEF Payer, Amount
<1>2. /\ walletRows \in [Users -> Seq(RowType)]
      /\ loyaltyRows \in [Users -> Seq(RowType)]
  BY DEF LinkInv, TypeOK
<1>3. ASSUME NEW rows \in Seq(RowType), NEW type \in {"TOPUP", "SPEND", "EARN"},
             NEW amount, NEW balance
      PROVE  HasRow(Append(rows, Row(type, p, amount, balance)), type, p)
  <2>1. /\ Len(rows) + 1 \in DOMAIN Append(rows, Row(type, p, amount, balance))
        /\ Append(rows, Row(type, p, amount, balance))[Len(rows) + 1]
              = Row(type, p, amount, balance)
    OBVIOUS
  <2> QED
    BY <2>1 DEF HasRow, Row
<1>4. CASE orderOf[p] = None
  <2>1. \E balance : walletRows'[Payer(p)] =
            Append(walletRows[Payer(p)], Row("TOPUP", p, Amount(p), balance))
    BY <1>1, <1>2, <1>4 DEF applyCapturedPaymentEffects, CreditTopUp, MoveWallet
  <2> QED
    BY <1>1, <1>2, <1>3, <1>4, <2>1 DEF Settled
<1>5. CASE orderOf[p] # None
  <2>1. SpendWallet(p) /\ applyVoucherRedemptions(p) /\ EarnPoints(p)
    BY <1>5 DEF applyCapturedPaymentEffects
  <2>2. p \in Requests /\ orderOf[p] \in Requests
    BY <1>5 DEF LinkInv, Linked, Payments
  <2>3. Cart[p].method = "EWALLET" => HasRow(walletRows'[Payer(p)], "SPEND", p)
    <3>1. CASE HasRow(walletRows[Payer(p)], "SPEND", p)
      BY <1>1, <2>1, <3>1 DEF SpendWallet
    <3>2. CASE Cart[p].method = "EWALLET" /\ ~HasRow(walletRows[Payer(p)], "SPEND", p)
      <4>1. MoveWallet(p, "SPEND", -Amount(p))
        BY <2>1, <3>2 DEF SpendWallet
      <4>2. \E balance : walletRows'[Payer(p)] =
                Append(walletRows[Payer(p)], Row("SPEND", p, -Amount(p), balance))
        BY <1>1, <1>2, <4>1 DEF MoveWallet
      <4> QED
        BY <1>1, <1>2, <1>3, <4>2
    <3> QED
      BY <3>1, <3>2
  <2>4. PointsFor(Amount(p)) > 0 => HasRow(loyaltyRows'[Payer(p)], "EARN", p)
    <3> SUFFICES ASSUME PointsFor(Amount(p)) > 0
                 PROVE  HasRow(loyaltyRows'[Payer(p)], "EARN", p)
      OBVIOUS
    <3>0. PointsFor(Amount(p)) # 0
      BY AmountType, PointsType
    <3>1. CASE HasRow(loyaltyRows[Payer(p)], "EARN", p)
      BY <1>1, <2>1, <3>1 DEF EarnPoints
    <3>2. CASE ~HasRow(loyaltyRows[Payer(p)], "EARN", p)
      <4>1. \E balance : loyaltyRows'[Payer(p)] =
                Append(loyaltyRows[Payer(p)], Row("EARN", p, PointsFor(Amount(p)), balance))
        BY <1>1, <1>2, <2>1, <3>0, <3>2 DEF EarnPoints
      <4> QED
        BY <1>1, <1>2, <1>3, <4>1
    <3> QED
      BY <3>1, <3>2
  <2>5. \A v \in Cart[orderOf[p]].vouchers :
           redeemed'[v] > 0 /\ userRedeemed'[v][Payer(p)] > 0
    <3> SUFFICES ASSUME NEW v \in Cart[orderOf[p]].vouchers
                 PROVE  redeemed'[v] > 0 /\ userRedeemed'[v][Payer(p)] > 0
      OBVIOUS
    <3>1. v \in Vouchers
      BY <2>2, CartTypes
    <3>2. redeemed[v] \in Nat /\ userRedeemed[v] \in [Users -> Nat]
      BY <3>1 DEF LinkInv, TypeOK
    <3>3. /\ redeemed'[v] = redeemed[v] + 1
          /\ userRedeemed'[v] = [userRedeemed[v] EXCEPT ![Payer(p)] = @ + 1]
      BY <2>1, <3>1 DEF applyVoucherRedemptions
    <3> QED
      BY <1>1, <3>2, <3>3
  <2> QED
    BY <1>1, <1>5, <2>3, <2>4, <2>5 DEF Settled
<1> QED
  BY <1>4, <1>5

LEMMA NextSettledInv ==
    EventsIdentifyReports /\ SettledInv /\ [Next]_vars => SettledInv'
<1> SUFFICES ASSUME EventsIdentifyReports, SettledInv, [Next]_vars PROVE SettledInv'
  OBVIOUS
<1>1. LinkInv /\ LinkInv' /\ CapturedIsSettled /\ RecordedSettled
  BY NextLinkInv DEF SettledInv
<1>2. \A p \in Payments : payment[p] # "NONE" /\ Settled(p) => Settled(p)'
  BY <1>1, SettledStays
<1>3. \A c \in Callbacks : c.txn \in Payments /\ c.event \in Events
  BY ConstantsAssumption DEF CallbackType
<1>4. payment \in [Payments -> PaymentStatus] /\ payment' \in [Payments -> PaymentStatus]
  BY <1>1 DEF LinkInv, TypeOK
<1>5. CASE UNCHANGED events /\ (\A p \in Payments : payment'[p] = "CAPTURED" => payment[p] = "CAPTURED")
  <2>1. CapturedIsSettled'
    BY <1>1, <1>2, <1>5 DEF CapturedIsSettled
  <2>2. RecordedSettled'
    BY <1>1, <1>2, <1>3, <1>5, PaymentKeepsOrder DEF RecordedSettled
  <2> QED
    BY <1>1, <2>1, <2>2 DEF SettledInv
<1>6. ASSUME NEW c \in Callbacks, ApplyCallback(c) PROVE SettledInv'
  <2>1. /\ payment[c.txn] # "NONE"
        /\ events' = events \cup {c.event}
        /\ payment' = [payment EXCEPT ![c.txn] = c.status]
        /\ UNCHANGED orderOf
    BY <1>6 DEF ApplyCallback
  <2>2. c.status = "CAPTURED" => Settled(c.txn)'
    <3>1. CASE TakesEffect(c)
      BY <1>1, <1>3, <1>6, <2>1, <3>1, EffectsSettle DEF ApplyCallback
    <3>2. CASE c.status = "CAPTURED" /\ c.event \in events
      BY <1>1, <1>2, <1>3, <2>1, <3>2 DEF RecordedSettled
    <3> QED
      BY <3>1, <3>2 DEF TakesEffect
  <2>3. CapturedIsSettled'
    <3> SUFFICES ASSUME NEW p \in Payments, payment'[p] = "CAPTURED" PROVE Settled(p)'
      BY DEF CapturedIsSettled
    <3>1. CASE p = c.txn
      BY <1>4, <2>1, <2>2, <3>1
    <3>2. CASE p # c.txn
      BY <1>1, <1>2, <1>4, <2>1, <3>2 DEF CapturedIsSettled
    <3> QED
      BY <3>1, <3>2
  <2>4. RecordedSettled'
    <3> SUFFICES ASSUME NEW d \in Callbacks, d.event \in events'
                 PROVE  /\ payment'[d.txn] # "NONE"
                        /\ d.status = "CAPTURED" => Settled(d.txn)'
      BY DEF RecordedSettled
    <3>1. CASE d.event \in events
      BY <1>1, <1>2, <1>3, <3>1, PaymentKeepsOrder DEF RecordedSettled
    <3>2. CASE d.event = c.event
      <4>1. d.txn = c.txn /\ d.status = c.status
        BY <3>2 DEF EventsIdentifyReports
      <4> QED
        BY <1>1, <1>3, <2>1, <2>2, <4>1, PaymentKeepsOrder
    <3> QED
      BY <2>1, <3>1, <3>2
  <2> QED
    BY <1>1, <2>3, <2>4 DEF SettledInv
<1>7. \/ UNCHANGED events /\ (\A p \in Payments : payment'[p] = "CAPTURED" => payment[p] = "CAPTURED")
      \/ \E c \in Callbacks : ApplyCallback(c)
  BY <1>4 DEF Next, vars, Begin, LookUpAgain, OpenSnapshot, CreateIntentFails, CreateIntentWithPayment,
     CreatePaymentIfMissing, MarkOrderCollected, StartPayment, AssignActiveVouchers, orderVars
<1> QED
  BY <1>5, <1>6, <1>7

LEMMA InitSettledInv ==
    Init => SettledInv
  BY InitLinkInv DEF Init, SettledInv, CapturedIsSettled, RecordedSettled

\* A payment that stands as captured has had its effects, although a report
\* whose event is recorded only sets the status: the event was recorded in the
\* transaction that applied them (INSERT IGNORE INTO payment_events).
THEOREM CapturesSettle ==
    ASSUME EventsIdentifyReports
    PROVE  Spec => []CapturedIsSettled
<1>1. SettledInv => CapturedIsSettled
  BY DEF SettledInv
<1>2. SettledInv /\ [Next]_vars => SettledInv'
  BY NextSettledInv
<1> QED
  BY <1>1, <1>2, InitSettledInv, PTL DEF Spec

-----------------------------------------------------------------------------
(* Counting redemptions *)

CapturedBy(p) == \E c \in Recorded(p) : c.status = "CAPTURED"

Captured(o) == \E p \in PaymentsOfOrder(o) : CapturedBy(p)

CapturedOrders(v) == {o \in Requests : v \in Cart[o].vouchers /\ Captured(o)}

\* The counters count sets that are finite.
Counted ==
    \A v \in Vouchers :
        /\ IsFiniteSet(CapturedOrders(v)) /\ redeemed[v] = Cardinality(CapturedOrders(v))
        /\ \A u \in Users : userRedeemed[v][u] = Cardinality(RedeemingOrders(v, u))

CountedInv == OrderInv /\ SettledInv /\ (~Recaptured => Counted)

LEMMA RedeemingOfCaptured ==
    ASSUME NEW v \in Vouchers
    PROVE  /\ \A u \in Users : RedeemingOrders(v, u) = {o \in CapturedOrders(v) : Cart[o].user = u}
           /\ UNION {RedeemingOrders(v, u) : u \in Users} = CapturedOrders(v)
<1>1. \A u \in Users : RedeemingOrders(v, u) = {o \in CapturedOrders(v) : Cart[o].user = u}
  BY DEF RedeemingOrders, CapturedOrders, Captured, CapturedBy
<1>2. \A o \in CapturedOrders(v) : Cart[o].user \in Users
  BY CartTypes DEF CapturedOrders
<1> QED
  BY <1>1, <1>2

\* Only a report on a payment records anything of it.
LEMMA ReportsRecord ==
    ASSUME EventsIdentifyReports, NEW c \in Callbacks, ApplyCallback(c), NEW p \in Payments
    PROVE  /\ Recorded(p) \subseteq Recorded(p)'
           /\ p # c.txn => Recorded(p)' = Recorded(p)
           /\ c \in Recorded(c.txn)'
           /\ \A d \in Recorded(p)' \ Recorded(p) : d.event = c.event /\ d.status = c.status
<1>1. events' = events \cup {c.event}
  BY DEF ApplyCallback
<1>2. \A d \in Callbacks : d.event = c.event => d.txn = c.txn /\ d.status = c.status
  BY DEF EventsIdentifyReports
<1> QED
  BY <1>1, <1>2 DEF Recorded

\* The other steps leave what is recorded alone, and so a payment that is made
\* has nothing recorded yet.
LEMMA RecordsStay ==
    ASSUME LinkInv, RecordedSettled, [Next]_vars, UNCHANGED events, NEW o \in Requests
    PROVE  Captured(o)' <=> Captured(o)
<1>1. \A p \in Payments : Recorded(p)' = Recorded(p) /\ (CapturedBy(p)' <=> CapturedBy(p))
  BY DEF Recorded, CapturedBy
<1>2. \A p \in Payments : CapturedBy(p) => payment[p] # "NONE"
  BY DEF RecordedSettled, CapturedBy, Recorded
<1>3. \A p \in Requests : p \in Payments
  BY DEF Payments
<1>4. \A p \in Requests :
         payment[p] # "NONE" => orderOf'[p] = orderOf[p] /\ payment'[p] # "NONE"
  BY <1>3, PaymentKeepsOrder
<1> QED
  BY <1>1, <1>2, <1>3, <1>4 DEF Captured, PaymentsOfOrder

LEMMA CapturesRecord ==
    ASSUME EventsIdentifyReports, LinkInv, NEW c \in Callbacks, ApplyCallback(c),
           NEW o \in Requests
    PROVE  Captured(o)' <=> Captured(o) \/ (c.status = "CAPTURED" /\ orderOf[c.txn] = o)
<1>1. /\ c.txn \in Payments /\ payment[c.txn] # "NONE" /\ c.status # "NONE"
      /\ payment' = [payment EXCEPT ![c.txn] = c.status] /\ UNCHANGED orderOf
  BY ConstantsAssumption DEF CallbackType, ApplyCallback
<1>2. \A p \in Requests : p \in Payments
  BY DEF Payments
<1>3. PaymentsOfOrder(o)' = PaymentsOfOrder(o)
  BY <1>1, <1>2 DEF PaymentsOfOrder, LinkInv, TypeOK
<1>4. \A p \in Payments :
         CapturedBy(p)' <=> CapturedBy(p) \/ (p = c.txn /\ c.status = "CAPTURED")
  BY <1>1, ReportsRecord DEF CapturedBy
<1>5. c.txn \in TopUps => orderOf[c.txn] \notin Requests
  BY ConstantsAssumption DEF LinkInv, Linked, Payments
<1>6. orderOf[c.txn] = o <=> c.txn \in PaymentsOfOrder(o)
  BY <1>1, <1>5 DEF PaymentsOfOrder, Payments
<1>7. \A p \in PaymentsOfOrder(o) : p \in Payments
  BY <1>2 DEF PaymentsOfOrder
<1> QED
  BY <1>3, <1>4, <1>6, <1>7 DEF Captured

\* One capture per payment, as long as the gateway reports it under one event.
LEMMA FirstCapture ==
    ASSUME OrderInv, NEW c \in Callbacks, ApplyCallback(c), TakesEffect(c), ~Recaptured',
           EventsIdentifyReports
    PROVE  \A o \in Requests : orderOf[c.txn] = o => ~Captured(o)
<1> SUFFICES ASSUME NEW p \in PaymentsOfOrder(orderOf[c.txn]), NEW d \in Recorded(p),
                    orderOf[c.txn] \in Requests, d.status = "CAPTURED"
             PROVE  FALSE
  BY DEF Captured, CapturedBy
<1>1. p \in Payments /\ c.txn \in Payments /\ payment[c.txn] # "NONE"
  BY ConstantsAssumption DEF CallbackType, ApplyCallback, PaymentsOfOrder, Payments
<1>2. p = c.txn
  <2>1. c.txn \in Requests
    BY <1>1, ConstantsAssumption DEF OrderInv, LinkInv, Linked, Payments
  <2> QED
    BY <1>1, <2>1 DEF OrderInv, OnePaymentPerOrder, PaymentsOfOrder
<1>3. c \in Recorded(p)' /\ d \in Recorded(p)'
  BY <1>1, <1>2, ReportsRecord
<1>4. d.event # c.event /\ c.status = "CAPTURED"
  BY DEF TakesEffect, Recorded
<1> QED
  BY <1>1, <1>3, <1>4 DEF Recaptured

\* A set to which a step adds one element, or nothing.
LEMMA OneMore ==
    ASSUME NEW S, IsFiniteSet(S), NEW x, x \notin S
    PROVE  /\ IsFiniteSet(S \cup {x}) /\ Cardinality(S \cup {x}) = Cardinality(S) + 1
           /\ IsFiniteSet(S) /\ Cardinality(S) \in Nat
  BY FS_AddElement, FS_CardinalityType

LEMMA NextCounted ==
    ASSUME EventsIdentifyReports, OrderInv, SettledInv, [Next]_vars, ~Recaptured', Counted
    PROVE  Counted'
<1>0. LinkInv /\ RecordedSettled
  BY DEF OrderInv, SettledInv
<1>1. CASE UNCHANGED voucherVars /\ \A o \in Requests : Captured(o)' <=> Captured(o)
  <2>1. \A v \in Vouchers : CapturedOrders(v)' = CapturedOrders(v)
    BY <1>1 DEF CapturedOrders
  <2>2. \A v \in Vouchers, u \in Users : RedeemingOrders(v, u)' = RedeemingOrders(v, u)
    BY <1>1 DEF RedeemingOrders, Captured, CapturedBy
  <2> QED
    BY <1>1, <2>1, <2>2 DEF Counted, voucherVars
<1>2. ASSUME NEW c \in Callbacks, ApplyCallback(c)
      PROVE  Counted'
  <2> DEFINE o == orderOf[c.txn]
  <2>0. /\ c.txn \in Payments /\ payment[c.txn] # "NONE"
        /\ (c.txn \in Requests => o \in Requests) /\ (c.txn \in TopUps => o = None)
    BY <1>0, <1>2, ConstantsAssumption
       DEF LinkInv, Linked, CallbackType, ApplyCallback, Payments
  <2>1. CASE ~(TakesEffect(c) /\ o # None)
    <3>1. UNCHANGED voucherVars
      BY <1>2, <2>1 DEF ApplyCallback, applyCapturedPaymentEffects
    <3>2. ASSUME NEW q \in Requests, c.status = "CAPTURED", o = q
          PROVE  Captured(q)
      <4>1. c.event \in events /\ c.txn \in Requests
        BY <2>0, <2>1, <3>2, ConstantsAssumption DEF TakesEffect, Payments
      <4> QED
        BY <2>0, <3>2, <4>1 DEF Captured, CapturedBy, PaymentsOfOrder, Recorded
    <3>3. \A q \in Requests : Captured(q)' <=> Captured(q)
      BY <1>0, <1>2, <3>2, CapturesRecord
    <3> QED
      BY <1>1, <3>1, <3>3
  <2>2. CASE TakesEffect(c) /\ o # None
    <3>1. o \in Requests /\ c.txn \in Requests /\ Payer(c.txn) = Cart[o].user /\ Cart[o].user \in Users
      BY <1>0, <2>0, <2>2, CartTypes, ConstantsAssumption DEF Payments, Payer, LinkInv, Linked
    <3>2. applyVoucherRedemptions(c.txn)
      BY <1>2, <2>2 DEF ApplyCallback, applyCapturedPaymentEffects
    <3>3. ~Captured(o)
      BY <1>2, <2>2, <3>1, FirstCapture
    <3>4. \A q \in Requests : Captured(q)' <=> Captured(q) \/ q = o
      BY <1>0, <1>2, <2>2, CapturesRecord DEF TakesEffect
    <3> HIDE DEF o
    <3>5. SUFFICES ASSUME NEW v \in Vouchers
                   PROVE  /\ IsFiniteSet(CapturedOrders(v))'
                          /\ redeemed'[v] = Cardinality(CapturedOrders(v))'
                          /\ \A u \in Users :
                                userRedeemed'[v][u] = Cardinality(RedeemingOrders(v, u))'
      BY DEF Counted
    <3>6. redeemed[v] \in Nat /\ userRedeemed[v] \in [Users -> Nat]
      BY <1>0 DEF LinkInv, TypeOK
    <3>7. CASE v \notin Cart[o].vouchers
      <4>1. redeemed'[v] = redeemed[v] /\ userRedeemed'[v] = userRedeemed[v]
        BY <3>2, <3>7 DEF applyVoucherRedemptions, o
      <4>2. CapturedOrders(v)' = CapturedOrders(v)
        BY <3>4, <3>7 DEF CapturedOrders
      <4>3. \A u \in Users : RedeemingOrders(v, u)' = RedeemingOrders(v, u)
        BY <3>4, <3>7 DEF RedeemingOrders, Captured, CapturedBy
      <4> QED
        BY <4>1, <4>2, <4>3 DEF Counted
    <3>8. CASE v \in Cart[o].vouchers
      <4>1. /\ redeemed'[v] = redeemed[v] + 1
            /\ userRedeemed'[v] = [userRedeemed[v] EXCEPT ![Cart[o].user] = @ + 1]
        BY <3>1, <3>2, <3>8 DEF applyVoucherRedemptions, o
      <4>2. CapturedOrders(v)' = CapturedOrders(v) \cup {o} /\ o \notin CapturedOrders(v)
        BY <3>1, <3>3, <3>4, <3>8 DEF CapturedOrders
      <4>3. /\ IsFiniteSet(CapturedOrders(v)) /\ redeemed[v] = Cardinality(CapturedOrders(v))
            /\ \A u \in Users : userRedeemed[v][u] = Cardinality(RedeemingOrders(v, u))
        BY DEF Counted
      <4>4. IsFiniteSet(CapturedOrders(v))' /\ redeemed'[v] = Cardinality(CapturedOrders(v))'
        BY <4>1, <4>2, <4>3, OneMore
      <4>5. ASSUME NEW u \in Users
            PROVE  userRedeemed'[v][u] = Cardinality(RedeemingOrders(v, u))'
        <5>1. CASE u # Cart[o].user
          <6>1. RedeemingOrders(v, u)' = RedeemingOrders(v, u)
            BY <3>4, <5>1 DEF RedeemingOrders, Captured, CapturedBy
          <6> QED
            BY <3>6, <4>1, <4>3, <5>1, <6>1
        <5>2. CASE u = Cart[o].user
          <6>1. /\ RedeemingOrders(v, u)' = RedeemingOrders(v, u) \cup {o}
                /\ o \notin RedeemingOrders(v, u)
            BY <3>1, <3>3, <3>4, <3>8, <5>2 DEF RedeemingOrders, Captured, CapturedBy
          <6>2. IsFiniteSet(RedeemingOrders(v, u))
            BY <4>3, RedeemingOfCaptured, FS_Subset
          <6>3. Cardinality(RedeemingOrders(v, u)') = Cardinality(RedeemingOrders(v, u)) + 1
            BY <6>1, <6>2, OneMore
          <6>4. userRedeemed'[v][u] = userRedeemed[v][u] + 1
            BY <3>6, <4>1, <5>2
          <6> QED
            BY <4>3, <6>3, <6>4
        <5> QED
          BY <5>1, <5>2
      <4> QED
        BY <4>4, <4>5
    <3> QED
      BY <3>7, <3>8
  <2> QED
    BY <2>1, <2>2
<1>3. CASE \A c \in Callbacks : ~ApplyCallback(c)
  <2>1. UNCHANGED <<events, voucherVars>>
    BY <1>3 DEF Next, vars, Begin, LookUpAgain, OpenSnapshot, CreateIntentFails, CreateIntentWithPayment,
       CreatePaymentIfMissing, MarkOrderCollected, StartPayment, AssignActiveVouchers, orderVars
  <2> QED
    BY <1>0, <1>1, <2>1, RecordsStay
<1> QED
  BY <1>2, <1>3

LEMMA RecapturesStay ==
    ASSUME [Next]_vars, Recaptured
    PROVE  Recaptured'
<1>1. events \subseteq events'
  BY DEF Next, vars, Begin, LookUpAgain, OpenSnapshot, CreateIntentFails, CreateIntentWithPayment, orderVars,
         CreatePaymentIfMissing, MarkOrderCollected, StartPayment, AssignActiveVouchers,
         ApplyCallback
<1> QED
  BY <1>1 DEF Recaptured, Recorded

LEMMA InitCounted ==
    ASSUME Init
    PROVE  Counted
<1>1. \A o \in Requests : PaymentsOfOrder(o) = {}
  BY DEF Init, PaymentsOfOrder, Payments
<1>2. \A v \in Vouchers : CapturedOrders(v) = {} /\ \A u \in Users : RedeemingOrders(v, u) = {}
  BY <1>1 DEF CapturedOrders, Captured, RedeemingOrders
<1> QED
  BY <1>2, FS_EmptySet DEF Counted, Init

\* The counters of a voucher, one row per voucher and one per user, count the same
\* thing: each captured order that uses it, once, as long as the gateway reports a
\* capture under one event (applyVoucherRedemptions increments both, whatever the
\* history of the orders and however often a report is repeated).
THEOREM CountersCountOrders ==
    ASSUME EventsIdentifyReports
    PROVE  Spec => []RedemptionsCounted
<1>1. Init => CountedInv
  BY InitOrderInv, InitSettledInv, InitCounted DEF CountedInv
<1>2. CountedInv /\ [Next]_vars => CountedInv'
  BY NextOrderInv, NextSettledInv, RecapturesStay, NextCounted DEF CountedInv
<1>3. CountedInv => RedemptionsCounted
  BY RedeemingOfCaptured DEF CountedInv, Counted, RedemptionsCounted
<1> QED
  BY <1>1, <1>2, <1>3, PTL DEF Spec

-----------------------------------------------------------------------------
(* Reservations *)

\* A payment whose reports all carry one event has the status that event gave it;
\* one without a report is undecided.
LastVerdict ==
    \A p \in Payments :
        /\ Recorded(p) = {} => payment[p] \in {"NONE", "PENDING"}
        /\ \A c \in Recorded(p) :
              (\A d \in Recorded(p) : d.event = c.event) => payment[p] = c.status

Stored == {o \in Requests : intent[o] # "NONE"}

\* A transaction that holds the row of a voucher has seen all orders that wait with
\* it: nobody else gets past that row.
Snapshots ==
    \A r \in Requests : pc[r] = "counting" =>
        /\ seen[r] \subseteq Stored
        /\ DecidedOnce =>
              \A v \in CountedFirst : v \in Cart[r].vouchers => PendingOrders(v) \subseteq seen[r]

ReservationInv ==
    /\ OrderInv /\ SettledInv /\ LastVerdict /\ Snapshots
    /\ IsFiniteSet(Stored) /\ ReservationsWithinLimits

LEMMA OnlyReportsDecide ==
    ASSUME LinkInv, [Next]_vars, \A c \in Callbacks : ~ApplyCallback(c)
    PROVE  /\ UNCHANGED <<events, voucherVars>>
           /\ \A p \in Payments :
                 payment'[p] # payment[p] => payment[p] = "NONE" /\ payment'[p] = "PENDING"
<1>1. /\ payment \in [Payments -> PaymentStatus]
      /\ \A r \in Requests : r \in Payments /\ (payment[r] # "NONE" => pc[r] = "answered")
  BY DEF LinkInv, TypeOK, Linked, Payments
<1> QED
  BY <1>1 DEF Next, vars, Begin, LookUpAgain, OpenSnapshot, CreateIntentFails, CreateIntentWithPayment,
     CreatePaymentIfMissing, MarkOrderCollected, StartPayment, AssignActiveVouchers, orderVars

LEMMA NextLastVerdict ==
    ASSUME EventsIdentifyReports, LinkInv, RecordedSettled, LastVerdict, [Next]_vars
    PROVE  LastVerdict'
<1>1. CASE \A c \in Callbacks : ~ApplyCallback(c)
  <2>1. \A p \in Payments : Recorded(p)' = Recorded(p)
    BY <1>1, OnlyReportsDecide DEF Recorded
  <2>2. \A p \in Payments : payment[p] = "NONE" => Recorded(p) = {}
    BY DEF RecordedSettled, Recorded
  <2>3. \A p \in Payments :
           payment'[p] # payment[p] => Recorded(p) = {} /\ payment'[p] = "PENDING"
    BY <1>1, <2>2, OnlyReportsDecide
  <2> QED
    BY <2>1, <2>3 DEF LastVerdict
<1>2. ASSUME NEW c \in Callbacks, ApplyCallback(c)
      PROVE  LastVerdict'
  <2>1. /\ payment \in [Payments -> PaymentStatus] /\ c.txn \in Payments
        /\ payment' = [payment EXCEPT ![c.txn] = c.status]
    BY <1>2, ConstantsAssumption DEF LinkInv, TypeOK, ApplyCallback, CallbackType
  <2>2. ASSUME NEW p \in Payments, p # c.txn
        PROVE  payment'[p] = payment[p] /\ Recorded(p)' = Recorded(p)
    BY <1>2, <2>1, <2>2, ReportsRecord
  <2>3. payment'[c.txn] = c.status /\ c \in Recorded(c.txn)'
    BY <1>2, <2>1, ReportsRecord
  <2>4. \A d \in Recorded(c.txn)' : d.event = c.event => d.status = c.status
    BY DEF EventsIdentifyReports, Recorded
  <2> QED
    BY <2>2, <2>3, <2>4 DEF LastVerdict
<1> QED
  BY <1>1, <1>2

\* Orders are stored one at a time.
LEMMA StoredGrows ==
    ASSUME LinkInv, [Next]_vars
    PROVE  Stored' \subseteq Stored \/ \E r \in Requests : Stored' \subseteq Stored \cup {r}
<1>1. intent \in [Requests -> OrderStatus] /\ orderOf \in [Payments -> Requests \cup {None}]
  BY DEF LinkInv, TypeOK
<1>2. ASSUME NEW c \in Callbacks, ApplyCallback(c)
      PROVE  Stored' \subseteq Stored
  <2>1. /\ c.txn \in Payments /\ payment[c.txn] # "NONE"
        /\ intent' = IF orderOf[c.txn] = None THEN intent
                     ELSE [intent EXCEPT ![orderOf[c.txn]] = OrderStatusFor(c.status)]
    BY <1>2, ConstantsAssumption DEF ApplyCallback, CallbackType
  <2>2. orderOf[c.txn] # None => orderOf[c.txn] \in Stored
    BY <2>1 DEF LinkInv, Linked, Payments, Stored
  <2> QED
    BY <1>1, <2>1, <2>2 DEF Stored
<1>3. ASSUME NEW r \in Requests, CreateIntentWithPayment(r)
      PROVE  Stored' \subseteq Stored \cup {r}
  BY <1>1, <1>3 DEF CreateIntentWithPayment, Stored
<1>4. ASSUME NEW r \in Requests, MarkOrderCollected(r)
      PROVE  Stored' \subseteq Stored
  BY <1>1, <1>4 DEF MarkOrderCollected, Stored
<1>5. CASE UNCHANGED intent
  BY <1>5 DEF Stored
<1> QED
  BY <1>2, <1>3, <1>4, <1>5 DEF Next, vars, Begin, LookUpAgain, OpenSnapshot, CreateIntentFails, orderVars,
     CreatePaymentIfMissing, StartPayment, AssignActiveVouchers

\* What a report does to the order that waits for it.
LEMMA FirstVerdict ==
    ASSUME EventsIdentifyReports, OrderInv, LastVerdict, DecidedOnce',
           NEW c \in Callbacks, ApplyCallback(c), NEW o \in Requests, orderOf[c.txn] = o
    PROVE  \/ c.event \in events /\ payment[c.txn] = c.status
           \/ c.event \notin events /\ intent[o] = "PAYMENT_PENDING"
<1>1. /\ c.txn \in Payments /\ payment[c.txn] # "NONE" /\ c.txn \in Requests /\ o # None
  BY ConstantsAssumption DEF ApplyCallback, CallbackType, OrderInv, LinkInv, Linked, Payments
<1>2. /\ Recorded(c.txn) \subseteq Recorded(c.txn)' /\ c \in Recorded(c.txn)'
      /\ \A d \in Recorded(c.txn)' : d.event = c.event
  BY <1>1, ReportsRecord DEF DecidedOnce
<1>3. CASE c.event \in events
  <2>1. c \in Recorded(c.txn)
    BY <1>3 DEF Recorded
  <2> QED
    BY <1>1, <1>2, <1>3, <2>1 DEF LastVerdict
<1>4. CASE c.event \notin events
  <2>1. Recorded(c.txn) = {}
    BY <1>2, <1>4 DEF Recorded
  <2>2. payment[c.txn] = "PENDING"
    BY <1>1, <2>1 DEF LastVerdict
  <2> QED
    BY <1>1, <1>4, <2>2 DEF OrderInv, StatusesAgree
<1> QED
  BY <1>3, <1>4

\* No report makes an order wait again.
LEMMA NoneRevived ==
    ASSUME EventsIdentifyReports, OrderInv, LastVerdict, DecidedOnce',
           NEW c \in Callbacks, ApplyCallback(c)
    PROVE  Unpaid' \subseteq Unpaid
<1> DEFINE o == orderOf[c.txn]
<1>1. /\ intent \in [Requests -> OrderStatus] /\ c.txn \in Payments /\ payment[c.txn] # "NONE"
      /\ o = None \/ o \in Requests
      /\ c.status \in {"CAPTURED", "AUTHORIZED", "FAILED", "CANCELLED"}
      /\ intent' = IF o = None THEN intent
                   ELSE [intent EXCEPT ![o] = OrderStatusFor(c.status)]
  BY ConstantsAssumption DEF OrderInv, LinkInv, TypeOK, CallbackType, ApplyCallback
<1>2. CASE o = None
  BY <1>1, <1>2 DEF Unpaid
<1>3. CASE o # None /\ intent[o] = "PAYMENT_PENDING"
  BY <1>1, <1>3 DEF Unpaid
<1>4. CASE o # None /\ payment[c.txn] = c.status
  <2>1. c.status \in {"PENDING", "AUTHORIZED"} <=> intent[o] = "PAYMENT_PENDING"
    BY <1>1, <1>4 DEF OrderInv, StatusesAgree
  <2>2. OrderStatusFor(c.status) = "PAYMENT_PENDING" => c.status = "AUTHORIZED"
    BY <1>1 DEF OrderStatusFor
  <2> QED
    BY <1>1, <1>4, <2>1, <2>2 DEF Unpaid
<1> QED
  BY <1>1, <1>2, <1>3, <1>4, FirstVerdict

LEMMA NextSnapshots ==
    ASSUME EventsIdentifyReports, OrderInv, LastVerdict, Snapshots, [Next]_vars
    PROVE  Snapshots'
<1>0. /\ LinkInv /\ intent \in [Requests -> OrderStatus]
      /\ pc \in [Requests -> {"idle", "priced", "counting", "failed", "unpaid", "answered",
                              "rejected"}]
      /\ seen \in [Requests -> SUBSET Requests]
  BY DEF OrderInv, LinkInv, TypeOK
<1>1. events \subseteq events' /\ Stored \subseteq Stored'
  <2>1. ASSUME NEW c \in Callbacks, ApplyCallback(c)
        PROVE  events \subseteq events' /\ Stored \subseteq Stored'
    <3>1. OrderStatusFor(c.status) # "NONE"
      BY ConstantsAssumption DEF CallbackType, OrderStatusFor
    <3> QED
      BY <1>0, <2>1, <3>1 DEF ApplyCallback, Stored
  <2> QED
    BY <1>0, <2>1 DEF Next, vars, Begin, LookUpAgain, OpenSnapshot, CreateIntentFails,
       CreateIntentWithPayment, CreatePaymentIfMissing, MarkOrderCollected, StartPayment,
       AssignActiveVouchers, orderVars, Stored
<1>2. DecidedOnce' => DecidedOnce
  BY <1>1 DEF DecidedOnce, Recorded
<1> SUFFICES ASSUME NEW r \in Requests, pc'[r] = "counting"
             PROVE  /\ seen'[r] \subseteq Stored'
                    /\ DecidedOnce' =>
                          \A v \in CountedFirst : v \in Cart[r].vouchers =>
                              PendingOrders(v)' \subseteq seen'[r]
  BY DEF Snapshots, CountedFirst, CountedFirstBy
<1>3. CASE OpenSnapshot(r)
  BY <1>0, <1>3 DEF OpenSnapshot, Unpaid, Stored, PendingOrders, Using, orderVars
<1>4. CASE ~OpenSnapshot(r)
  <2>1. pc[r] = "counting" /\ seen'[r] = seen[r]
    BY <1>0, <1>4 DEF Next, vars, Begin, AnswerWithExisting, LookUpAgain, OpenSnapshot,
       CreateIntentFails, CreateIntentWithPayment, CreatePaymentIfMissing, MarkOrderCollected,
       StartPayment, AssignActiveVouchers, ApplyCallback, requestVars
  <2>2. ASSUME DecidedOnce', NEW v \in CountedFirst, v \in Cart[r].vouchers
        PROVE  PendingOrders(v)' \subseteq PendingOrders(v)
    <3>1. v \in Held(r)
      BY <2>1, <2>2 DEF CountedFirst, Held
    <3>2. ASSUME NEW q \in Requests, CreateIntentWithPayment(q)
          PROVE  PendingOrders(v)' \subseteq PendingOrders(v)
      <4>1. q # r
        BY <1>0, <3>2 DEF CreateIntentWithPayment
      <4>2. v \notin Cart[q].vouchers
        BY <3>1, <3>2, <4>1 DEF CreateIntentWithPayment, Free
      <4>3. intent' = [intent EXCEPT ![q] = "PAYMENT_PENDING"]
        BY <3>2 DEF CreateIntentWithPayment
      <4> QED
        BY <1>0, <4>2, <4>3 DEF PendingOrders, Using, Unpaid
    <3>3. ASSUME NEW q \in Requests, MarkOrderCollected(q)
          PROVE  PendingOrders(v)' \subseteq PendingOrders(v)
      BY <1>0, <3>3 DEF MarkOrderCollected, PendingOrders, Using, Unpaid
    <3>4. ASSUME NEW c \in Callbacks, ApplyCallback(c)
          PROVE  PendingOrders(v)' \subseteq PendingOrders(v)
      BY <2>2, <3>4, NoneRevived DEF PendingOrders, Using
    <3>5. CASE UNCHANGED intent
      BY <3>5 DEF PendingOrders, Using, Unpaid
    <3> QED
      BY <3>2, <3>3, <3>4, <3>5 DEF Next, vars, Begin, LookUpAgain, OpenSnapshot,
         CreateIntentFails, CreatePaymentIfMissing, StartPayment, AssignActiveVouchers, orderVars
  <2> QED
    BY <1>1, <1>2, <2>1, <2>2 DEF Snapshots
<1> QED
  BY <1>3, <1>4

LEMMA NextReservations ==
    ASSUME EventsIdentifyReports, ReservationInv, [Next]_vars, DecidedOnce',
           NEW v \in Limited \cap CountedFirst
    PROVE  redeemed'[v] + Cardinality(PendingOrders(v))' <= MaxRedemptions[v]
<1>0. /\ LinkInv /\ intent \in [Requests -> OrderStatus]
      /\ v \in Vouchers /\ redeemed[v] \in Nat /\ MaxRedemptions[v] \in Nat
  BY ConstantsAssumption DEF ReservationInv, OrderInv, LinkInv, TypeOK
<1>1. IsFiniteSet(PendingOrders(v)) /\ Cardinality(PendingOrders(v)) \in Nat
  <2>1. PendingOrders(v) \in SUBSET Stored
    BY DEF PendingOrders, Using, Unpaid, Stored
  <2> QED
    BY <2>1, FS_Subset, FS_CardinalityType DEF ReservationInv
<1>2. DecidedOnce /\ redeemed[v] + Cardinality(PendingOrders(v)) <= MaxRedemptions[v]
  <2>1. events \subseteq events'
    BY DEF Next, vars, Begin, LookUpAgain, OpenSnapshot, CreateIntentFails, CreateIntentWithPayment,
       CreatePaymentIfMissing, MarkOrderCollected, StartPayment, AssignActiveVouchers,
       ApplyCallback, orderVars
  <2>2. DecidedOnce
    BY <2>1 DEF DecidedOnce, Recorded
  <2> QED
    BY <2>2 DEF ReservationInv, ReservationsWithinLimits
<1>3. CASE redeemed'[v] = redeemed[v] /\ PendingOrders(v)' = PendingOrders(v)
  BY <1>2, <1>3
<1>4. ASSUME NEW r \in Requests, CreateIntentWithPayment(r)
      PROVE  redeemed'[v] + Cardinality(PendingOrders(v))' <= MaxRedemptions[v]
  <2>1. intent' = [intent EXCEPT ![r] = "PAYMENT_PENDING"] /\ UNCHANGED redeemed
    BY <1>4 DEF CreateIntentWithPayment, voucherVars
  <2>2. CASE v \notin Cart[r].vouchers
    BY <1>0, <1>3, <2>1, <2>2 DEF PendingOrders, Using, Unpaid
  <2>3. CASE v \in Cart[r].vouchers
    <3>1. redeemed[v] + Cardinality(PendingOrders(v)) < MaxRedemptions[v]
      <4>1. /\ pc[r] = "counting"
            /\ redeemed[v] + Cardinality(Using(v, seen[r])) < MaxRedemptions[v]
        BY <1>4, <2>3 DEF CreateIntentWithPayment, CanCreate, WithinLimits
      <4>2. PendingOrders(v) \subseteq Using(v, seen[r]) /\ Using(v, seen[r]) \subseteq Stored
        BY <1>2, <2>3, <4>1 DEF ReservationInv, Snapshots, PendingOrders, Using
      <4>3. /\ Cardinality(PendingOrders(v)) <= Cardinality(Using(v, seen[r]))
            /\ Cardinality(Using(v, seen[r])) \in Nat
        BY <4>2, FS_Subset, FS_CardinalityType DEF ReservationInv
      <4> QED
        BY <1>0, <1>1, <4>1, <4>3
    <3>2. intent[r] = "NONE"
      BY <1>4 DEF CreateIntentWithPayment, CanCreate, FindIntentByIdempotency
    <3>3. PendingOrders(v)' = PendingOrders(v) \cup {r} /\ r \notin PendingOrders(v)
      BY <1>0, <2>1, <2>3, <3>2 DEF PendingOrders, Using, Unpaid
    <3>4. Cardinality(PendingOrders(v)') = Cardinality(PendingOrders(v)) + 1
      BY <1>1, <3>3, OneMore
    <3> QED
      BY <1>0, <1>1, <2>1, <3>1, <3>4
  <2> QED
    BY <2>2, <2>3
<1>5. ASSUME NEW c \in Callbacks, ApplyCallback(c)
      PROVE  redeemed'[v] + Cardinality(PendingOrders(v))' <= MaxRedemptions[v]
  <2> DEFINE o == orderOf[c.txn]
  <2>0. /\ c.txn \in Payments /\ payment[c.txn] # "NONE"
        /\ (o = None \/ o \in Requests)
        /\ c.status \in {"CAPTURED", "AUTHORIZED", "FAILED", "CANCELLED"}
        /\ intent' = IF o = None THEN intent
                     ELSE [intent EXCEPT ![o] = OrderStatusFor(c.status)]
    BY <1>0, <1>5, ConstantsAssumption DEF LinkInv, TypeOK, CallbackType, ApplyCallback
  <2>1. CASE o = None
    <3>1. UNCHANGED <<intent, redeemed>>
      BY <1>5, <2>0, <2>1 DEF ApplyCallback, applyCapturedPaymentEffects, voucherVars
    <3> QED
      BY <1>3, <3>1 DEF PendingOrders, Using, Unpaid
  <2>2. CASE o \in Requests /\ c.event \in events /\ payment[c.txn] = c.status
    <3>1. redeemed' = redeemed
      BY <1>5, <2>2 DEF ApplyCallback, TakesEffect, voucherVars
    <3>2. /\ o # None
          /\ c.status = "CAPTURED" <=> intent[o] \in {"READY_TO_COLLECT", "COMPLETED"}
          /\ c.status \in {"PENDING", "AUTHORIZED"} <=> intent[o] = "PAYMENT_PENDING"
      BY <2>0, <2>2, ConstantsAssumption DEF ReservationInv, OrderInv, StatusesAgree, Payments
    <3>3. intent'[o] = "PAYMENT_PENDING" <=> intent[o] = "PAYMENT_PENDING"
      BY <1>0, <2>0, <2>2, <3>2 DEF OrderStatusFor
    <3>4. \A q \in Requests : q # o => intent'[q] = intent[q]
      BY <1>0, <2>0
    <3>5. PendingOrders(v)' = PendingOrders(v)
      BY <3>3, <3>4 DEF PendingOrders, Using, Unpaid
    <3> QED
      BY <1>3, <3>1, <3>5
  <2>3. CASE o \in Requests /\ c.event \notin events /\ intent[o] = "PAYMENT_PENDING"
    <3>0. o # None
      BY <2>3, ConstantsAssumption DEF Payments
    <3>1. CASE c.status = "AUTHORIZED"
      <4>1. redeemed' = redeemed
        BY <1>5, <3>1 DEF ApplyCallback, TakesEffect, voucherVars
      <4>2. \A q \in Requests : intent'[q] = intent[q]
        BY <1>0, <2>0, <2>3, <3>1 DEF OrderStatusFor
      <4>3. PendingOrders(v)' = PendingOrders(v)
        BY <4>2 DEF PendingOrders, Using, Unpaid
      <4> QED
        BY <1>3, <4>1, <4>3
    <3>2. CASE c.status # "AUTHORIZED"
      <4>1. PendingOrders(v)' = PendingOrders(v) \ {o}
        <5>1. intent'[o] # "PAYMENT_PENDING" /\ \A q \in Requests : q # o => intent'[q] = intent[q]
          BY <1>0, <2>0, <2>3, <3>0, <3>2 DEF OrderStatusFor
        <5> QED
          BY <5>1 DEF PendingOrders, Using, Unpaid
      <4>2. o \in PendingOrders(v) <=> v \in Cart[o].vouchers
        BY <2>3 DEF PendingOrders, Using, Unpaid
      <4>3. redeemed'[v] \in {redeemed[v], redeemed[v] + 1}
            /\ (redeemed'[v] = redeemed[v] + 1 => v \in Cart[o].vouchers)
        <5>1. UNCHANGED redeemed \/ applyVoucherRedemptions(c.txn)
          BY <1>5 DEF ApplyCallback, applyCapturedPaymentEffects, voucherVars
        <5>2. CASE UNCHANGED redeemed
          BY <1>0, <5>2
        <5>3. CASE applyVoucherRedemptions(c.txn)
          BY <1>0, <5>3 DEF applyVoucherRedemptions
        <5> QED
          BY <5>1, <5>2, <5>3
      <4>4. Cardinality(PendingOrders(v)') = IF o \in PendingOrders(v)
                                             THEN Cardinality(PendingOrders(v)) - 1
                                             ELSE Cardinality(PendingOrders(v))
        BY <1>1, <4>1, FS_RemoveElement
      <4> HIDE DEF o
      <4> QED
        BY <1>0, <1>1, <1>2, <4>2, <4>3, <4>4
    <3> QED
      BY <3>1, <3>2
  <2> QED
    BY <1>5, <2>0, <2>1, <2>2, <2>3, FirstVerdict DEF ReservationInv
<1>6. ASSUME NEW r \in Requests, MarkOrderCollected(r)
      PROVE  redeemed'[v] + Cardinality(PendingOrders(v))' <= MaxRedemptions[v]
  <2>1. /\ redeemed' = redeemed
        /\ \A q \in Requests : intent'[q] = "PAYMENT_PENDING" <=> intent[q] = "PAYMENT_PENDING"
    BY <1>0, <1>6 DEF MarkOrderCollected, voucherVars
  <2>2. PendingOrders(v)' = PendingOrders(v)
    BY <2>1 DEF PendingOrders, Using, Unpaid
  <2> QED
    BY <1>3, <2>1, <2>2
<1>7. CASE UNCHANGED <<intent, redeemed>>
  <2>1. PendingOrders(v)' = PendingOrders(v)
    BY <1>7 DEF PendingOrders, Using, Unpaid
  <2> QED
    BY <1>3, <1>7, <2>1
<1> QED
  BY <1>4, <1>5, <1>6, <1>7 DEF Next, vars, Begin, LookUpAgain, OpenSnapshot, CreateIntentFails, orderVars,
     CreatePaymentIfMissing, StartPayment, AssignActiveVouchers, voucherVars

\* The orders that await payment hold real reservations of a voucher that every
\* checkout counts before the others of its stack: with those already redeemed they
\* are within max_redemptions, whoever commits between the count and the end of a
\* transaction, as long as the gateway decides each payment once. (Of other vouchers
\* enforceVoucherRedemptionLimits may overlook an order that its snapshot has not.)
THEOREM ReservationsAreReal ==
    ASSUME EventsIdentifyReports
    PROVE  Spec => []ReservationsWithinLimits
<1>1. ASSUME Init
      PROVE  ReservationInv
  <2>1. /\ \A v \in Vouchers : redeemed[v] = 0 /\ PendingOrders(v) = {}
        /\ Stored = {} /\ \A p \in Payments : payment[p] = "NONE" /\ Recorded(p) = {}
    BY <1>1 DEF Init, PendingOrders, Using, Unpaid, Stored, Recorded
  <2>2. \A v \in Limited : v \in Vouchers /\ MaxRedemptions[v] \in Nat
    BY ConstantsAssumption
  <2>3. ReservationsWithinLimits
    BY <2>1, <2>2, FS_EmptySet DEF ReservationsWithinLimits
  <2> QED
    BY <1>1, <2>1, <2>3, InitOrderInv, InitSettledInv, FS_EmptySet
       DEF ReservationInv, LastVerdict, Snapshots, Init
<1>2. ASSUME ReservationInv, [Next]_vars
      PROVE  ReservationInv'
  <2>1. OrderInv' /\ SettledInv' /\ LastVerdict' /\ Snapshots'
    BY <1>2, NextOrderInv, NextSettledInv, NextLastVerdict, NextSnapshots
       DEF ReservationInv, SettledInv
  <2>2. IsFiniteSet(Stored')
    BY <1>2, StoredGrows, FS_AddElement, FS_Subset DEF ReservationInv, SettledInv
  <2>3. ReservationsWithinLimits'
    BY <1>2, NextReservations DEF ReservationsWithinLimits, CountedFirst, CountedFirstBy
  <2> QED
    BY <2>1, <2>2, <2>3 DEF ReservationInv
<1>3. ReservationInv => ReservationsWithinLimits
  BY DEF ReservationInv
<1> QED
  BY <1>1, <1>2, <1>3, PTL DEF Spec
=============================================================================
