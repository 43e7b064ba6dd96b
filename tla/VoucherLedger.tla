---------------------------- MODULE VoucherLedger ----------------------------
(***************************************************************************)
(* What voucher limits promise: an order that uses vouchers reserves all   *)
(* of them at once, within their limits; a reservation is later redeemed   *)
(* or given back, all vouchers of the order together.                      *)
(***************************************************************************)
EXTENDS Integers, FiniteSets

CONSTANTS
    Orders,
    Users,
    Vouchers,
    UserOf,          \* UserOf[o]: who places order o
    Applied,         \* Applied[o]: the vouchers order o uses
    Limited,         \* vouchers whose max_redemptions is not NULL
    LimitedPerUser,  \* vouchers whose max_redemptions_per_user is not NULL
    MaxRedemptions,  \* [Vouchers -> Nat], meaningful on Limited
    MaxPerUser       \* [Vouchers -> Nat], meaningful on LimitedPerUser

VARIABLES
    held,          \* the orders whose vouchers are reserved
    redeemed,      \* how often each voucher was redeemed
    userRedeemed   \* how often each voucher was redeemed by each user

ledger == <<held, redeemed, userRedeemed>>

Holding(v) == {o \in held : v \in Applied[o]}
HoldingOf(v, u) == {o \in Holding(v) : UserOf[o] = u}

CanReserve(o) ==
    \A v \in Applied[o] :
        /\ v \in Limited =>
              redeemed[v] + Cardinality(Holding(v)) < MaxRedemptions[v]
        /\ v \in LimitedPerUser =>
              userRedeemed[v][UserOf[o]] + Cardinality(HoldingOf(v, UserOf[o])) < MaxPerUser[v]

LedgerInit ==
    /\ held = {}
    /\ redeemed = [v \in Vouchers |-> 0]
    /\ userRedeemed = [v \in Vouchers |-> [u \in Users |-> 0]]

Reserve(o) ==
    /\ o \notin held
    /\ CanReserve(o)
    /\ held' = held \cup {o}
    /\ UNCHANGED <<redeemed, userRedeemed>>

Release(o) ==
    /\ o \in held
    /\ held' = held \ {o}
    /\ UNCHANGED <<redeemed, userRedeemed>>

Redeem(o) ==
    /\ o \in held
    /\ held' = held \ {o}
    /\ redeemed' = [v \in Vouchers |-> redeemed[v] + (IF v \in Applied[o] THEN 1 ELSE 0)]
    /\ userRedeemed' = [v \in Vouchers |-> [u \in Users |->
          userRedeemed[v][u] + (IF v \in Applied[o] /\ u = UserOf[o] THEN 1 ELSE 0)]]

LedgerNext == \E o \in Orders : Reserve(o) \/ Release(o) \/ Redeem(o)

LedgerSpec == LedgerInit /\ [][LedgerNext]_ledger
=============================================================================
