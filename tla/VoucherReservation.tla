-------------------------- MODULE VoucherReservation --------------------------
(***************************************************************************)
(* The statements inside two database transactions that touch the same     *)
(* vouchers: CreateIntentWithPayment with enforceVoucherRedemptionLimits   *)
(* (checkout/repository.go), and the redemption of a captured order        *)
(* (applyVoucherRedemptions, payments/repository.go).                      *)
(*                                                                         *)
(* MySQL runs them at REPEATABLE READ: SELECT ... FOR UPDATE and UPDATE    *)
(* lock the voucher row until the transaction ends and see the last        *)
(* committed row; a plain SELECT COUNT sees the snapshot taken at the      *)
(* transaction's first plain SELECT.  The per-user counter row is only     *)
(* touched by a transaction that holds the voucher row, and the            *)
(* user_vouchers row only by captures just before they lock the voucher    *)
(* row, so the voucher row stands for all three.  What a transaction       *)
(* writes under its locks is modelled at its commit.  A report that        *)
(* repeats or contradicts an earlier one is OrderPayments's subject.       *)
(***************************************************************************)
EXTENDS Integers, FiniteSets

CONSTANTS
    Orders,          \* checkouts, also the orders they create
    Users,
    Vouchers,
    UserOf,          \* UserOf[o]: who places order o
    Applied,         \* Applied[o]: the vouchers order o uses
    Rank,            \* the order by (stacking_priority, code)
    Id,              \* vouchers.id
    Limited,         \* vouchers whose max_redemptions is not NULL
    LimitedPerUser,  \* vouchers whose max_redemptions_per_user is not NULL
    MaxRedemptions,  \* [Vouchers -> Nat], meaningful on Limited
    MaxPerUser,      \* [Vouchers -> Nat], meaningful on LimitedPerUser
    Revived,         \* orders the gateway may capture after refusing them
    None

ASSUME ReservationAssumption ==
    /\ UserOf \in [Orders -> Users]
    /\ Applied \in [Orders -> SUBSET Vouchers]
    /\ Rank \in [Vouchers -> Nat]
    /\ Id \in [Vouchers -> Nat]
    /\ \A v, w \in Vouchers : Rank[v] = Rank[w] => v = w
    /\ \A v, w \in Vouchers : Id[v] = Id[w] => v = w
    /\ Limited \subseteq Vouchers /\ LimitedPerUser \subseteq Vouchers
    /\ MaxRedemptions \in [Vouchers -> Nat] /\ MaxPerUser \in [Vouchers -> Nat]
    /\ Revived \subseteq Orders
    /\ None \notin Orders

VARIABLES
    status,        \* order_intents.status, committed
    pc,            \* the transaction that runs on behalf of each order
    left,          \* the vouchers that transaction has not dealt with yet
    snapshot,      \* the pending orders its plain SELECTs see, once it has made one
    lock,          \* who holds each voucher row
    redeemed,      \* vouchers.redemption_count, committed
    userRedeemed   \* voucher_user_redemption_counters.redemption_count, committed

counters == <<redeemed, userRedeemed>>
vars == <<status, pc, left, snapshot, lock, counters>>

TypeOK ==
    /\ status \in [Orders -> {"NONE", "PAYMENT_PENDING", "READY_TO_COLLECT", "PAYMENT_FAILED"}]
    /\ pc \in [Orders -> {"idle", "checkout", "capture"}]
    /\ left \in [Orders -> SUBSET Vouchers]
    /\ \A o \in Orders : snapshot[o] = {None} \/ snapshot[o] \subseteq Orders
    /\ lock \in [Vouchers -> Orders \cup {None}]
    /\ redeemed \in [Vouchers -> Nat]
    /\ userRedeemed \in [Vouchers -> [Users -> Nat]]

Init ==
    /\ status = [o \in Orders |-> "NONE"]
    /\ pc = [o \in Orders |-> "idle"]
    /\ left = [o \in Orders |-> {}]
    /\ snapshot = [o \in Orders |-> {None}]
    /\ lock = [v \in Vouchers |-> None]
    /\ redeemed = [v \in Vouchers |-> 0]
    /\ userRedeemed = [v \in Vouchers |-> [u \in Users |-> 0]]

-----------------------------------------------------------------------------
Pending == {o \in Orders : status[o] = "PAYMENT_PENDING"}

\* COMMIT and ROLLBACK give back every row lock and forget the snapshot.
EndTransaction(o) ==
    /\ pc' = [pc EXCEPT ![o] = "idle"]
    /\ left' = [left EXCEPT ![o] = {}]
    /\ snapshot' = [snapshot EXCEPT ![o] = {None}]
    /\ lock' = [v \in Vouchers |-> IF lock[v] = o THEN None ELSE lock[v]]

\* A limit, a deadlock or lock wait timeout, a cancelled request.
Rollback(o) == EndTransaction(o) /\ UNCHANGED <<status, counters>>

-----------------------------------------------------------------------------
(* Checkout *)

BeginCheckout(o) ==
    /\ pc[o] = "idle" /\ status[o] = "NONE"
    /\ pc' = [pc EXCEPT ![o] = "checkout"]
    /\ left' = [left EXCEPT ![o] = Applied[o]]
    /\ UNCHANGED <<status, snapshot, lock, counters>>

\* Slip: the vouchers in whatever order the client listed them.
AnyLeft(o) == left[o]

\* calculateVoucherStack sorts the vouchers, and the limits are enforced in
\* that order.
NextInStack(o) == {v \in left[o] : \A w \in left[o] : Rank[v] <= Rank[w]}

\* Slip: a plain SELECT of the voucher row.
LockUnneeded(o) ==
    /\ pc[o] = "checkout"
    /\ \A v \in left[o] : lock[v] # o
    /\ \E v \in NextInStack(o) : lock' = [lock EXCEPT ![v] = o]
    /\ UNCHANGED <<status, pc, left, snapshot, counters>>

\* SELECT ... FROM vouchers ... FOR UPDATE
LockVoucher(o) ==
    /\ pc[o] = "checkout"
    /\ \A v \in left[o] : lock[v] # o
    /\ \E v \in NextInStack(o) :
          /\ lock[v] = None
          /\ lock' = [lock EXCEPT ![v] = o]
    /\ UNCHANGED <<status, pc, left, snapshot, counters>>

\* What the counting SELECTs of o see.
Seen(o) == IF snapshot[o] = {None} THEN Pending ELSE snapshot[o]

Using(v, orders) == {o \in orders : v \in Applied[o]}

\* Slip: only the redemptions count, not the orders that await payment.
HasRoomNow(v, o, pending) ==
    /\ v \in Limited => redeemed[v] < MaxRedemptions[v]
    /\ v \in LimitedPerUser => userRedeemed[v][UserOf[o]] < MaxPerUser[v]

HasRoom(v, o, pending) ==
    /\ v \in Limited =>
          redeemed[v] + Cardinality(Using(v, pending)) < MaxRedemptions[v]
    /\ v \in LimitedPerUser =>
          userRedeemed[v][UserOf[o]]
              + Cardinality({p \in Using(v, pending) : UserOf[p] = UserOf[o]}) < MaxPerUser[v]

CheckLimits(o) ==
    /\ pc[o] = "checkout"
    /\ \E v \in left[o] :
          /\ lock[v] = o
          /\ IF HasRoom(v, o, Seen(o))
             THEN /\ left' = [left EXCEPT ![o] = @ \ {v}]
                  /\ snapshot' = [snapshot EXCEPT ![o] =
                        IF v \in Limited \cup LimitedPerUser THEN Seen(o) ELSE @]
                  /\ UNCHANGED <<status, pc, lock, counters>>
             ELSE Rollback(o)

\* The rows of the order, its vouchers and its payment, and COMMIT.
CommitCheckout(o) ==
    /\ pc[o] = "checkout" /\ left[o] = {}
    /\ status' = [status EXCEPT ![o] = "PAYMENT_PENDING"]
    /\ EndTransaction(o)
    /\ UNCHANGED counters

-----------------------------------------------------------------------------
(* The payment is decided *)

PaymentRefused(o) ==
    /\ pc[o] = "idle" /\ status[o] = "PAYMENT_PENDING"
    /\ status' = [status EXCEPT ![o] = "PAYMENT_FAILED"]
    /\ UNCHANGED <<pc, left, snapshot, lock, counters>>

BeginCapture(o) ==
    /\ pc[o] = "idle"
    /\ \/ status[o] = "PAYMENT_PENDING"
       \/ status[o] = "PAYMENT_FAILED" /\ o \in Revived
    /\ pc' = [pc EXCEPT ![o] = "capture"]
    /\ left' = [left EXCEPT ![o] = Applied[o]]
    /\ UNCHANGED <<status, snapshot, lock, counters>>

\* The guards of the two increments.
MayRedeem(v, u) ==
    /\ v \in Limited => redeemed[v] < MaxRedemptions[v]
    /\ v \in LimitedPerUser => userRedeemed[v][u] < MaxPerUser[v]

\* The join that reads the vouchers of an order has no ORDER BY; it goes through
\* the unique key on (order_tracking_id, voucher_id).
NextInJoin(o) == {v \in left[o] : \A w \in left[o] : Id[v] <= Id[w]}

\* UPDATE vouchers ... WHERE redemption_count < max_redemptions, and the
\* counter of the user.
RedeemVoucher(o) ==
    /\ pc[o] = "capture"
    /\ \E v \in NextInJoin(o) :
          /\ lock[v] = None
          /\ IF MayRedeem(v, UserOf[o])
             THEN /\ lock' = [lock EXCEPT ![v] = o]
                  /\ left' = [left EXCEPT ![o] = @ \ {v}]
                  /\ UNCHANGED <<status, pc, snapshot, counters>>
             ELSE Rollback(o)

CommitCapture(o) ==
    /\ pc[o] = "capture" /\ left[o] = {}
    /\ status' = [status EXCEPT ![o] = "READY_TO_COLLECT"]
    /\ redeemed' = [v \in Vouchers |-> redeemed[v] + (IF v \in Applied[o] THEN 1 ELSE 0)]
    /\ userRedeemed' = [v \in Vouchers |-> [u \in Users |->
          userRedeemed[v][u] + (IF v \in Applied[o] /\ u = UserOf[o] THEN 1 ELSE 0)]]
    /\ EndTransaction(o)

Abort(o) == pc[o] # "idle" /\ Rollback(o)

Next ==
    \E o \in Orders :
        \/ BeginCheckout(o) \/ LockVoucher(o) \/ CheckLimits(o) \/ CommitCheckout(o)
        \/ PaymentRefused(o)
        \/ BeginCapture(o) \/ RedeemVoucher(o) \/ CommitCapture(o)
        \/ Abort(o)

Spec == Init /\ [][Next]_vars

-----------------------------------------------------------------------------
(* Properties *)

\* The vouchers whose count is the first one of every checkout that uses them,
\* and whose orders are not captured after a refusal.  For the others checkout
\* promises less: ReservedAtomically is about them.
CountedFirst ==
    {v \in Vouchers : \A o \in Orders : v \in Applied[o] =>
        /\ o \notin Revived
        /\ \A w \in Applied[o] \cap (Limited \cup LimitedPerUser) : Rank[v] <= Rank[w]}

\* A customer who was let through checkout can pay: the capture of an order that
\* awaits payment never runs into a limit of a voucher counted first.  (And TypeOK.)
CapturesHaveRoom ==
    /\ TypeOK
    /\ \A o \in Orders :
          pc[o] = "capture" /\ status[o] = "PAYMENT_PENDING" =>
              \A v \in left[o] \cap CountedFirst : MayRedeem(v, UserOf[o])

\* The voucher row a checkout or a capture waits for.
Awaited(o) ==
    CASE pc[o] = "checkout" /\ (\A v \in left[o] : lock[v] # o) ->
             {v \in NextInStack(o) : lock[v] # None}
      [] pc[o] = "capture" -> {v \in NextInJoin(o) : lock[v] # None}
      [] OTHER -> {}

\* A capture that holds a row of its order and waits for one with a higher id
\* that checkouts lock before it.
OutOfOrder(o) ==
    /\ pc[o] = "capture"
    /\ \E v \in Awaited(o), w \in Applied[o] :
          lock[w] = o /\ Id[w] < Id[v] /\ Rank[v] < Rank[w]

\* Checkouts and captures whose stacks overlap wait for each other in a circle
\* only if one of them is such a capture: checkouts alone never do, and nobody
\* does where ids and priorities order the vouchers alike.
NoOrderlyDeadlock ==
    \A circle \in (SUBSET Orders) \ {{}} :
        (\A o \in circle : \E v \in Awaited(o) : lock[v] \in circle \ {o})
            => \E o \in circle : OutOfOrder(o)

\* DATABASE_SCHEMA.md on vouchers: "Voucher redemption must be reserved
\* atomically during checkout" -- the pending orders fit into what is left.
ReservedAtomically ==
    \A v \in Limited :
        redeemed[v] + Cardinality(Using(v, Pending)) <= MaxRedemptions[v]

\* Read as one reservation per order, of its vouchers that are counted first,
\* checkout and capture keep the promise of VoucherLedger.
Ledger == INSTANCE VoucherLedger WITH
              Vouchers <- CountedFirst,
              Applied <- [o \in Orders |-> Applied[o] \cap CountedFirst],
              held <- Pending,
              redeemed <- [v \in CountedFirst |-> redeemed[v]],
              userRedeemed <- [v \in CountedFirst |-> userRedeemed[v]]
ImplementsLedger == Ledger!LedgerSpec
=============================================================================
